-------------------------- MODULE LinuxUrbsProofs --------------------------
(***************************************************************************)
(* Proofs about LinuxUrbs, for transfers of any type, number and size of   *)
(* URBs: libusb lets go of the URBs only when the kernel has none of them  *)
(* and none is left to be reaped, the transfer goes through the life       *)
(* TransferLifecycle promises, and what is reported of its data and its    *)
(* outcome is what happened on the bus.                                    *)
(*                                                                         *)
(* All rest on UrbsInv: the URBs of an allocated transfer form a pipeline  *)
(* whose stages are counted, and whose order is known until something goes *)
(* wrong (reap_action no longer NORMAL).  A "lone_stall" breaks it (a stall*)
(* leaves reap_action NORMAL while URBs behind are being discarded), so    *)
(* that the theorems exclude it; the last part, about data, excludes an    *)
(* "early_error" as well.                                                  *)
(***************************************************************************)
EXTENDS LinuxUrbs, TLAPS, FiniteSetTheorems, SequenceTheorems

(* Who has the lock, and what the transfer is while it is held.            *)
LockInv ==
  /\ at \in [UrbThreads -> {"idle", "submit", "discard", "reaped", "report", "wait", "rewait"}]
  /\ at["user"] \in {"idle", "submit", "discard", "wait", "rewait"}
  /\ at["handler"] \in {"idle", "reaped", "report", "discard"}
  /\ xlock \in UrbThreads \union {"none"}
  /\ xlock = "user" <=> at["user"] \in {"submit", "discard"}
  /\ xlock = "handler" <=> at["handler"] = "discard"

LifeInv ==
  /\ shape \in Shapes /\ allocated \in BOOLEAN /\ life \in {"idle", "submitting", "flying"}
  /\ life = "submitting" <=> at["user"] = "submit"
  /\ at["handler"] = "report" => life = "flying"
  /\ allocated <=> life = "submitting" \/ (life = "flying" /\ at["handler"] # "report")
  /\ holding # 0 <=> at["handler"] = "reaped"
  /\ \A t \in UrbThreads : at[t] = "discard" => life = "flying" /\ allocated

LoopInv ==
  /\ at["user"] = "submit" => /\ action = "NORMAL" /\ retired = 0
                              /\ cursor \in 1..N /\ last = N
  /\ at["user"] = "discard" => action # "NORMAL"
  /\ \A t \in UrbThreads : at[t] = "discard" =>
       /\ last \in 1..N /\ cursor \in last..N
       /\ \A i \in Queued : i <= cursor
       /\ action = "NORMAL" => Queued \subseteq {N}

QueueInv ==
  /\ urbs \in [1..MaxUrbs -> {"none", "queued"} \union Ends]
  /\ holding \in 0..N /\ reapable \in Seq(1..N)
  /\ holding # 0 => urbs[holding] \in Ends
  /\ \A j \in 1..Len(reapable) : urbs[reapable[j]] \in Ends
  /\ device = "gone" \/ endpoint = "disabled" => Queued = {}
  /\ \A i \in 1..N : /\ urbs[i] = "nodev" => device = "gone"
                     /\ urbs[i] = "overflow" => i = N
                     /\ urbs[i] = "stall" => N <= 2 \/ endpoint = "disabled"

(* Each URB of an allocated transfer has been retired, is held, waits to be*)
(* reaped, is with the kernel or is still to be submitted; in that order   *)
(* as long as nothing has gone wrong.                                      *)
Held == IF holding = 0 THEN 0 ELSE 1
Unsubmitted == IF at["user"] = "submit" THEN N - cursor + 1 ELSE 0

Pipeline(low, high) ==
  /\ Queued = low..high /\ low <= high + 1
  /\ retired + Held + Len(reapable) + (high - low + 1) + Unsubmitted = N
  /\ action = "NORMAL" =>
       /\ low = retired + Held + Len(reapable) + 1
       /\ holding # 0 => holding = retired + 1
       /\ \A j \in 1..Len(reapable) : reapable[j] = retired + Held + j

CountInv == allocated => \E low, high \in Nat : Pipeline(low, high)

UrbsInv ==
  /\ LockInv /\ LifeInv /\ LoopInv /\ QueueInv /\ CountInv /\ UrbsOwned
  /\ retired \in Nat /\ action \in Actions

-----------------------------------------------------------------------------
(* Operators of the model.                                                 *)
LEMMA SeqOfFunction ==
  ASSUME NEW S, NEW k \in Nat, NEW f \in [1..k -> S]
  PROVE  f \in Seq(S) /\ Len(f) = k
  OBVIOUS

LEMMA MaxIs ==
  ASSUME NEW S \in SUBSET Int, NEW m \in S, \A n \in S : m >= n
  PROVE  Max(S) = m
<1>1. \A x \in S : (\A n \in S : x >= n) => x = m
  OBVIOUS
<1> QED
  BY <1>1 DEF Max

LEMMA ShapeIs ==
  ASSUME shape \in Shapes
  PROVE  /\ N \in Nat \ {0} /\ Capacity \in Nat \ {0} /\ MaxUrbs \in Nat /\ N <= MaxUrbs
         /\ shape.type = "control" => N = 1
         /\ shape.type \in {"bulk", "interrupt", "control", "iso"}
         /\ \A s \in Shapes : s.urbs \in Nat \ {0} /\ s.urbs <= MaxUrbs
<1>1. \A s \in Shapes : s.urbs \in Nat \ {0} /\ s.size \in Nat \ {0}
                        /\ s.type \in {"bulk", "interrupt", "control", "iso"}
  BY ShapesAssumption
<1>2. PICK s \in Shapes : \A r \in Shapes : r.urbs <= s.urbs
  BY ShapesAssumption
<1> DEFINE counts == {r.urbs : r \in Shapes}
<1>3. s.urbs \in counts /\ counts \in SUBSET Int /\ \A n \in counts : s.urbs >= n
  BY <1>1, <1>2
<1>5. Max(counts) = s.urbs
  <2> HIDE DEF counts
  <2> QED
    BY <1>3, MaxIs
<1>6. MaxUrbs = s.urbs
  BY <1>5 DEF MaxUrbs
<1> QED
  BY <1>1, <1>2, <1>6, ShapesAssumption DEF N, Capacity

LEMMA AscendingIs ==
  ASSUME NEW low \in Nat, NEW high \in Nat, low <= high + 1
  PROVE  Ascending(low..high) = [n \in 1..(high - low + 1) |-> low + n - 1]
<1>1. Cardinality(low..high) = high - low + 1
  BY FS_Interval
<1>2. ASSUME NEW n \in 1..(high - low + 1)
      PROVE  (CHOOSE i \in low..high : Cardinality({j \in low..high : j < i}) = n - 1) = low + n - 1
  <2>1. ASSUME NEW i \in low..high
        PROVE  Cardinality({j \in low..high : j < i}) = i - low
    <3> DEFINE T == {j \in low..high : j < i}
    <3>1. T = low..(i - 1)
      OBVIOUS
    <3> HIDE DEF T
    <3>2. Cardinality(T) = IF low > i - 1 THEN 0 ELSE (i - 1) - low + 1
      BY <3>1, FS_Interval
    <3>3. Cardinality(T) = i - low
      BY <3>2
    <3> QED
      BY <3>3 DEF T
  <2>2. low + n - 1 \in low..high
    OBVIOUS
  <2>3. \A i \in low..high : Cardinality({j \in low..high : j < i}) = n - 1 <=> i = low + n - 1
    BY <2>1
  <2> QED
    BY <2>2, <2>3
<1> QED
  BY <1>1, <1>2 DEF Ascending

LEMMA MinIs ==
  ASSUME NEW low \in Nat, NEW high \in Nat, low <= high
  PROVE  Min(low..high) = low
<1>1. low \in low..high /\ \A y \in low..high : low =< y
  OBVIOUS
<1>2. \A x \in low..high : (\A y \in low..high : x =< y) => x = low
  OBVIOUS
<1> QED
  BY <1>1, <1>2 DEF Min

LEMMA PipelineIs ==
  ASSUME UrbsInv, NEW low \in Nat, NEW high \in Nat, Pipeline(low, high)
  PROVE  /\ N \in Nat \ {0} /\ 1..N \subseteq 1..MaxUrbs /\ Len(reapable) \in Nat
         /\ Held \in {0, 1} /\ Unsubmitted \in Nat /\ retired \in Nat
         /\ \A i \in low..high : i \in 1..N /\ urbs[i] = "queued"
         /\ low <= high => low \in 1..N /\ high \in 1..N
         /\ low <= high + 1
<1>1. N \in Nat \ {0} /\ MaxUrbs \in Nat /\ N <= MaxUrbs
  BY ShapeIs DEF UrbsInv, LifeInv
<1>2. Len(reapable) \in Nat
  BY LenProperties DEF UrbsInv, QueueInv
<1>3. Unsubmitted \in Nat
  BY <1>1 DEF Unsubmitted, UrbsInv, LoopInv
<1>4. low..high = Queued /\ low <= high + 1
  BY DEF Pipeline
<1>5. \A i \in low..high : i \in 1..N /\ urbs[i] = "queued"
  BY <1>4 DEF Queued
<1>6. low <= high => low \in low..high /\ high \in low..high
  OBVIOUS
<1> QED
  BY <1>1, <1>2, <1>3, <1>4, <1>5, <1>6 DEF Held, UrbsInv

LEMMA NoneHeld ==
  ASSUME UrbsInv, NEW low \in Nat, NEW high \in Nat, Pipeline(low, high),
         retired + Held = N \/ (action = "NORMAL" /\ holding = N)
  PROVE  reapable = <<>> /\ Queued = {} /\ Unsubmitted = 0
<1>1. /\ N \in Nat \ {0} /\ Len(reapable) \in Nat /\ Held \in {0, 1} /\ Unsubmitted \in Nat
      /\ retired \in Nat /\ low <= high + 1
  BY PipelineIs
<1>2. /\ retired + Held + Len(reapable) + (high - low + 1) + Unsubmitted = N
      /\ Queued = low..high
      /\ action = "NORMAL" /\ holding # 0 => holding = retired + 1
  BY DEF Pipeline
<1>3. retired + Held = N
  BY <1>1, <1>2 DEF Held
<1>4. Len(reapable) = 0 /\ high - low + 1 = 0 /\ Unsubmitted = 0
  BY <1>1, <1>2, <1>3
<1>5. Queued = {}
  BY <1>2, <1>4
<1>6. reapable = <<>>
  BY <1>4, EmptySeq DEF UrbsInv, QueueInv
<1> QED
  BY <1>4, <1>5, <1>6

-----------------------------------------------------------------------------
(* The kernel: the lowest URBs in the queue end, in order.                 *)
LEMMA UrbsEnd ==
  ASSUME UrbsInv, allocated, NEW low \in Nat, NEW high \in Nat, Pipeline(low, high),
         NEW n \in 0..(high - low + 1),
         urbs' \in [1..MaxUrbs -> {"none", "queued"} \union Ends],
         \A j \in 1..N : j \in low..(low + n - 1) => urbs'[j] \in Ends,
         \A j \in 1..N : j \notin low..(low + n - 1) => urbs'[j] = urbs[j],
         reapable' = reapable \o [j \in 1..n |-> low + j - 1],
         device' = "gone" \/ endpoint' = "disabled" => n = high - low + 1,
         \A i \in 1..N : /\ urbs'[i] = "nodev" => device' = "gone"
                         /\ urbs'[i] = "overflow" => i = N
                         /\ urbs'[i] = "stall" => N <= 2 \/ endpoint' = "disabled",
         UNCHANGED <<threadVars, shape, transferVars, verdict, holding, programVars>>
  PROVE  UrbsInv'
<1> DEFINE s == [j \in 1..n |-> low + j - 1]
<1>1. /\ N \in Nat \ {0} /\ 1..N \subseteq 1..MaxUrbs /\ Len(reapable) \in Nat
      /\ Held \in {0, 1} /\ Unsubmitted \in Nat /\ retired \in Nat
      /\ \A i \in low..high : i \in 1..N /\ urbs[i] = "queued"
      /\ low <= high + 1
  BY PipelineIs
<1>2. n \in Nat /\ low + n <= high + 1
  BY <1>1
<1>3. s \in Seq(1..N) /\ Len(s) = n /\ \A j \in 1..n : s[j] = low + j - 1
  BY <1>1, <1>2
<1> HIDE DEF s
<1>4. reapable \in Seq(1..N) /\ reapable' = reapable \o s
  BY DEF s, UrbsInv, QueueInv
<1>5. /\ reapable' \in Seq(1..N) /\ Len(reapable') = Len(reapable) + n
      /\ \A j \in 1..Len(reapable) : reapable'[j] = reapable[j]
      /\ \A j \in 1..n : reapable'[Len(reapable) + j] = low + j - 1
  <2>1. /\ reapable' \in Seq(1..N) /\ Len(reapable') = Len(reapable) + n
        /\ \A i \in 1..(Len(reapable) + n) :
             reapable'[i] = IF i <= Len(reapable) THEN reapable[i] ELSE s[i - Len(reapable)]
    <3>1. /\ reapable \o s \in Seq(1..N) /\ Len(reapable \o s) = Len(reapable) + Len(s)
          /\ \A i \in 1..(Len(reapable) + Len(s)) :
               (reapable \o s)[i] = IF i <= Len(reapable) THEN reapable[i]
                                    ELSE s[i - Len(reapable)]
      BY <1>3, <1>4, ConcatProperties
    <3> QED
      BY <1>3, <1>4, <3>1
  <2>2. ASSUME NEW j \in 1..n PROVE reapable'[Len(reapable) + j] = low + j - 1
    <3>1. /\ Len(reapable) + j \in 1..(Len(reapable) + n) /\ ~(Len(reapable) + j <= Len(reapable))
          /\ (Len(reapable) + j) - Len(reapable) = j
      BY <1>1, <1>2
    <3> QED
      BY <1>3, <2>1, <3>1
  <2> QED
    BY <1>1, <1>2, <2>1, <2>2
<1>6. /\ UNCHANGED <<at, xlock, cursor, last, shape, allocated, action, retired, holding, life>>
      /\ N' = N /\ Held' = Held /\ Unsubmitted' = Unsubmitted
  BY DEF threadVars, transferVars, programVars, N, Held, Unsubmitted
<1>7. Queued' = (low + n)..high
  <2>1. Queued' = {j \in 1..N : urbs'[j] = "queued"}
    BY <1>6 DEF Queued
  <2>2. Queued = low..high /\ Queued = {j \in 1..N : urbs[j] = "queued"}
    BY DEF Pipeline, Queued
  <2>3. "queued" \notin Ends
    BY DEF Ends
  <2>4. ASSUME NEW j \in 1..N
        PROVE  urbs'[j] = "queued" <=> j \in (low + n)..high
    <3>1. CASE j \in low..(low + n - 1)
      BY <1>2, <2>3, <3>1
    <3>2. CASE j \notin low..(low + n - 1)
      <4>1. urbs'[j] = "queued" <=> j \in low..high
        BY <2>2, <3>2
      <4> QED
        BY <1>2, <3>2, <4>1
    <3> QED
      BY <3>1, <3>2
  <2>5. (low + n)..high \subseteq 1..N
    BY <1>1, <1>2
  <2> QED
    BY <2>1, <2>4, <2>5
<1>8. Queued' \subseteq Queued
  BY <1>2, <1>7 DEF Pipeline
<1>9. LockInv' /\ LifeInv'
  BY <1>6 DEF UrbsInv, LockInv, LifeInv
<1>10. LoopInv'
  BY <1>6, <1>8 DEF UrbsInv, LoopInv
<1>11. QueueInv'
  <2>1. holding \in 1..N /\ urbs[holding] \in Ends => urbs'[holding] \in Ends
    <3>1. "queued" \notin Ends
      BY DEF Ends
    <3> QED
      BY <1>1, <1>2, <3>1
  <2>2. \A j \in 1..Len(reapable) : urbs'[reapable[j]] \in Ends
    <3>1. ASSUME NEW j \in 1..Len(reapable) PROVE urbs'[reapable[j]] \in Ends
      <4>1. reapable[j] \in 1..N
        BY <1>4, ElementOfSeq
      <4>2. urbs[reapable[j]] \in Ends
        BY DEF UrbsInv, QueueInv
      <4> QED
        BY <4>1, <4>2
    <3> QED
      BY <3>1
  <2>3. \A j \in 1..n : urbs'[low + j - 1] \in Ends
    BY <1>1, <1>2
  <2>4. \A j \in 1..Len(reapable') : urbs'[reapable'[j]] \in Ends
    <3>1. ASSUME NEW j \in 1..Len(reapable') PROVE urbs'[reapable'[j]] \in Ends
      <4>1. CASE j <= Len(reapable)
        BY <1>1, <1>5, <2>2, <4>1
      <4>2. CASE j > Len(reapable)
        <5>1. j - Len(reapable) \in 1..n /\ j = Len(reapable) + (j - Len(reapable))
          BY <1>1, <1>2, <1>5, <4>2
        <5>2. reapable'[j] = low + (j - Len(reapable)) - 1
          BY <1>5, <5>1
        <5> QED
          BY <2>3, <5>1, <5>2
      <4> QED
        BY <1>1, <4>1, <4>2
    <3> QED
      BY <3>1
  <2>5. device' = "gone" \/ endpoint' = "disabled" => Queued' = {}
    BY <1>2, <1>7
  <2>6. holding' # 0 => urbs'[holding'] \in Ends
    BY <1>1, <1>6, <2>1 DEF UrbsInv, QueueInv
  <2> QED
    BY <1>5, <1>6, <2>4, <2>5, <2>6 DEF UrbsInv, QueueInv
<1>12. Pipeline(low + n, high)'
  <2>1. /\ low + n <= high + 1
        /\ retired + Held + (Len(reapable) + n) + (high - (low + n) + 1) + Unsubmitted = N
    BY <1>1, <1>2 DEF Pipeline
  <2>2. ASSUME action = "NORMAL"
        PROVE  /\ low + n = retired + Held + (Len(reapable) + n) + 1
               /\ holding # 0 => holding = retired + 1
               /\ \A j \in 1..(Len(reapable) + n) : reapable'[j] = retired + Held + j
    <3>1. /\ low = retired + Held + Len(reapable) + 1
          /\ holding # 0 => holding = retired + 1
          /\ \A j \in 1..Len(reapable) : reapable[j] = retired + Held + j
      BY <2>2 DEF Pipeline
    <3>2. ASSUME NEW j \in 1..(Len(reapable) + n) PROVE reapable'[j] = retired + Held + j
      <4>1. CASE j <= Len(reapable)
        BY <1>1, <1>5, <3>1, <4>1
      <4>2. CASE j > Len(reapable)
        <5>1. j - Len(reapable) \in 1..n /\ j = Len(reapable) + (j - Len(reapable))
          BY <1>1, <1>2, <4>2
        <5>2. reapable'[j] = low + (j - Len(reapable)) - 1
          BY <1>5, <5>1
        <5> QED
          BY <1>1, <3>1, <5>2
      <4> QED
        BY <1>1, <4>1, <4>2
    <3> QED
      BY <1>1, <1>2, <3>1, <3>2
  <2> QED
    BY <1>5, <1>6, <1>7, <2>1, <2>2 DEF Pipeline
<1>13. CountInv' /\ UrbsOwned'
  BY <1>2, <1>6, <1>12 DEF CountInv, UrbsOwned
<1> QED
  BY <1>6, <1>9, <1>10, <1>11, <1>13 DEF UrbsInv

(* Nothing that the invariant mentions has changed.                        *)
LEMMA UrbsKept ==
  ASSUME UrbsInv,
         UNCHANGED <<at, xlock, cursor, last, shape, allocated, action, retired, urbs, reapable,
                     endpoint, holding, device, life>>
  PROVE  UrbsInv'
  BY DEF UrbsInv, LockInv, LifeInv, LoopInv, QueueInv, CountInv, Pipeline, UrbsOwned, Queued, N, Held,
         Unsubmitted

(* What leaves the queue when a URB ends: it, or all of it.                *)
Killed(i, how) == IF shape.continuation /\ how # "ok" THEN Queued \ {i} ELSE {}
LeavingUrbs(low, high, how) == IF shape.continuation /\ how # "ok" THEN high - low + 1 ELSE 1
EndTaken(i, how, low, high) ==
  /\ i = low /\ low <= high /\ low \in 1..N /\ high \in 1..N
  /\ LeavingUrbs(low, high, how) \in 1..(high - low + 1)
  /\ Killed(i, how) = (low + 1)..(low + LeavingUrbs(low, high, how) - 1)
  /\ reapable' = reapable \o [j \in 1..LeavingUrbs(low, high, how) |-> low + j - 1]

LEMMA EndTakes ==
  ASSUME UrbsInv, NEW i \in 1..MaxUrbs, NEW how \in Ends, End(i, how),
         NEW low \in Nat, NEW high \in Nat, Pipeline(low, high)
  PROVE  EndTaken(i, how, low, high)
<1>1. /\ device = "there" /\ endpoint = "running" /\ Queued # {} /\ i = Min(Queued)
      /\ UNCHANGED <<device, threadVars, shape, transferVars, verdict, holding, programVars>>
  BY DEF End, Serves, KernelLeaves
<1>2. /\ N \in Nat \ {0} /\ 1..N \subseteq 1..MaxUrbs /\ Queued = low..high
      /\ \A j \in low..high : j \in 1..N /\ urbs[j] = "queued"
  BY PipelineIs DEF Pipeline
<1>3. low <= high /\ low \in 1..N /\ high \in 1..N
  BY <1>1, <1>2
<1>4. i = low
  BY <1>1, <1>2, <1>3, MinIs
<1> DEFINE kills == shape.continuation /\ how # "ok"
           others == IF kills THEN Queued \ {i} ELSE {}
           n == IF kills THEN high - low + 1 ELSE 1
<1>5. /\ urbs' = [j \in 1..MaxUrbs |-> IF j = i THEN how
                                       ELSE IF j \in others THEN "killed" ELSE urbs[j]]
      /\ reapable' = reapable \o <<i>> \o Ascending(others)
      /\ endpoint' = IF kills THEN "disabled" ELSE IF how = "stall" THEN "halted" ELSE endpoint
  BY DEF End
<1>6. others = (low + 1)..(low + n - 1) /\ n \in 1..(high - low + 1)
  <2>1. (low..high) \ {low} = (low + 1)..high /\ {} = (low + 1)..low
    OBVIOUS
  <2>2. CASE kills
    <3>1. others = (low + 1)..high /\ n = high - low + 1
      BY <1>2, <1>4, <2>1, <2>2
    <3>2. low + (high - low + 1) - 1 = high
      OBVIOUS
    <3> QED
      BY <1>3, <3>1, <3>2
  <2>3. CASE ~kills
    <3>1. others = {} /\ n = 1
      BY <2>3
    <3>2. low + 1 - 1 = low /\ 1 \in 1..(high - low + 1)
      BY <1>3
    <3> HIDE DEF others, n
    <3> QED
      BY <2>1, <3>1, <3>2
  <2> QED
    BY <2>2, <2>3
<1>7. reapable' = reapable \o [j \in 1..n |-> low + j - 1]
  <2>1. Ascending(others) = [m \in 1..(n - 1) |-> low + m]
    <3>1. low + 1 \in Nat /\ low + n - 1 \in Nat /\ low + 1 <= (low + n - 1) + 1
      BY <1>3, <1>6
    <3>2. Ascending((low + 1)..(low + n - 1))
            = [m \in 1..((low + n - 1) - (low + 1) + 1) |-> (low + 1) + m - 1]
      BY <3>1, AscendingIs
    <3>3. (low + n - 1) - (low + 1) + 1 = n - 1
      BY <1>3, <1>6
    <3>4. \A m \in 1..(n - 1) : (low + 1) + m - 1 = low + m
      BY <1>3, <1>6
    <3> QED
      BY <1>6, <3>2, <3>3, <3>4
  <2> HIDE DEF others, n
  <2>2. n \in Nat \ {0} /\ low + n - 1 <= high
    BY <1>3, <1>6
  <2> DEFINE t == [m \in 1..(n - 1) |-> low + m]
             s == [j \in 1..n |-> low + j - 1]
  <2>3. t \in Seq(1..N) /\ Len(t) = n - 1
    <3>1. n - 1 \in Nat /\ t \in [1..(n - 1) -> 1..N]
      BY <1>2, <1>3, <2>2
    <3> HIDE DEF t
    <3> QED
      BY <3>1, SeqOfFunction
  <2>4. s \in Seq(1..N) /\ Len(s) = n
    <3>1. n \in Nat /\ s \in [1..n -> 1..N]
      BY <1>2, <1>3, <2>2
    <3> HIDE DEF s
    <3> QED
      BY <3>1, SeqOfFunction
  <2>5. <<i>> \in Seq(1..N) /\ Len(<<i>>) = 1 /\ reapable \in Seq(1..N)
    BY <1>3, <1>4 DEF UrbsInv, QueueInv
  <2>6. <<i>> \o t = s
    <3>1. /\ <<i>> \o t \in Seq(1..N) /\ Len(<<i>> \o t) = n
          /\ \A j \in 1..n : (<<i>> \o t)[j] = IF j <= 1 THEN <<i>>[j] ELSE t[j - 1]
      BY <2>2, <2>3, <2>5, ConcatProperties
    <3>2. \A j \in 1..n : (IF j <= 1 THEN <<i>>[j] ELSE t[j - 1]) = s[j]
      BY <1>4, <2>2
    <3> HIDE DEF s, t
    <3> QED
      BY <2>4, <3>1, <3>2, SeqEqual
  <2>7. (reapable \o <<i>>) \o t = reapable \o (<<i>> \o t)
    <3> HIDE DEF t
    <3> QED
      BY <2>3, <2>5, ConcatAssociative
  <2> QED
    BY <1>5, <2>1, <2>6, <2>7
<1>8. n = LeavingUrbs(low, high, how) /\ others = Killed(i, how)
  BY DEF LeavingUrbs, Killed
<1> HIDE DEF n, others
<1> QED
  BY <1>3, <1>4, <1>6, <1>7, <1>8 DEF EndTaken

LEMMA EndKeeps ==
  ASSUME UrbsInv, NEW i \in 1..MaxUrbs, NEW how \in Ends \ {"nodev"}, End(i, how),
         how = "overflow" => i = N,
         how = "stall" => N <= 2 \/ shape.continuation
  PROVE  UrbsInv'
<1>1. /\ device = "there" /\ endpoint = "running" /\ Queued # {} /\ i = Min(Queued)
      /\ UNCHANGED <<device, threadVars, shape, transferVars, verdict, holding, programVars>>
  BY DEF End, Serves, KernelLeaves
<1>2. allocated
  BY <1>1 DEF UrbsInv, UrbsOwned
<1> PICK low \in Nat, high \in Nat : Pipeline(low, high)
  BY <1>2 DEF UrbsInv, CountInv
<1>3. /\ N \in Nat \ {0} /\ 1..N \subseteq 1..MaxUrbs /\ Queued = low..high
      /\ \A j \in low..high : j \in 1..N /\ urbs[j] = "queued"
  BY PipelineIs DEF Pipeline
<1> DEFINE kills == shape.continuation /\ how # "ok"
           others == IF kills THEN Queued \ {i} ELSE {}
           n == IF kills THEN high - low + 1 ELSE 1
<1>4. /\ i = low /\ low <= high /\ low \in 1..N /\ high \in 1..N
      /\ n \in 1..(high - low + 1) /\ others = (low + 1)..(low + n - 1)
      /\ reapable' = reapable \o [j \in 1..n |-> low + j - 1]
  <2>1. n = LeavingUrbs(low, high, how) /\ others = Killed(i, how)
    BY DEF LeavingUrbs, Killed
  <2>2. EndTaken(i, how, low, high)
    BY EndTakes
  <2> HIDE DEF n, others
  <2> QED
    BY <2>1, <2>2 DEF EndTaken
<1>5. /\ urbs' = [j \in 1..MaxUrbs |-> IF j = i THEN how
                                       ELSE IF j \in others THEN "killed" ELSE urbs[j]]
      /\ reapable' = reapable \o <<i>> \o Ascending(others)
      /\ endpoint' = IF kills THEN "disabled" ELSE IF how = "stall" THEN "halted" ELSE endpoint
  BY DEF End
<1>6. \A j \in low..(low + n - 1) : urbs'[j] \in Ends
  <2> HIDE DEF others, n
  <2>1. \A j \in low..(low + n - 1) : j = i \/ j \in others
    BY <1>4
  <2>2. low..(low + n - 1) \subseteq 1..MaxUrbs
    BY <1>3, <1>4
  <2> QED
    BY <1>5, <2>1, <2>2 DEF Ends
<1>7. \A j \in 1..N : j \notin low..(low + n - 1) => urbs'[j] = urbs[j]
  <2> HIDE DEF others, n
  <2>1. \A j \in 1..N : j \notin low..(low + n - 1) => j # i /\ j \notin others
    BY <1>4
  <2> QED
    BY <1>3, <1>5, <2>1
<1>8. urbs' \in [1..MaxUrbs -> {"none", "queued"} \union Ends]
  BY <1>5 DEF UrbsInv, QueueInv, Ends
<1>9. device' = "gone" \/ endpoint' = "disabled" => n = high - low + 1
  BY <1>1, <1>5
<1>10. \A j \in 1..N : /\ urbs'[j] = "nodev" => device' = "gone"
                       /\ urbs'[j] = "overflow" => j = N
                       /\ urbs'[j] = "stall" => N <= 2 \/ endpoint' = "disabled"
  <2>1. endpoint # "disabled"
    BY <1>1
  <2>2. ASSUME NEW j \in 1..N, j # i, j \notin others
        PROVE  /\ urbs'[j] = "nodev" => device' = "gone"
               /\ urbs'[j] = "overflow" => j = N
               /\ urbs'[j] = "stall" => N <= 2 \/ endpoint' = "disabled"
    <3>1. urbs'[j] = urbs[j]
      BY <1>3, <1>5, <2>2
    <3> QED
      BY <1>1, <2>1, <3>1 DEF UrbsInv, QueueInv
  <2>3. urbs'[i] = how
    BY <1>5
  <2>4. how = "stall" => N <= 2 \/ endpoint' = "disabled"
    <3>1. how = "stall" => N <= 2 \/ kills
      OBVIOUS
    <3>2. kills => endpoint' = "disabled"
      BY <1>5
    <3> QED
      BY <3>1, <3>2
  <2>5. \A j \in 1..N : j # i /\ j \in others => urbs'[j] = "killed"
    BY <1>3, <1>5
  <2> HIDE DEF others
  <2> QED
    BY <2>2, <2>3, <2>4, <2>5
<1> HIDE DEF n, others, kills
<1>11. n \in 0..(high - low + 1)
  BY <1>4
<1> QED
  BY <1>1, <1>2, <1>4, <1>6, <1>7, <1>8, <1>9, <1>10, <1>11, UrbsEnd

LEMMA VanishKeeps ==
  ASSUME UrbsInv, Vanish
  PROVE  UrbsInv'
<1>1. /\ device = "there" /\ device' = "gone"
      /\ urbs' = [j \in 1..MaxUrbs |-> IF j \in Queued THEN "nodev" ELSE urbs[j]]
      /\ reapable' = reapable \o Ascending(Queued)
      /\ UNCHANGED <<threadVars, shape, transferVars, verdict, holding, programVars>>
      /\ UNCHANGED endpoint
  BY DEF Vanish, KernelLeaves
<1>2. N \in Nat \ {0} /\ MaxUrbs \in Nat /\ N <= MaxUrbs
  BY ShapeIs DEF UrbsInv, LifeInv
<1>3. /\ Queued \subseteq 1..N /\ 1..N \subseteq 1..MaxUrbs
      /\ \A j \in 1..N : urbs'[j] = IF j \in Queued THEN "nodev" ELSE urbs[j]
      /\ urbs' \in [1..MaxUrbs -> {"none", "queued"} \union Ends]
  BY <1>1, <1>2 DEF Queued, UrbsInv, QueueInv, Ends
<1>4. CASE allocated
  <2> PICK low \in Nat, high \in Nat : Pipeline(low, high)
    BY <1>4 DEF UrbsInv, CountInv
  <2>1. Queued = low..high /\ low <= high + 1
    BY DEF Pipeline
  <2> DEFINE n == high - low + 1
  <2>2. n \in 0..(high - low + 1) /\ low + n - 1 = high
    BY <2>1
  <2>3. reapable' = reapable \o [j \in 1..n |-> low + j - 1]
    BY <1>1, <2>1, AscendingIs
  <2>4. /\ \A j \in 1..N : j \in low..(low + n - 1) => urbs'[j] \in Ends
        /\ \A j \in 1..N : j \notin low..(low + n - 1) => urbs'[j] = urbs[j]
    BY <1>3, <2>1, <2>2 DEF Ends
  <2>5. \A i \in 1..N : /\ urbs'[i] = "nodev" => device' = "gone"
                        /\ urbs'[i] = "overflow" => i = N
                        /\ urbs'[i] = "stall" => N <= 2 \/ endpoint' = "disabled"
    BY <1>1, <1>3 DEF UrbsInv, QueueInv
  <2>6. n = high - low + 1
    OBVIOUS
  <2> HIDE DEF n
  <2> QED
    BY <1>1, <1>3, <1>4, <2>2, <2>3, <2>4, <2>5, <2>6, UrbsEnd
<1>5. CASE ~allocated
  <2>1. Queued = {} /\ reapable = <<>>
    BY <1>5 DEF UrbsInv, UrbsOwned
  <2>2. Ascending({}) = <<>>
    <3>1. Ascending(1..0) = [n \in 1..(0 - 1 + 1) |-> 1 + n - 1]
      <4>1. 1 \in Nat /\ 0 \in Nat /\ 1 <= 0 + 1
        OBVIOUS
      <4>2. \A low, high \in Nat : low <= high + 1 =>
              Ascending(low..high) = [n \in 1..(high - low + 1) |-> low + n - 1]
        BY AscendingIs
      <4> QED
        BY <4>1, <4>2, Zenon
    <3>2. 1..0 = {} /\ 1..(0 - 1 + 1) = {}
      OBVIOUS
    <3> QED
      BY <3>1, <3>2
  <2>3. reapable' = <<>>
    BY <1>1, <2>1, <2>2
  <2>4. urbs' = urbs
    BY <1>1, <2>1 DEF UrbsInv, QueueInv
  <2>5. UNCHANGED <<at, xlock, cursor, last, shape, allocated, action, retired, holding, life>>
    BY <1>1 DEF threadVars, transferVars, programVars
  <2>6. LockInv' /\ LifeInv' /\ LoopInv' /\ CountInv' /\ UrbsOwned'
    BY <1>5, <2>1, <2>3, <2>4, <2>5
    DEF UrbsInv, LockInv, LifeInv, LoopInv, CountInv, UrbsOwned, Queued, N
  <2>7. QueueInv'
    BY <1>1, <2>1, <2>3, <2>4, <2>5 DEF UrbsInv, QueueInv, Queued, N
  <2> QED
    BY <2>5, <2>6, <2>7 DEF UrbsInv
<1> QED
  BY <1>4, <1>5

LEMMA KernelKeeps ==
  ASSUME UrbsInv, KernelSteps, "lone_stall" \notin UrbFaults
  PROVE  UrbsInv'
<1>1. ASSUME NEW i \in 1..MaxUrbs, TransferUnit(i) PROVE UrbsInv'
  BY <1>1, UrbsKept DEF TransferUnit, KernelLeaves, threadVars, transferVars, queueVars, programVars
<1>2. ASSUME NEW i \in 1..MaxUrbs, CompleteUrb(i) PROVE UrbsInv'
  BY <1>2, EndKeeps DEF CompleteUrb, Ends
<1>3. ASSUME NEW i \in 1..MaxUrbs, ShortUrb(i) PROVE UrbsInv'
  BY <1>3, EndKeeps DEF ShortUrb, Ends
<1>4. ASSUME NEW i \in 1..MaxUrbs, FailUrb(i) PROVE UrbsInv'
  <2>1. \/ End(i, "error")
        \/ (shape.continuation \/ N <= 2) /\ End(i, "stall")
        \/ i = N /\ End(i, "overflow")
    BY <1>4 DEF FailUrb
  <2> QED
    BY <2>1, EndKeeps DEF Ends
<1> QED
  BY <1>1, <1>2, <1>3, <1>4, VanishKeeps DEF KernelSteps

-----------------------------------------------------------------------------
(* Submission.                                                             *)
LEMMA SubmitKeeps ==
  ASSUME UrbsInv, NEW s \in Shapes, NEW by \in {"none", "waiting"}, Submit(s, by)
  PROVE  UrbsInv'
<1>1. /\ at["user"] = "idle" /\ life = "idle" /\ xlock = "none"
      /\ shape' = s /\ life' = "submitting" /\ xlock' = "user"
      /\ at' = [at EXCEPT !["user"] = "submit"] /\ cursor' = 1 /\ last' = s.urbs
      /\ allocated' = TRUE /\ action' = "NORMAL" /\ retired' = 0
      /\ urbs' = [i \in 1..MaxUrbs |-> "none"] /\ endpoint' = "running"
      /\ UNCHANGED <<reapable, holding, device>>
  BY DEF Submit, Goto
<1>2. at["handler"] = "idle" /\ ~allocated
  BY <1>1 DEF UrbsInv, LifeInv, LockInv, UrbsOwned, UrbThreads
<1>3. reapable = <<>> /\ holding = 0
  BY <1>2 DEF UrbsInv, UrbsOwned
<1>4. N' = s.urbs
  BY <1>1 DEF N
<1>5. N' \in Nat \ {0} /\ MaxUrbs \in Nat /\ N' <= MaxUrbs
  <2>1. shape \in Shapes
    BY DEF UrbsInv, LifeInv
  <2> QED
    BY <1>4, <2>1, ShapeIs
<1>6. at' \in [UrbThreads -> {"idle", "submit", "discard", "reaped", "report", "wait", "rewait"}]
      /\ at'["user"] = "submit" /\ at'["handler"] = "idle"
  BY <1>1, <1>2 DEF UrbsInv, LockInv, UrbThreads
<1>7. Queued' = {}
  BY <1>1, <1>5 DEF Queued
<1>8. LockInv' /\ LifeInv' /\ LoopInv'
  BY <1>1, <1>3, <1>4, <1>5, <1>6 DEF LockInv, LifeInv, LoopInv, UrbThreads
<1>9. QueueInv'
  BY <1>1, <1>3, <1>5, <1>7 DEF QueueInv
<1>10. Pipeline(1, 0)'
  BY <1>1, <1>3, <1>4, <1>5, <1>6, <1>7 DEF Pipeline, Held, Unsubmitted
<1>11. CountInv' /\ UrbsOwned' /\ retired' \in Nat /\ action' \in Actions
  BY <1>1, <1>10 DEF CountInv, UrbsOwned, Actions
<1> QED
  BY <1>8, <1>9, <1>11 DEF UrbsInv

(* While URBs are being submitted those before the cursor are with the     *)
(* kernel, or behind it.                                                   *)
LEMMA Submitting ==
  ASSUME UrbsInv, at["user"] = "submit"
  PROVE  /\ life = "submitting" /\ allocated /\ xlock = "user"
         /\ at["handler"] \in {"idle", "reaped"}
         /\ N \in Nat \ {0} /\ 1..N \subseteq 1..MaxUrbs /\ cursor \in 1..N /\ last = N
         /\ action = "NORMAL" /\ retired = 0
         /\ Len(reapable) \in Nat /\ Held \in {0, 1} /\ Held + Len(reapable) < cursor
         /\ \E low, high \in Nat : /\ low = Held + Len(reapable) + 1 /\ high = cursor - 1
                                   /\ Pipeline(low, high)
<1>1. life = "submitting" /\ allocated /\ xlock = "user" /\ at["handler"] \in {"idle", "reaped"}
  BY DEF UrbsInv, LockInv, LifeInv, UrbThreads
<1>2. action = "NORMAL" /\ retired = 0 /\ cursor \in 1..N /\ last = N
  BY DEF UrbsInv, LoopInv
<1> PICK low \in Nat, high \in Nat : Pipeline(low, high)
  BY <1>1 DEF UrbsInv, CountInv
<1>3. /\ N \in Nat \ {0} /\ 1..N \subseteq 1..MaxUrbs
      /\ Len(reapable) \in Nat /\ Held \in {0, 1} /\ low <= high + 1
  BY PipelineIs
<1>4. /\ retired + Held + Len(reapable) + (high - low + 1) + (N - cursor + 1) = N
      /\ low = retired + Held + Len(reapable) + 1
  BY <1>2 DEF Pipeline, Unsubmitted
<1>5. low = Held + Len(reapable) + 1 /\ high = cursor - 1
  BY <1>2, <1>3, <1>4
<1> QED
  BY <1>1, <1>2, <1>3, <1>5

LEMMA AcceptKeeps ==
  ASSUME UrbsInv, AcceptUrb
  PROVE  UrbsInv'
<1>1. /\ at["user"] = "submit" /\ device = "there" /\ endpoint # "disabled"
      /\ urbs' = [urbs EXCEPT ![cursor] = "queued"]
      /\ IF cursor = last
         THEN /\ xlock' = "none" /\ life' = "flying" /\ cursor' = cursor /\ last' = last
              /\ \E w \in {"idle", "wait", "rewait"} : at' = [at EXCEPT !["user"] = w]
         ELSE cursor' = cursor + 1 /\ UNCHANGED <<at, xlock, last, life>>
      /\ UNCHANGED <<shape, allocated, action, retired, reapable, endpoint, holding, device>>
  BY DEF AcceptUrb, Leave, Goto, transferVars
<1>2. /\ life = "submitting" /\ allocated /\ xlock = "user"
      /\ at["handler"] \in {"idle", "reaped"}
      /\ N \in Nat \ {0} /\ 1..N \subseteq 1..MaxUrbs /\ cursor \in 1..N /\ last = N
      /\ action = "NORMAL" /\ retired = 0
      /\ Len(reapable) \in Nat /\ Held \in {0, 1} /\ Held + Len(reapable) < cursor
  BY <1>1, Submitting
<1> PICK low \in Nat, high \in Nat : /\ low = Held + Len(reapable) + 1 /\ high = cursor - 1
                                     /\ Pipeline(low, high)
  BY <1>1, Submitting
<1>3. /\ Queued = low..high /\ low \in Nat /\ low <= cursor
      /\ Held + Len(reapable) + (high - low + 1) + Unsubmitted = N
      /\ holding # 0 => holding = 1
      /\ \A j \in 1..Len(reapable) : reapable[j] = Held + j
  BY <1>2 DEF Pipeline
<1>4. N' = N /\ Held' = Held
  BY <1>1 DEF N, Held
<1>5. /\ urbs' \in [1..MaxUrbs -> {"none", "queued"} \union Ends]
      /\ urbs'[cursor] = "queued"
      /\ \A j \in 1..N : j # cursor => urbs'[j] = urbs[j]
  BY <1>1, <1>2 DEF UrbsInv, QueueInv
<1>6. Queued' = low..(high + 1)
  <2>1. Queued' = Queued \union {cursor}
    BY <1>1, <1>2, <1>4, <1>5 DEF Queued
  <2> QED
    BY <1>2, <1>3, <2>1
<1>7. /\ at' \in [UrbThreads -> {"idle", "submit", "discard", "reaped", "report", "wait", "rewait"}]
      /\ at'["handler"] = at["handler"]
      /\ at'["user"] \in {"idle", "submit", "wait", "rewait"}
      /\ at'["user"] = "submit" <=> cursor # last
  BY <1>1 DEF UrbsInv, LockInv, UrbThreads
<1>8. LockInv'
  BY <1>1, <1>2, <1>7 DEF LockInv, UrbThreads
<1>9. LifeInv'
  <2>1. holding # 0 <=> at["handler"] = "reaped"
    BY DEF UrbsInv, LifeInv
  <2> QED
    BY <1>1, <1>2, <1>7, <2>1 DEF UrbsInv, LifeInv, UrbThreads
<1>10. LoopInv'
  BY <1>1, <1>2, <1>4, <1>7 DEF LoopInv, UrbThreads
<1>11. QueueInv'
  <2>1. holding' # 0 => urbs'[holding'] \in Ends
    <3>1. holding # 0 => holding \in 1..N /\ holding # cursor /\ urbs[holding] \in Ends
      BY <1>2, <1>3 DEF UrbsInv, QueueInv, Held
    <3> QED
      BY <1>1, <1>5, <3>1
  <2>2. \A j \in 1..Len(reapable') : urbs'[reapable'[j]] \in Ends
    <3>1. \A j \in 1..Len(reapable) : reapable[j] \in 1..N /\ reapable[j] # cursor
      BY <1>2, <1>3
    <3>2. \A j \in 1..Len(reapable) : urbs[reapable[j]] \in Ends
      BY DEF UrbsInv, QueueInv
    <3> QED
      BY <1>1, <1>5, <3>1, <3>2
  <2>3. \A i \in 1..N : /\ urbs'[i] = "nodev" => device' = "gone"
                        /\ urbs'[i] = "overflow" => i = N
                        /\ urbs'[i] = "stall" => N <= 2 \/ endpoint' = "disabled"
    BY <1>1, <1>5 DEF UrbsInv, QueueInv
  <2>4. holding' \in 0..N' /\ reapable' \in Seq(1..N')
    BY <1>1, <1>4 DEF UrbsInv, QueueInv
  <2> QED
    BY <1>1, <1>4, <1>5, <2>1, <2>2, <2>3, <2>4 DEF QueueInv
<1>12. Pipeline(low, high + 1)'
  <2>1. Unsubmitted = N - cursor + 1 /\ Unsubmitted' = N - cursor
    BY <1>1, <1>2, <1>4, <1>7 DEF Unsubmitted
  <2>2. low <= cursor + 1 /\ Held + Len(reapable) + (cursor - low + 1) + (N - cursor) = N
    BY <1>2, <1>3, <2>1
  <2> QED
    BY <1>1, <1>2, <1>3, <1>4, <1>6, <2>1, <2>2 DEF Pipeline
<1>13. CountInv' /\ UrbsOwned' /\ retired' \in Nat /\ action' \in Actions
  BY <1>1, <1>2, <1>3, <1>12 DEF CountInv, UrbsOwned, Actions
<1> QED
  BY <1>8, <1>9, <1>10, <1>11, <1>13 DEF UrbsInv

LEMMA RefuseKeeps ==
  ASSUME UrbsInv, RefuseFirst \/ RefuseNeedless \/ RefuseLater
  PROVE  UrbsInv'
<1>1. at["user"] = "submit" /\ UNCHANGED <<shape, urbs, reapable, endpoint, holding, device>>
  BY DEF RefuseFirst, RefuseNeedless, RefuseLater, queueVars
<1>2. /\ life = "submitting" /\ allocated /\ xlock = "user"
      /\ at["handler"] \in {"idle", "reaped"}
      /\ N \in Nat \ {0} /\ 1..N \subseteq 1..MaxUrbs /\ cursor \in 1..N /\ last = N
      /\ action = "NORMAL" /\ retired = 0
      /\ Len(reapable) \in Nat /\ Held \in {0, 1} /\ Held + Len(reapable) < cursor
  BY <1>1, Submitting
<1> PICK low \in Nat, high \in Nat : /\ low = Held + Len(reapable) + 1 /\ high = cursor - 1
                                     /\ Pipeline(low, high)
  BY <1>1, Submitting
<1>3. /\ Queued = low..high /\ low \in Nat /\ low <= cursor
      /\ Held + Len(reapable) + (high - low + 1) + (N - cursor + 1) = N
  BY <1>1, <1>2 DEF Pipeline, Unsubmitted
<1>4. N' = N /\ Held' = Held /\ Queued' = Queued
  BY <1>1 DEF N, Held, Queued
<1>5. QueueInv'
  BY <1>1, <1>4 DEF UrbsInv, QueueInv
<1>6. holding # 0 <=> at["handler"] = "reaped"
  BY DEF UrbsInv, LifeInv
<1>7. CASE RefuseFirst
  <2>1. /\ cursor = 1 /\ allocated' = FALSE /\ xlock' = "none" /\ life' = "idle"
        /\ at' = [at EXCEPT !["user"] = "idle"]
        /\ UNCHANGED <<cursor, last, action, retired>>
    BY <1>7 DEF RefuseFirst, Goto
  <2>2. low = 1 /\ Held = 0 /\ Len(reapable) = 0 /\ Queued = {}
    BY <1>2, <1>3, <2>1
  <2>3. holding = 0 /\ reapable = <<>>
    BY <2>2, EmptySeq DEF Held, UrbsInv, QueueInv
  <2>4. /\ at' \in [UrbThreads -> {"idle", "submit", "discard", "reaped", "report", "wait", "rewait"}]
        /\ at'["handler"] = "idle" /\ at'["user"] = "idle"
    BY <1>2, <1>6, <2>1, <2>3 DEF UrbsInv, LockInv, UrbThreads
  <2>5. LockInv' /\ LifeInv' /\ LoopInv' /\ CountInv' /\ UrbsOwned'
    BY <1>1, <1>4, <2>1, <2>2, <2>3, <2>4
    DEF UrbsInv, LockInv, LifeInv, LoopInv, CountInv, UrbsOwned, UrbThreads
  <2>6. retired' \in Nat /\ action' \in Actions
    BY <1>2, <2>1 DEF UrbsInv
  <2> QED
    BY <1>5, <2>5, <2>6 DEF UrbsInv
<1>8. CASE RefuseNeedless \/ RefuseLater
  <2>1. /\ allocated' = allocated /\ life' = "flying" /\ retired' = retired + (N - cursor + 1)
        /\ action' \in Actions \ {"NORMAL"}
        /\ \/ /\ xlock' = "none" /\ cursor' = cursor /\ last' = last
              /\ \E w \in {"idle", "wait", "rewait"} : at' = [at EXCEPT !["user"] = w]
           \/ /\ xlock' = "user" /\ at' = [at EXCEPT !["user"] = "discard"]
              /\ cursor > 1 /\ cursor' = cursor - 1 /\ last' = 1
    BY <1>8 DEF RefuseNeedless, RefuseLater, RetireUnsubmitted, Leave, DiscardUrbs, Goto, Actions
  <2>2. /\ at' \in [UrbThreads -> {"idle", "submit", "discard", "reaped", "report", "wait", "rewait"}]
        /\ at'["handler"] = at["handler"]
        /\ at'["user"] \in {"idle", "wait", "rewait", "discard"}
        /\ at'["user"] = "discard" <=> xlock' = "user"
        /\ xlock' \in {"user", "none"}
        /\ at'["user"] = "discard" => cursor > 1 /\ cursor' = cursor - 1 /\ last' = 1
    BY <2>1 DEF UrbsInv, LockInv, UrbThreads
  <2>3. LockInv'
    BY <1>2, <2>2 DEF LockInv, UrbThreads
  <2>4. LifeInv'
    BY <1>1, <1>2, <1>6, <2>1, <2>2 DEF UrbsInv, LifeInv, UrbThreads
  <2>5. LoopInv'
    BY <1>2, <1>3, <1>4, <2>1, <2>2 DEF LoopInv, UrbThreads
  <2>6. Pipeline(low, high)'
    <3>1. Unsubmitted' = 0
      BY <2>2 DEF Unsubmitted
    <3>2. /\ low <= high + 1
          /\ (retired + (N - cursor + 1)) + Held + Len(reapable) + (high - low + 1) + 0 = N
      BY <1>2, <1>3
    <3>3. action' # "NORMAL"
      BY <2>1
    <3>4. Queued' = low..high
      BY <1>3, <1>4
    <3> QED
      BY <1>1, <1>4, <2>1, <3>1, <3>2, <3>3, <3>4 DEF Pipeline
  <2>7. CountInv' /\ UrbsOwned' /\ retired' \in Nat /\ action' \in Actions
    <3>1. retired' \in Nat
      BY <1>2, <2>1
    <3> QED
      BY <1>2, <2>1, <2>6, <3>1 DEF CountInv, UrbsOwned
  <2> QED
    BY <1>5, <2>3, <2>4, <2>5, <2>7 DEF UrbsInv
<1> QED
  BY <1>7, <1>8

-----------------------------------------------------------------------------
(* Cancellation and the loops that discard URBs.                           *)

(* A loop over all URBs begins, or there are none and the transfer is only *)
(* marked.                                                                 *)
LEMMA CancelKeeps ==
  ASSUME UrbsInv, NEW t \in UrbThreads,
         life = "flying", xlock = "none",
         at[t] = IF t = "user" THEN at[t] ELSE "idle", action' \in Actions \ {"NORMAL"},
         UNCHANGED <<shape, allocated, retired, queueVars, holding, device, life>>,
         \/ /\ allocated /\ xlock' = t /\ at' = [at EXCEPT ![t] = "discard"]
            /\ cursor' = N /\ last' = 1
         \/ /\ ~allocated /\ UNCHANGED <<xlock, cursor, last>>
            /\ \/ at' = at
               \/ t = "user" /\ at' = [at EXCEPT ![t] = "rewait"]
  PROVE  UrbsInv'
<1>1. /\ at["user"] \in {"idle", "wait", "rewait"} /\ at["handler"] \in {"idle", "reaped", "report"}
      /\ N \in Nat \ {0} /\ Queued \subseteq 1..N
  BY ShapeIs DEF UrbsInv, LifeInv, LockInv, UrbThreads, Queued
<1>2. /\ UNCHANGED <<shape, allocated, retired, urbs, reapable, endpoint, holding, device, life>>
      /\ N' = N /\ Held' = Held /\ Queued' = Queued
  BY DEF queueVars, N, Held, Queued
<1>3. /\ at' \in [UrbThreads -> {"idle", "submit", "discard", "reaped", "report", "wait", "rewait"}]
      /\ at'["user"] \in {"idle", "wait", "rewait", "discard"}
      /\ t = "user" => at'["handler"] = at["handler"]
      /\ t = "handler" => at'["user"] = at["user"]
      /\ allocated => at'[t] = "discard"
      /\ ~allocated => at'["handler"] = at["handler"]
      /\ ~allocated => at'["user"] \in {at["user"], "rewait"}
  BY <1>1 DEF UrbsInv, LockInv, UrbThreads
<1>4. LockInv'
  BY <1>1, <1>3 DEF LockInv, UrbThreads
<1>5. LifeInv'
  <2>1. holding # 0 <=> at["handler"] = "reaped"
    BY DEF UrbsInv, LifeInv
  <2>2. allocated <=> at["handler"] # "report"
    BY DEF UrbsInv, LifeInv
  <2>3. CASE allocated
    BY <1>1, <1>2, <1>3, <2>1, <2>2, <2>3 DEF UrbsInv, LifeInv, UrbThreads
  <2>4. CASE ~allocated
    BY <1>1, <1>2, <1>3, <2>1, <2>2, <2>4 DEF UrbsInv, LifeInv, UrbThreads
  <2> QED
    BY <2>3, <2>4
<1>6. LoopInv'
  BY <1>1, <1>2, <1>3 DEF LoopInv, UrbThreads
<1>7. QueueInv'
  BY <1>2 DEF UrbsInv, QueueInv
<1>8. CountInv'
  <2>1. Unsubmitted = 0 /\ Unsubmitted' = 0
    BY <1>1, <1>3 DEF Unsubmitted
  <2>2. ASSUME NEW low \in Nat, NEW high \in Nat, Pipeline(low, high) PROVE Pipeline(low, high)'
    BY <1>2, <2>1, <2>2 DEF Pipeline
  <2> QED
    BY <1>2, <2>2 DEF UrbsInv, CountInv
<1> QED
  BY <1>2, <1>4, <1>5, <1>6, <1>7, <1>8 DEF UrbsInv, UrbsOwned

LEMMA DiscardKeeps ==
  ASSUME UrbsInv, NEW t \in UrbThreads, DiscardUrb(t)
  PROVE  UrbsInv'
<1>1. /\ at[t] = "discard"
      /\ IF urbs[cursor] = "queued"
         THEN /\ urbs' = [urbs EXCEPT ![cursor] = "killed"]
              /\ reapable' = Append(reapable, cursor)
         ELSE UNCHANGED <<urbs, reapable>>
      /\ IF cursor = last
         THEN /\ xlock' = "none" /\ UNCHANGED <<cursor, last>>
              /\ \E w \in {"idle", "wait", "rewait"} :
                   (t = "handler" => w = "idle") /\ at' = [at EXCEPT ![t] = w]
         ELSE /\ cursor' = IF last < cursor THEN cursor - 1 ELSE cursor + 1
              /\ UNCHANGED <<at, xlock, last>>
      /\ UNCHANGED <<shape, allocated, action, retired, endpoint, holding, device, life>>
  BY DEF DiscardUrb, Leave, Goto, transferVars, programVars
<1>2. /\ life = "flying" /\ allocated /\ xlock = t
      /\ at["user"] = "discard" <=> t = "user"
      /\ at["handler"] = "discard" <=> t = "handler"
      /\ at["user"] # "submit" /\ at["handler"] # "report"
      /\ t \in {"user", "handler"}
  BY <1>1 DEF UrbsInv, LifeInv, LockInv, UrbThreads
<1>3. /\ last \in 1..N /\ cursor \in last..N
      /\ \A i \in Queued : i <= cursor
      /\ action = "NORMAL" => Queued \subseteq {N}
      /\ t = "user" => action # "NORMAL"
  BY <1>1 DEF UrbsInv, LoopInv
<1> PICK low \in Nat, high \in Nat : Pipeline(low, high)
  BY <1>2 DEF UrbsInv, CountInv
<1>4. /\ N \in Nat \ {0} /\ 1..N \subseteq 1..MaxUrbs /\ Len(reapable) \in Nat
      /\ Held \in {0, 1} /\ retired \in Nat
      /\ low <= high => low \in 1..N /\ high \in 1..N
      /\ low <= high + 1
  BY PipelineIs
<1>5. /\ Queued = low..high /\ Unsubmitted = 0
      /\ retired + Held + Len(reapable) + (high - low + 1) = N
  BY <1>2, <1>4 DEF Pipeline, Unsubmitted
<1>6. N' = N /\ Held' = Held
  BY <1>1 DEF N, Held
<1>7. /\ at' \in [UrbThreads -> {"idle", "submit", "discard", "reaped", "report", "wait", "rewait"}]
      /\ \A u \in UrbThreads : u # t => at'[u] = at[u]
      /\ cursor = last => at'[t] \in {"idle", "wait", "rewait"}
      /\ cursor = last /\ t = "handler" => at'[t] = "idle"
      /\ cursor # last => at'[t] = "discard"
      /\ at'["user"] # "submit"
  BY <1>1, <1>2 DEF UrbsInv, LockInv, UrbThreads
<1>8. LockInv'
  BY <1>1, <1>2, <1>7 DEF UrbsInv, LockInv, UrbThreads
<1>9. LifeInv'
  <2>1. /\ holding # 0 <=> at["handler"] = "reaped"
        /\ shape \in Shapes
    BY DEF UrbsInv, LifeInv
  <2>2. at'["handler"] = "reaped" <=> at["handler"] = "reaped"
    BY <1>2, <1>7 DEF UrbThreads
  <2>3. at'["handler"] # "report"
    BY <1>2, <1>7 DEF UrbThreads
  <2> QED
    BY <1>1, <1>2, <1>7, <2>1, <2>2, <2>3 DEF LifeInv, UrbThreads
<1>10. Unsubmitted' = 0
  BY <1>7 DEF Unsubmitted
<1>11. ASSUME Queued' \subseteq Queued, \A i \in Queued' : i # cursor PROVE LoopInv'
  <2>1. ASSUME NEW u \in UrbThreads, at'[u] = "discard"
        PROVE  /\ u = t /\ cursor' = cursor - 1 /\ last' = last /\ last < cursor
               /\ action' = action
    BY <1>1, <1>2, <1>3, <1>4, <1>7, <2>1 DEF UrbThreads
  <2>2. \A i \in Queued' : i \in Nat /\ i <= cursor - 1
    BY <1>3, <1>4, <1>5, <1>11
  <2>3. at'["user"] = "discard" => action' # "NORMAL"
    BY <1>3, <2>1 DEF UrbThreads
  <2> QED
    BY <1>3, <1>4, <1>6, <1>7, <1>11, <2>1, <2>2, <2>3 DEF LoopInv
<1>12. CASE urbs[cursor] = "queued"
  <2>1. cursor = high /\ low <= high
    <3>1. cursor \in Queued
      BY <1>3, <1>4, <1>12 DEF Queued
    <3>2. high \in Queued
      BY <1>5, <3>1
    <3> QED
      BY <1>3, <1>4, <1>5, <3>1, <3>2
  <2>2. /\ urbs' = [urbs EXCEPT ![cursor] = "killed"]
        /\ reapable' = Append(reapable, cursor)
    BY <1>1, <1>12
  <2>3. /\ urbs' \in [1..MaxUrbs -> {"none", "queued"} \union Ends]
        /\ urbs'[cursor] = "killed"
        /\ \A j \in 1..N : j # cursor => urbs'[j] = urbs[j]
    BY <1>3, <1>4, <2>2 DEF UrbsInv, QueueInv, Ends
  <2>4. Queued' = low..(high - 1)
    <3>1. Queued' = Queued \ {cursor}
      BY <1>6, <2>3 DEF Queued
    <3> QED
      BY <1>5, <2>1, <3>1
  <2>5. reapable \in Seq(1..N) /\ cursor \in 1..N
    BY <1>3, <1>4 DEF UrbsInv, QueueInv
  <2>6. /\ reapable' \in Seq(1..N) /\ Len(reapable') = Len(reapable) + 1
        /\ reapable'[Len(reapable) + 1] = cursor
        /\ \A j \in 1..Len(reapable) : reapable'[j] = reapable[j]
    BY <2>2, <2>5
  <2>7. QueueInv'
    <3>1. holding' # 0 => urbs'[holding'] \in Ends
      BY <1>1, <2>3 DEF UrbsInv, QueueInv, Ends
    <3>2. ASSUME NEW j \in 1..Len(reapable') PROVE urbs'[reapable'[j]] \in Ends
      <4>1. CASE j = Len(reapable) + 1
        BY <2>3, <2>6, <4>1 DEF Ends
      <4>2. CASE j # Len(reapable) + 1
        <5>1. j \in 1..Len(reapable)
          BY <1>4, <2>6, <4>2
        <5>2. reapable[j] \in 1..N
          BY <2>5, <5>1, ElementOfSeq
        <5>3. urbs[reapable[j]] \in Ends
          BY <5>1 DEF UrbsInv, QueueInv
        <5> QED
          BY <2>3, <2>6, <5>1, <5>2, <5>3 DEF Ends
      <4> QED
        BY <4>1, <4>2
    <3>3. device' = "gone" \/ endpoint' = "disabled" => Queued' = {}
      <4>1. device = "gone" \/ endpoint = "disabled" => Queued = {}
        BY DEF UrbsInv, QueueInv
      <4> QED
        BY <1>1, <1>5, <2>4, <4>1
    <3>4. \A i \in 1..N : /\ urbs'[i] = "nodev" => device' = "gone"
                          /\ urbs'[i] = "overflow" => i = N
                          /\ urbs'[i] = "stall" => N <= 2 \/ endpoint' = "disabled"
      BY <1>1, <2>3 DEF UrbsInv, QueueInv
    <3>5. holding' \in 0..N
      BY <1>1 DEF UrbsInv, QueueInv
    <3> QED
      BY <1>6, <2>3, <2>6, <3>1, <3>2, <3>3, <3>4, <3>5 DEF QueueInv
  <2>8. action # "NORMAL" => Pipeline(low, high - 1)'
    <3>1. /\ low <= (high - 1) + 1
          /\ retired + Held + (Len(reapable) + 1) + ((high - 1) - low + 1) + 0 = N
      BY <1>4, <1>5, <2>1
    <3> QED
      BY <1>1, <1>6, <1>10, <2>4, <2>6, <3>1 DEF Pipeline
  <2>9. action = "NORMAL" => Pipeline(low + 1, high)'
    <3> SUFFICES ASSUME action = "NORMAL"
                 PROVE  Pipeline(low + 1, high)'
      OBVIOUS
    <3>1. low = high
      <4>1. low \in Queued /\ high \in Queued /\ Queued \subseteq {N}
        BY <1>3, <1>5, <2>1
      <4> QED
        BY <4>1
    <3>2. /\ low + 1 <= high + 1 /\ Queued' = (low + 1)..high
          /\ retired + Held + (Len(reapable) + 1) + (high - (low + 1) + 1) + 0 = N
      BY <1>4, <1>5, <2>1, <2>4, <3>1
    <3>3. /\ low = retired + Held + Len(reapable) + 1
          /\ holding # 0 => holding = retired + 1
          /\ \A j \in 1..Len(reapable) : reapable[j] = retired + Held + j
      BY DEF Pipeline
    <3>4. /\ low + 1 = retired + Held + (Len(reapable) + 1) + 1
          /\ \A j \in 1..(Len(reapable) + 1) : reapable'[j] = retired + Held + j
      BY <1>4, <2>1, <2>6, <3>1, <3>3
    <3> QED
      BY <1>1, <1>6, <1>10, <2>6, <3>2, <3>3, <3>4 DEF Pipeline
  <2>11. CountInv' /\ UrbsOwned'
    <3>1. low + 1 \in Nat /\ high - 1 \in Nat
      BY <1>4, <2>1
    <3> QED
      BY <1>1, <1>2, <2>8, <2>9, <3>1 DEF CountInv, UrbsOwned
  <2>10. LoopInv'
    BY <1>5, <1>11, <2>1, <2>4
  <2> QED
    BY <1>1, <1>8, <1>9, <2>7, <2>10, <2>11 DEF UrbsInv
<1>13. CASE urbs[cursor] # "queued"
  <2>1. UNCHANGED <<urbs, reapable>>
    BY <1>1, <1>13
  <2>2. Queued' = Queued /\ \A i \in Queued : i # cursor
    BY <1>6, <1>13, <2>1 DEF Queued
  <2>3. QueueInv'
    BY <1>1, <1>6, <2>1, <2>2 DEF UrbsInv, QueueInv
  <2>4. Pipeline(low, high)'
    BY <1>1, <1>5, <1>6, <1>10, <2>1, <2>2 DEF Pipeline
  <2>5. CountInv' /\ UrbsOwned'
    BY <1>1, <1>2, <2>4 DEF CountInv, UrbsOwned
  <2> QED
    BY <1>1, <1>8, <1>9, <1>11, <2>2, <2>3, <2>5 DEF UrbsInv
<1> QED
  BY <1>12, <1>13

-----------------------------------------------------------------------------
(* The handler.                                                            *)
LEMMA ReapKeeps ==
  ASSUME UrbsInv, Reap
  PROVE  UrbsInv'
<1>1. /\ at["handler"] = "idle" /\ reapable # <<>>
      /\ holding' = Head(reapable) /\ reapable' = Tail(reapable)
      /\ at' = [at EXCEPT !["handler"] = "reaped"]
      /\ UNCHANGED <<xlock, cursor, last, shape, allocated, action, retired, urbs, endpoint,
                     device, life>>
  BY DEF Reap, Goto, transferVars, programVars
<1>2. allocated /\ holding = 0
  BY <1>1 DEF UrbsInv, UrbsOwned, LifeInv
<1> PICK low \in Nat, high \in Nat : Pipeline(low, high)
  BY <1>2 DEF UrbsInv, CountInv
<1>3. /\ N \in Nat \ {0} /\ retired \in Nat /\ reapable \in Seq(1..N) /\ Held = 0
      /\ \A j \in 1..Len(reapable) : urbs[reapable[j]] \in Ends
  BY <1>2, PipelineIs DEF UrbsInv, QueueInv, Held
<1>4. /\ Len(reapable) \in Nat \ {0} /\ Len(reapable') = Len(reapable) - 1
      /\ reapable' \in Seq(1..N) /\ holding' = reapable[1]
      /\ \A j \in 1..Len(reapable') : reapable'[j] = reapable[j + 1]
  BY <1>1, <1>3
<1>5. holding' \in 1..N
  BY <1>3, <1>4, ElementOfSeq
<1>6. N' = N /\ Queued' = Queued /\ Held' = 1 /\ Unsubmitted' = Unsubmitted
  <2>1. at'["user"] = at["user"]
    BY <1>1 DEF UrbsInv, LockInv, UrbThreads
  <2> QED
    BY <1>1, <1>5, <2>1 DEF N, Queued, Held, Unsubmitted
<1>7. /\ at' \in [UrbThreads -> {"idle", "submit", "discard", "reaped", "report", "wait", "rewait"}]
      /\ at'["handler"] = "reaped" /\ at'["user"] = at["user"]
  BY <1>1 DEF UrbsInv, LockInv, UrbThreads
<1>8. LockInv' /\ LoopInv'
  BY <1>1, <1>6, <1>7 DEF UrbsInv, LockInv, LoopInv, UrbThreads
<1>9. LifeInv'
  BY <1>1, <1>5, <1>7 DEF UrbsInv, LifeInv, UrbThreads
<1>10. QueueInv'
  <2>1. \A j \in 1..Len(reapable') : j + 1 \in 1..Len(reapable)
    BY <1>4
  <2>2. urbs'[holding'] \in Ends /\ \A j \in 1..Len(reapable') : urbs'[reapable'[j]] \in Ends
    BY <1>1, <1>3, <1>4, <2>1
  <2>3. /\ urbs' \in [1..MaxUrbs -> {"none", "queued"} \union Ends]
        /\ device' = "gone" \/ endpoint' = "disabled" => Queued' = {}
        /\ \A i \in 1..N' : /\ urbs'[i] = "nodev" => device' = "gone"
                            /\ urbs'[i] = "overflow" => i = N'
                            /\ urbs'[i] = "stall" => N' <= 2 \/ endpoint' = "disabled"
    BY <1>1, <1>6 DEF UrbsInv, QueueInv
  <2>4. holding' \in 0..N' /\ reapable' \in Seq(1..N')
    BY <1>3, <1>4, <1>5, <1>6
  <2> QED
    BY <2>2, <2>3, <2>4 DEF QueueInv
<1>11. Pipeline(low, high)'
  <2>1. /\ Queued = low..high /\ low <= high + 1
        /\ retired + 0 + Len(reapable) + (high - low + 1) + Unsubmitted = N
    BY <1>3 DEF Pipeline
  <2>2. retired + 1 + (Len(reapable) - 1) + (high - low + 1) + Unsubmitted = N
    <3> DEFINE l == Len(reapable)
               u == Unsubmitted
    <3>1. retired \in Nat /\ l \in Nat /\ u \in Nat /\ N \in Nat
          /\ retired + 0 + l + (high - low + 1) + u = N
      BY <1>3, <1>4, <2>1, PipelineIs
    <3> HIDE DEF l, u
    <3>2. retired + 1 + (l - 1) + (high - low + 1) + u = N
      BY <3>1
    <3> QED
      BY <3>2 DEF l, u
  <2>3. ASSUME action = "NORMAL"
        PROVE  /\ low = retired + 1 + (Len(reapable) - 1) + 1
               /\ holding' = retired + 1
               /\ \A j \in 1..(Len(reapable) - 1) : reapable'[j] = retired + 1 + j
    <3>1. /\ low = retired + 0 + Len(reapable) + 1
          /\ \A j \in 1..Len(reapable) : reapable[j] = retired + 0 + j
      BY <1>3, <2>3 DEF Pipeline
    <3> DEFINE l == Len(reapable)
    <3>2. /\ l \in Nat \ {0} /\ low = retired + 0 + l + 1
          /\ \A j \in 1..(l - 1) : reapable'[j] = reapable[j + 1]
          /\ \A j \in 1..l : reapable[j] = retired + 0 + j
      BY <1>4, <3>1
    <3> HIDE DEF l
    <3>3. \A j \in 1..(l - 1) : j + 1 \in 1..l
      BY <3>2
    <3>4. /\ low = retired + 1 + (l - 1) + 1
          /\ \A j \in 1..(l - 1) : reapable'[j] = retired + 1 + j
          /\ reapable[1] = retired + 1
      BY <1>3, <3>2, <3>3
    <3> QED
      BY <1>4, <3>4 DEF l
  <2> QED
    BY <1>1, <1>4, <1>6, <2>1, <2>2, <2>3 DEF Pipeline
<1>12. CountInv' /\ UrbsOwned'
  BY <1>1, <1>2, <1>11 DEF CountInv, UrbsOwned
<1> QED
  BY <1>1, <1>8, <1>9, <1>10, <1>12 DEF UrbsInv

(* A URB is handled while the transfer is in flight.                       *)
LEMMA Handling ==
  ASSUME UrbsInv, at["handler"] = "reaped", xlock = "none"
  PROVE  /\ allocated /\ life = "flying" /\ at["user"] \in {"idle", "wait", "rewait"}
         /\ holding \in 1..N /\ urbs[holding] \in Ends /\ Held = 1 /\ Unsubmitted = 0
         /\ N \in Nat \ {0} /\ retired \in Nat /\ retired + 1 <= N
         /\ \E low, high \in Nat :
              /\ Pipeline(low, high) /\ low <= high + 1
              /\ retired + 1 + Len(reapable) + (high - low + 1) = N
<1>1. /\ holding # 0 /\ holding \in 0..N /\ urbs[holding] \in Ends
      /\ allocated /\ at["user"] \in {"idle", "wait", "rewait"}
  BY DEF UrbsInv, LifeInv, LockInv, QueueInv, UrbsOwned
<1>2. life = "flying" /\ Held = 1 /\ Unsubmitted = 0
  BY <1>1 DEF UrbsInv, LifeInv, Held, Unsubmitted
<1> PICK low \in Nat, high \in Nat : Pipeline(low, high)
  BY <1>1 DEF UrbsInv, CountInv
<1>3. /\ N \in Nat \ {0} /\ Len(reapable) \in Nat /\ retired \in Nat /\ low <= high + 1
  BY PipelineIs
<1>4. retired + 1 + Len(reapable) + (high - low + 1) = N
  BY <1>2, <1>3 DEF Pipeline
<1>5. holding \in 1..N /\ retired + 1 <= N
  BY <1>1, <1>3, <1>4
<1> QED
  BY <1>1, <1>2, <1>3, <1>4, <1>5

(* The URB is the last to be waited for: libusb lets go of all.            *)
LEMMA CompleteKeeps ==
  ASSUME UrbsInv, at["handler"] = "reaped", xlock = "none",
         retired + 1 = N \/ (action = "NORMAL" /\ holding = N),
         allocated' = FALSE, at' = [at EXCEPT !["handler"] = "report"], holding' = 0,
         retired' \in Nat, action' \in Actions,
         UNCHANGED <<xlock, cursor, last, shape, queueVars, device, life>>
  PROVE  UrbsInv'
<1>1. /\ allocated /\ life = "flying" /\ at["user"] \in {"idle", "wait", "rewait"}
      /\ Held = 1 /\ N \in Nat \ {0}
  BY Handling
<1>2. reapable = <<>> /\ Queued = {}
  BY <1>1, Handling, NoneHeld
<1>3. UNCHANGED <<urbs, reapable, endpoint>> /\ N' = N /\ Queued' = Queued
  BY DEF queueVars, N, Queued
<1>4. /\ at' \in [UrbThreads -> {"idle", "submit", "discard", "reaped", "report", "wait", "rewait"}]
      /\ at'["handler"] = "report" /\ at'["user"] = at["user"]
  BY DEF UrbsInv, LockInv, UrbThreads
<1>5. LockInv' /\ LifeInv' /\ LoopInv'
  BY <1>1, <1>4 DEF UrbsInv, LockInv, LifeInv, LoopInv, UrbThreads
<1>6. QueueInv' /\ CountInv' /\ UrbsOwned'
  BY <1>1, <1>2, <1>3 DEF UrbsInv, QueueInv, CountInv, UrbsOwned
<1> QED
  BY <1>5, <1>6 DEF UrbsInv

(* The transfer goes on: the next URB, or the discards of those behind.    *)
LEMMA RetireKeeps ==
  ASSUME UrbsInv, at["handler"] = "reaped", xlock = "none",
         allocated' = allocated, holding' = 0, retired' = retired + 1,
         action' \in Actions, action' = "NORMAL" => action = "NORMAL",
         UNCHANGED <<shape, queueVars, device, life>>,
         \/ at' = [at EXCEPT !["handler"] = "idle"] /\ UNCHANGED <<xlock, cursor, last>>
         \/ /\ at' = [at EXCEPT !["handler"] = "discard"]
            /\ action = "NORMAL" /\ holding < N
            /\ action' = "NORMAL" => Queued \subseteq {N}
            /\ xlock' = "handler" /\ cursor' = N /\ last' = holding + 1
  PROVE  UrbsInv'
<1>1. /\ allocated /\ life = "flying" /\ at["user"] \in {"idle", "wait", "rewait"}
      /\ holding \in 1..N /\ Held = 1 /\ Unsubmitted = 0 /\ N \in Nat \ {0} /\ retired \in Nat
  BY Handling
<1> PICK low \in Nat, high \in Nat :
      /\ Pipeline(low, high) /\ low <= high + 1
      /\ retired + 1 + Len(reapable) + (high - low + 1) = N
  BY Handling
<1>2. UNCHANGED <<urbs, reapable, endpoint>> /\ N' = N /\ Queued' = Queued /\ Held' = 0
  BY DEF queueVars, N, Queued, Held
<1>3. /\ at' \in [UrbThreads -> {"idle", "submit", "discard", "reaped", "report", "wait", "rewait"}]
      /\ at'["handler"] \in {"idle", "discard"} /\ at'["user"] = at["user"]
      /\ at'["handler"] = "discard" <=> xlock' = "handler"
      /\ xlock' \in {"none", "handler"}
      /\ at'["handler"] = "discard" => /\ cursor' = N /\ last' = holding + 1 /\ holding < N
                                       /\ action' = "NORMAL" => Queued \subseteq {N}
  BY DEF UrbsInv, LockInv, UrbThreads
<1>4. LockInv'
  BY <1>1, <1>3 DEF LockInv, UrbThreads
<1>5. LifeInv'
  BY <1>1, <1>3 DEF UrbsInv, LifeInv, UrbThreads
<1>6. LoopInv'
  <2>1. \A i \in Queued : i <= N
    BY <1>1 DEF Queued
  <2> QED
    BY <1>1, <1>2, <1>3, <2>1 DEF LoopInv, UrbThreads
<1>7. QueueInv'
  BY <1>1, <1>2 DEF UrbsInv, QueueInv
<1>8. Pipeline(low, high)'
  <2>1. Unsubmitted' = 0
    BY <1>1, <1>3 DEF Unsubmitted
  <2>2. Len(reapable) \in Nat
    BY PipelineIs
  <2>3. (retired + 1) + 0 + Len(reapable) + (high - low + 1) + 0 = N
    BY <1>1, <2>2
  <2>4. action = "NORMAL" =>
          /\ low = (retired + 1) + 0 + Len(reapable) + 1
          /\ \A j \in 1..Len(reapable) : reapable[j] = (retired + 1) + 0 + j
    BY <1>1 DEF Pipeline
  <2>5. Queued = low..high
    BY DEF Pipeline
  <2> QED
    BY <1>2, <2>1, <2>3, <2>4, <2>5 DEF Pipeline
<1>9. CountInv' /\ UrbsOwned' /\ retired' \in Nat
  BY <1>1, <1>8 DEF CountInv, UrbsOwned
<1> QED
  BY <1>4, <1>5, <1>6, <1>7, <1>9 DEF UrbsInv

LEMMA HandleKeeps ==
  ASSUME UrbsInv, HandleBulkAbnormal \/ HandleBulkNormal \/ HandleIso \/ HandleControl
  PROVE  UrbsInv'
<1>1. /\ at["handler"] = "reaped" /\ xlock = "none" /\ holding' = 0
      /\ UNCHANGED <<shape, queueVars, device, life>>
  BY DEF HandleBulkAbnormal, HandleBulkNormal, HandleIso, HandleControl, Handles, programVars
<1>2. /\ holding \in 1..N /\ urbs[holding] \in Ends /\ N \in Nat \ {0} /\ retired \in Nat
      /\ retired + 1 <= N /\ retired + 1 \in Nat
  BY <1>1, Handling
<1>3. action \in Actions
  BY DEF UrbsInv
<1>4. ASSUME retired' = retired + 1 /\ action' = action
      PROVE  /\ retired + 1 = N \/ (action = "NORMAL" /\ holding = N) =>
                  (allocated' = FALSE /\ Goto("handler", "report")
                   /\ UNCHANGED <<xlock, cursor, last>> => UrbsInv')
             /\ allocated' = allocated /\ Goto("handler", "idle")
                  /\ UNCHANGED <<xlock, cursor, last>> => UrbsInv'
  BY <1>1, <1>2, <1>3, <1>4, CompleteKeeps, RetireKeeps DEF Goto
<1>5. CASE HandleBulkAbnormal
  BY <1>4, <1>5 DEF HandleBulkAbnormal, Complete, Retain
<1>6. CASE HandleIso
  BY <1>4, <1>6 DEF HandleIso, Complete, Retain
<1>7. CASE HandleControl
  <2>1. /\ allocated' = FALSE /\ at' = [at EXCEPT !["handler"] = "report"]
        /\ UNCHANGED <<xlock, cursor, last, action, retired>> /\ shape.type = "control"
    BY <1>7 DEF HandleControl, Complete, Goto, Handles
  <2>2. N = 1
    BY <2>1, ShapeIs DEF UrbsInv, LifeInv
  <2>3. retired + 1 = N
    BY <1>2, <2>2
  <2> QED
    BY <1>1, <1>2, <1>3, <2>1, <2>3, CompleteKeeps
<1>8. CASE HandleBulkNormal
  <2> DEFINE end      == urbs[holding]
             fails    == end \in {"nodev", "stall", "error"}
             short    == ~fails /\ end # "overflow" /\ holding < N /\ actual[holding] < Capacity
             complete == \/ end = "overflow"
                         \/ ~fails /\ holding = N
                         \/ (fails \/ short) /\ retired + 1 = N
  <2>1. /\ action = "NORMAL" /\ retired' = retired + 1
        /\ action' = CASE end = "error" -> "ERROR" [] short -> "COMPLETED_EARLY"
                       [] OTHER -> "NORMAL"
        /\ \/ complete /\ Complete("by_action")
           \/ /\ ~complete /\ (fails \/ short)
              /\ DiscardUrbs("handler", holding + 1, N) /\ UNCHANGED <<allocated, verdict>>
           \/ ~complete /\ ~fails /\ ~short /\ Retain("idle")
    BY <1>8 DEF HandleBulkNormal
  <2>2. /\ action' \in Actions
        /\ action' = "NORMAL" => action = "NORMAL"
        /\ action' = "NORMAL" /\ (fails \/ short) => end \in {"nodev", "stall"}
    BY <2>1 DEF Actions
  <2>3. holding = retired + 1
    <3>1. holding # 0 /\ \E low, high \in Nat : Pipeline(low, high)
      BY <1>1, <1>2, Handling
    <3> QED
      BY <1>2, <2>1, <3>1 DEF Pipeline
  <2>4. end = "overflow" => holding = N
    BY <1>2 DEF UrbsInv, QueueInv
  <2>5. end \in {"nodev", "stall"} /\ holding < N => Queued \subseteq {N}
    <3>1. ASSUME end = "nodev" \/ endpoint = "disabled" PROVE Queued = {}
      BY <1>2, <3>1 DEF UrbsInv, QueueInv
    <3>2. ASSUME end = "stall", endpoint # "disabled", holding < N PROVE Queued \subseteq {N}
      <4>1. N = 2 /\ holding = 1
        BY <1>2, <3>2 DEF UrbsInv, QueueInv
      <4>2. 1 \notin Queued
        BY <3>2, <4>1 DEF Queued
      <4> QED
        BY <4>1, <4>2 DEF Queued
    <3> QED
      BY <3>1, <3>2
  <2> HIDE DEF end, fails, short, complete
  <2>9. action = "NORMAL" /\ retired' = retired + 1
    BY <2>1
  <2>6. CASE complete /\ Complete("by_action")
    <3>1. retired + 1 = N \/ (action = "NORMAL" /\ holding = N)
      BY <2>4, <2>6, <2>9 DEF complete
    <3>2. /\ allocated' = FALSE /\ at' = [at EXCEPT !["handler"] = "report"]
          /\ UNCHANGED <<xlock, cursor, last>>
      BY <2>6 DEF Complete, Goto
    <3> QED
      BY <1>1, <1>2, <2>2, <2>9, <3>1, <3>2, CompleteKeeps
  <2>7. CASE /\ ~complete /\ (fails \/ short)
             /\ DiscardUrbs("handler", holding + 1, N) /\ UNCHANGED <<allocated, verdict>>
    <3>1. /\ at' = [at EXCEPT !["handler"] = "discard"] /\ allocated' = allocated
          /\ xlock' = "handler" /\ cursor' = N /\ last' = holding + 1
      BY <2>7 DEF DiscardUrbs, Goto
    <3>2. holding < N
      BY <1>2, <2>3, <2>7 DEF complete, short
    <3>3. action' = "NORMAL" => Queued \subseteq {N}
      BY <2>2, <2>5, <2>7, <3>2
    <3> QED
      BY <1>1, <2>2, <2>9, <3>1, <3>2, <3>3, RetireKeeps
  <2>8. CASE ~complete /\ ~fails /\ ~short /\ Retain("idle")
    <3>1. /\ at' = [at EXCEPT !["handler"] = "idle"] /\ allocated' = allocated
          /\ UNCHANGED <<xlock, cursor, last>>
      BY <2>8 DEF Retain, Goto
    <3> QED
      BY <1>1, <2>2, <2>9, <3>1, RetireKeeps
  <2> QED
    BY <2>1, <2>6, <2>7, <2>8
<1> QED
  BY <1>5, <1>6, <1>7, <1>8

LEMMA ReportKeeps ==
  ASSUME UrbsInv, Report \/ Disconnect
  PROVE  UrbsInv'
<1>1. /\ life = "flying" /\ at["handler"] \in {"report", "idle"} /\ at["user"] # "submit"
      /\ at["handler"] = "idle" => xlock = "none" /\ device = "gone"
  BY DEF Report, Disconnect, UrbsInv, LifeInv
<1>2. /\ at' = [at EXCEPT !["handler"] = "idle"] /\ life' = "idle" /\ allocated' = FALSE
      /\ UNCHANGED <<xlock, cursor, last, shape, action, retired, urbs, endpoint, holding, device>>
      /\ reapable' = <<>> /\ holding = 0 /\ Queued = {}
  <2>1. CASE Report
    <3>1. allocated = FALSE
      BY <2>1 DEF Report, UrbsInv, LifeInv
    <3> QED
      BY <2>1, <3>1
      DEF Report, Goto, transferVars, queueVars, UrbsInv, UrbsOwned
  <2>2. CASE Disconnect
    <3>1. at' = [at EXCEPT !["handler"] = "idle"]
      BY <2>2 DEF Disconnect, threadVars, UrbsInv, LockInv
    <3> QED
      BY <2>2, <3>1 DEF Disconnect, threadVars, UrbsInv, LifeInv, QueueInv
  <2> QED
    BY <2>1, <2>2
<1>3. N' = N /\ Queued' = Queued
  BY <1>2 DEF N, Queued
<1>4. /\ at' \in [UrbThreads -> {"idle", "submit", "discard", "reaped", "report", "wait", "rewait"}]
      /\ at'["handler"] = "idle" /\ at'["user"] = at["user"]
      /\ at["user"] \notin {"submit", "discard"}
  BY <1>1, <1>2 DEF UrbsInv, LockInv, LifeInv, UrbThreads
<1>5. LockInv' /\ LifeInv' /\ LoopInv'
  BY <1>1, <1>2, <1>4 DEF UrbsInv, LockInv, LifeInv, LoopInv, UrbThreads
<1>6. QueueInv'
  BY <1>2, <1>3 DEF UrbsInv, QueueInv
<1>7. CountInv' /\ UrbsOwned'
  BY <1>2, <1>3 DEF CountInv, UrbsOwned
<1> QED
  BY <1>2, <1>5, <1>6, <1>7 DEF UrbsInv

-----------------------------------------------------------------------------
LEMMA UrbsInitInv == UrbsInit => UrbsInv
<1> SUFFICES ASSUME UrbsInit PROVE UrbsInv
  OBVIOUS
<1>1. N \in Nat \ {0} /\ MaxUrbs \in Nat /\ N <= MaxUrbs
  BY ShapeIs DEF UrbsInit
<1>2. urbs = [i \in 1..MaxUrbs |-> "none"] /\ reapable = <<>> /\ holding = 0
  BY DEF UrbsInit
<1>5. Queued = {}
  <2>1. \A i \in 1..N : urbs[i] = "none"
    BY <1>1, <1>2
  <2> QED
    BY <2>1 DEF Queued
<1>3. LockInv /\ LifeInv /\ LoopInv
  BY DEF UrbsInit, LockInv, LifeInv, LoopInv, UrbThreads
<1>4. QueueInv
  <2>1. reapable \in Seq(1..N) /\ Len(reapable) = 0
    BY <1>2
  <2>2. \A i \in 1..N : urbs[i] = "none"
    BY <1>1, <1>2
  <2> QED
    BY <1>1, <1>2, <1>5, <2>1, <2>2 DEF QueueInv
<1> QED
  BY <1>2, <1>3, <1>4, <1>5 DEF UrbsInit, UrbsInv, CountInv, UrbsOwned, Actions

LEMMA UrbsStep ==
  ASSUME UrbsInv, [UrbsNext]_urbVars, "lone_stall" \notin UrbFaults
  PROVE  UrbsInv'
<1>1. CASE UserSteps
  <2>1. CASE SyncReturns
    <3>1. /\ at["user"] \in {"wait", "rewait"} /\ at' = [at EXCEPT !["user"] = "idle"]
          /\ UNCHANGED <<xlock, cursor, last, shape, allocated, action, retired, urbs, reapable,
                         endpoint, holding, device, life>>
      BY <2>1 DEF SyncReturns, Goto, transferVars, queueVars
    <3> QED
      BY <3>1 DEF UrbsInv, LockInv, LifeInv, LoopInv, QueueInv, CountInv, Pipeline, UrbsOwned, Queued,
                  N, Held, Unsubmitted, UrbThreads
  <2> QED
    BY <1>1, <2>1, AcceptKeeps, RefuseKeeps, DiscardKeeps DEF UserSteps, UrbThreads
<1>2. CASE HandlerSteps
  BY <1>2, ReapKeeps, HandleKeeps, ReportKeeps, DiscardKeeps DEF HandlerSteps, UrbThreads
<1>3. CASE ProgramSteps
  <2>1. CASE CancelByProgram
    BY <2>1, CancelKeeps DEF CancelByProgram, Cancel, DiscardUrbs, Goto, Actions, UrbThreads, threadVars
  <2>2. CASE CancelByTimeout
    BY <2>2, CancelKeeps DEF CancelByTimeout, Cancel, DiscardUrbs, Goto, Actions, UrbThreads, threadVars
  <2>3. CASE WaitFails
    BY <2>3, CancelKeeps DEF WaitFails, DiscardUrbs, Goto, Actions, UrbThreads
  <2>4. CASE RewaitFails
    <3>1. /\ at["user"] = "rewait" /\ at' = [at EXCEPT !["user"] = "idle"]
          /\ UNCHANGED <<xlock, cursor, last, shape, allocated, action, retired, urbs, reapable,
                         endpoint, holding, device, life>>
      BY <2>4 DEF RewaitFails, Goto, transferVars, queueVars
    <3> QED
      BY <3>1 DEF UrbsInv, LockInv, LifeInv, LoopInv, QueueInv, CountInv, Pipeline, UrbsOwned, Queued,
                  N, Held, Unsubmitted, UrbThreads
  <2> QED
    BY <1>3, <2>1, <2>2, <2>3, <2>4, SubmitKeeps DEF ProgramSteps
<1>4. CASE KernelSteps
  BY <1>4, KernelKeeps
<1>5. CASE UNCHANGED urbVars
  BY <1>5, UrbsKept DEF urbVars, threadVars, transferVars, queueVars, programVars
<1> QED
  BY <1>1, <1>2, <1>3, <1>4, <1>5 DEF UrbsNext

(* handle_bulk_completion(), handle_iso_completion(),                      *)
(* handle_control_completion(), submit_bulk_transfer() and                 *)
(* op_clear_transfer_priv() free tpriv->urbs only when the kernel has no   *)
(* URB of the transfer and none waits to be reaped.                        *)
THEOREM UrbsAreOwned ==
  ASSUME "lone_stall" \notin UrbFaults
  PROVE  UrbsSpec => []UrbsOwned
<1>1. UrbsInv => UrbsOwned
  BY DEF UrbsInv
<1> QED
  BY <1>1, UrbsInitInv, UrbsStep, PTL DEF UrbsSpec

-----------------------------------------------------------------------------
(* Why a transfer ends: what the handler is going to report, and what it   *)
(* will be reported from, has a reason that holds.                         *)
Asked == cancelAsked \/ expired

ReasonInv ==
  /\ action = "CANCELLED" => Asked
  /\ shape.type = "control" /\ (urbs[1] = "killed" \/ \E t \in UrbThreads : at[t] = "discard")
       => Asked
  /\ reapStatus \in {"completed", "error", "stall", "overflow", "no_device"}
  /\ reapStatus = "no_device" => device = "gone"
  /\ verdict \in {"by_action", "completed", "error", "stall", "overflow", "no_device", "cancelled"}
  /\ verdict = "no_device" => device = "gone"
  /\ verdict = "cancelled" => Asked
  /\ at["handler"] # "report" => verdict = "by_action"

LEMMA ReasonInitial == UrbsInit => ReasonInv
<1> SUFFICES ASSUME UrbsInit PROVE ReasonInv
  OBVIOUS
<1>1. shape \in Shapes /\ urbs = [i \in 1..MaxUrbs |-> "none"]
  BY DEF UrbsInit
<1>2. N \in Nat \ {0} /\ MaxUrbs \in Nat /\ N <= MaxUrbs
  BY <1>1, ShapeIs
<1>3. urbs[1] = "none"
  BY <1>1, <1>2
<1> QED
  BY <1>3 DEF UrbsInit, ReasonInv, UrbThreads

LEMMA ReasonKept ==
  ASSUME UrbsInv, ReasonInv, shape' = shape, Asked => Asked',
         action' = "CANCELLED" => action = "CANCELLED" \/ Asked',
         device = "gone" => device' = "gone",
         /\ shape.type = "control"
         /\ urbs'[1] = "killed" \/ \E t \in UrbThreads : at'[t] = "discard"
         => \/ urbs[1] = "killed"
            \/ \E t \in UrbThreads : at[t] = "discard"
            \/ Asked',
         at["handler"] = "report" => at'["handler"] = "report",
         UNCHANGED <<reapStatus, verdict>>
  PROVE  ReasonInv'
  BY DEF ReasonInv

LEMMA KilledOne ==
  ASSUME UrbsInv, shape.type = "control", NEW i, NEW how \in Ends \ {"killed"}, End(i, how)
  PROVE  urbs'[1] = "killed" => urbs[1] = "killed"
<1>1. N = 1 /\ 1 \in 1..MaxUrbs
  BY ShapeIs DEF UrbsInv, LifeInv
<1>2. Queued \subseteq {1}
  BY <1>1 DEF Queued
<1>3. i \in Queued
  <2>1. Queued # {} /\ i = Min(Queued)
    BY DEF End, Serves
  <2>2. Queued = {1}
    BY <1>2, <2>1
  <2>3. Min({1}) = 1
    BY DEF Min
  <2> QED
    BY <2>1, <2>2, <2>3
<1> DEFINE others == IF shape.continuation /\ how # "ok" THEN Queued \ {i} ELSE {}
<1>4. others = {} /\ i = 1
  BY <1>2, <1>3
<1>5. urbs' = [j \in 1..MaxUrbs |-> IF j = i THEN how
                                    ELSE IF j \in others THEN "killed" ELSE urbs[j]]
  BY DEF End
<1> HIDE DEF others
<1> QED
  BY <1>1, <1>4, <1>5

LEMMA ReasonStep ==
  ASSUME UrbsInv, ReasonInv, [UrbsNext]_urbVars
  PROVE  ReasonInv'
<1> USE DEF Goto, threadVars, transferVars, queueVars, dataVars, programVars
<1>0. at \in [UrbThreads -> {"idle", "submit", "discard", "reaped", "report", "wait", "rewait"}]
  BY DEF UrbsInv, LockInv
<1>1. ASSUME NEW s \in Shapes, NEW by \in {"none", "waiting"}, Submit(s, by) PROVE ReasonInv'
  <2>1. /\ action' = "NORMAL" /\ urbs' = [i \in 1..MaxUrbs |-> "none"]
        /\ reapStatus' = "completed" /\ UNCHANGED <<verdict, device>>
        /\ at' = [at EXCEPT !["user"] = "submit"]
    BY <1>1 DEF Submit
  <2>2. urbs'[1] # "killed"
    <3>1. 1 \in 1..MaxUrbs
      BY ShapeIs DEF UrbsInv, LifeInv
    <3> QED
      BY <2>1, <3>1
  <2>3. \A t \in UrbThreads : at'[t] # "discard"
    <3>1. xlock = "none"
      BY <1>1 DEF Submit
    <3> QED
      BY <1>0, <2>1, <3>1 DEF UrbsInv, LockInv, UrbThreads
  <2>4. at["handler"] # "report"
    BY <1>1 DEF Submit, UrbsInv, LifeInv
  <2> QED
    BY <2>1, <2>2, <2>3, <2>4 DEF ReasonInv
<1>2. CASE KernelSteps
  <2> USE DEF KernelLeaves
  <2>1. ASSUME NEW i, NEW how \in Ends \ {"killed"}, End(i, how) PROVE ReasonInv'
    <3>1. UNCHANGED <<at, shape, action, device, reapStatus, verdict, cancelAsked, expired>>
      BY <2>1 DEF End
    <3> QED
      BY <2>1, <3>1, KilledOne, ReasonKept DEF Asked
  <2>2. CASE \E i \in 1..MaxUrbs : TransferUnit(i)
    BY <2>2, ReasonKept DEF TransferUnit, Asked
  <2>3. CASE Vanish
    <3>1. N \in Nat \ {0} /\ N <= MaxUrbs /\ MaxUrbs \in Nat
      BY ShapeIs DEF UrbsInv, LifeInv
    <3>2. urbs'[1] = "killed" => urbs[1] = "killed"
      BY <2>3, <3>1 DEF Vanish
    <3> QED
      BY <2>3, <3>2, ReasonKept DEF Vanish, Asked
  <2> QED
    BY <1>2, <2>1, <2>2, <2>3 DEF KernelSteps, CompleteUrb, ShortUrb, FailUrb, Ends
<1>3. ASSUME NEW t \in UrbThreads, DiscardUrb(t) PROVE ReasonInv'
  <2>1. UNCHANGED <<shape, action, device, reapStatus, verdict, cancelAsked, expired>>
    BY <1>3 DEF DiscardUrb
  <2>2. at[t] = "discard" /\ (at' = at \/ \E w \in {"idle", "wait", "rewait"} :
                                             at' = [at EXCEPT ![t] = w])
    BY <1>3 DEF DiscardUrb, Leave
  <2>3. at["handler"] = "report" => at'["handler"] = "report"
    BY <1>0, <2>2 DEF UrbThreads
  <2> QED
    BY <2>1, <2>2, <2>3, ReasonKept DEF Asked
<1>4. CASE AcceptUrb \/ RefuseFirst \/ RefuseNeedless \/ RefuseLater
  <2>1. UNCHANGED <<shape, device, reapStatus, verdict, cancelAsked, expired>>
        /\ (action' = "CANCELLED" => action = "CANCELLED")
    BY <1>4 DEF AcceptUrb, RefuseFirst, RefuseNeedless, RefuseLater
  <2>2. ASSUME shape.type = "control"
        PROVE  (urbs'[1] = "killed" \/ \E t \in UrbThreads : at'[t] = "discard") =>
                 (urbs[1] = "killed" \/ \E t \in UrbThreads : at[t] = "discard")
    <3>1. N = 1 /\ cursor = 1 /\ 1 \in 1..MaxUrbs
      <4>1. at["user"] = "submit"
        BY <1>4 DEF AcceptUrb, RefuseFirst, RefuseNeedless, RefuseLater
      <4>2. N = 1 /\ cursor \in 1..N /\ MaxUrbs \in Nat /\ N <= MaxUrbs
        BY <2>2, <4>1, ShapeIs DEF UrbsInv, LifeInv, LoopInv
      <4> QED
        BY <4>2
    <3>2. AcceptUrb \/ RefuseFirst
      BY <1>4, <3>1 DEF RefuseNeedless, RefuseLater
    <3>3. urbs'[1] = "killed" => urbs[1] = "killed"
      BY <3>1, <3>2 DEF AcceptUrb, RefuseFirst, UrbsInv, QueueInv
    <3>4. \A t \in UrbThreads : at'[t] = "discard" => at[t] = "discard"
      <4>1. \/ at' = at
            \/ \E w \in {"idle", "wait", "rewait"} : at' = [at EXCEPT !["user"] = w]
        BY <3>2 DEF AcceptUrb, RefuseFirst, Leave
      <4> QED
        BY <1>0, <4>1 DEF UrbThreads
    <3> QED
      BY <3>3, <3>4
  <2>3. at' = at \/ \E w \in {"idle", "wait", "rewait", "discard"} : at' = [at EXCEPT !["user"] = w]
    BY <1>4 DEF AcceptUrb, RefuseFirst, RefuseNeedless, RefuseLater, Leave, DiscardUrbs
  <2>4. at'["handler"] = at["handler"]
    BY <1>0, <2>3 DEF UrbThreads
  <2> QED
    BY <2>1, <2>2, <2>4, ReasonKept DEF Asked
<1>5. CASE CancelByProgram \/ CancelByTimeout \/ WaitFails
  <2>1. /\ UNCHANGED <<shape, device, reapStatus, verdict>> /\ Asked'
    BY <1>5 DEF CancelByProgram, CancelByTimeout, WaitFails, Cancel, Asked
  <2>2. \E t \in UrbThreads : /\ t = "handler" => at["handler"] = "idle"
                              /\ at' = at \/ \E w \in {"rewait", "discard"} : at' = [at EXCEPT ![t] = w]
    BY <1>5 DEF CancelByProgram, CancelByTimeout, WaitFails, Cancel, DiscardUrbs, UrbThreads
  <2>3. at["handler"] = "report" => at'["handler"] = "report"
    BY <1>0, <2>2 DEF UrbThreads
  <2> QED
    BY <2>1, <2>3, ReasonKept
<1>6. CASE RewaitFails \/ SyncReturns \/ Report \/ Reap \/ Disconnect \/ UNCHANGED urbVars
  <2>1. /\ UNCHANGED <<shape, device, action, reapStatus, cancelAsked, expired, urbs>>
        /\ verdict' \in {verdict, "by_action"}
        /\ at["handler"] # "report" \/ at' = at \/ at'["handler"] = "report" \/ verdict' = "by_action"
        /\ \A t \in UrbThreads : at'[t] = "discard" => at[t] = "discard"
    <3>1. at' = at \/ \E t \in UrbThreads, w \in {"idle", "reaped"} :
                         /\ at' = [at EXCEPT ![t] = w]
                         /\ t = "handler" => verdict' = "by_action" \/ at["handler"] # "report"
      BY <1>6 DEF RewaitFails, SyncReturns, Report, Reap, Disconnect, urbVars, UrbThreads
    <3>2. /\ UNCHANGED <<shape, device, action, reapStatus, cancelAsked, expired, urbs>>
          /\ verdict' \in {verdict, "by_action"}
      BY <1>6 DEF RewaitFails, SyncReturns, Report, Reap, Disconnect, urbVars
    <3> QED
      BY <1>0, <3>1, <3>2 DEF UrbThreads
  <2> QED
    BY <2>1 DEF ReasonInv, Asked
<1>7. CASE HandleBulkAbnormal \/ HandleBulkNormal \/ HandleIso \/ HandleControl
  <2>1. /\ at["handler"] = "reaped" /\ xlock = "none"
        /\ UNCHANGED <<shape, expired, urbs, device, cancelAsked>>
    BY <1>7 DEF HandleBulkAbnormal, HandleBulkNormal, HandleIso, HandleControl, Handles
  <2>10. at'["handler"] # "report" => verdict' = "by_action"
    <3>1. verdict = "by_action"
      BY <2>1 DEF ReasonInv
    <3>2. verdict' = verdict \/ at' = [at EXCEPT !["handler"] = "report"]
      BY <1>7
      DEF HandleBulkAbnormal, HandleBulkNormal, HandleIso, HandleControl, Complete, Retain
    <3> QED
      BY <1>0, <3>1, <3>2 DEF UrbThreads
  <2>2. /\ holding \in 1..N /\ urbs[holding] \in Ends
        /\ urbs[holding] = "nodev" => device = "gone"
    BY <2>1, Handling DEF UrbsInv, QueueInv
  <2>3. \A i \in 1..N : urbs[i] = "nodev" => device = "gone"
    BY DEF UrbsInv, QueueInv
  <2>4. N \in 1..N
    BY ShapeIs DEF UrbsInv, LifeInv
  <2>5. Asked' = Asked
    BY <2>1 DEF Asked
  <2>6. CASE HandleBulkAbnormal
    <3>1. /\ action' = action /\ verdict' \in {verdict, "by_action"}
          /\ reapStatus' \in {reapStatus, "error"}
          /\ \E w \in {"idle", "report"} : at' = [at EXCEPT !["handler"] = w]
      BY <2>6 DEF HandleBulkAbnormal, Complete, Retain
    <3>2. \A t \in UrbThreads : at'[t] = "discard" => at[t] = "discard"
      BY <1>0, <3>1
    <3> QED
      BY <2>1, <2>5, <2>10, <3>1, <3>2 DEF ReasonInv
  <2>7. CASE HandleBulkNormal
    <3> DEFINE end   == urbs[holding]
               fails == end \in {"nodev", "stall", "error"}
               short == ~fails /\ end # "overflow" /\ holding < N /\ actual[holding] < Capacity
    <3>1. /\ action' = CASE end = "error" -> "ERROR" [] short -> "COMPLETED_EARLY"
                         [] OTHER -> "NORMAL"
          /\ reapStatus' = StatusAfter(end) /\ verdict' \in {verdict, "by_action"}
          /\ shape.type # "control"
      BY <2>7 DEF HandleBulkNormal, Complete, Retain, Handles
    <3>2. action' # "CANCELLED"
      BY <3>1
    <3>3. reapStatus' = IF end = "nodev" THEN "no_device"
                        ELSE IF end \in {"stall", "overflow", "error"} /\ reapStatus = "completed"
                        THEN end ELSE reapStatus
      BY <3>1 DEF StatusAfter
    <3> HIDE DEF end, fails, short
    <3>4. end = "nodev" => device = "gone"
      BY <2>2 DEF end
    <3> QED
      BY <2>1, <2>5, <2>10, <3>1, <3>2, <3>3, <3>4 DEF ReasonInv
  <2>8. CASE HandleIso
    <3>1. /\ action' = action /\ reapStatus' = reapStatus /\ shape.type = "iso"
          /\ verdict' \in {verdict, IF urbs[N] = "nodev" THEN "no_device" ELSE "completed",
                           IF action = "CANCELLED" THEN "cancelled" ELSE "error"}
      BY <2>8 DEF HandleIso, Complete, Retain, Handles
    <3>2. urbs[N] = "nodev" => device = "gone"
      BY <2>3, <2>4
    <3> QED
      BY <2>1, <2>5, <2>10, <3>1, <3>2 DEF ReasonInv
  <2>9. CASE HandleControl
    <3>1. shape.type = "control" /\ N = 1 /\ holding = 1 /\ urbs[1] \in Ends
      BY <2>2, <2>9, ShapeIs DEF HandleControl, Handles, UrbsInv, LifeInv
    <3>2. /\ action' = action /\ reapStatus' = reapStatus
          /\ verdict' = IF action = "CANCELLED" THEN "cancelled"
                        ELSE CASE urbs[1] \in {"ok", "short"} -> "completed"
                               [] urbs[1] = "killed" -> "cancelled"
                               [] urbs[1] = "nodev" -> "no_device"
                               [] OTHER -> urbs[1]
          /\ at' = [at EXCEPT !["handler"] = "report"]
      BY <2>9 DEF HandleControl, Complete
    <3>3. /\ verdict' \in {"completed", "error", "stall", "overflow", "no_device", "cancelled"}
          /\ verdict' = "no_device" => urbs[1] = "nodev"
          /\ verdict' = "cancelled" => action = "CANCELLED" \/ urbs[1] = "killed"
      BY <3>1, <3>2 DEF Ends
    <3>4. \A t \in UrbThreads : at'[t] = "discard" => at[t] = "discard"
      BY <1>0, <3>2
    <3> QED
      BY <2>1, <2>2, <2>5, <2>10, <3>1, <3>2, <3>3, <3>4 DEF ReasonInv
  <2> QED
    BY <1>7, <2>6, <2>7, <2>8, <2>9
<1> QED
  BY <1>1, <1>2, <1>3, <1>4, <1>5, <1>6, <1>7
  DEF UrbsNext, UserSteps, HandlerSteps, ProgramSteps, UrbThreads

-----------------------------------------------------------------------------
(* Each step is one of the lifecycle's, or changes nothing of it.          *)
LEMMA AnswerHasReason ==
  ASSUME UrbsInv, ReasonInv
  PROVE  \/ Answer \in {"completed", "error", "stall", "overflow"}
         \/ Answer = "no_device" /\ device = "gone"
         \/ Answer = "cancelled" /\ cancelAsked
         \/ Answer = "timed_out" /\ expired
BY DEF Answer, EndedEarly, ReasonInv, Asked

LEMMA UrbsLifecycleStep ==
  ASSUME UrbsInv, ReasonInv, [UrbsNext]_urbVars
  PROVE  [Lifecycle!Next]_(Lifecycle!vars)
<1> DEFINE x == "transfer"
           why(l, d, c, e) == (IF d = "gone" THEN {"no_device"} ELSE {})
                              \union (IF l # "idle" /\ c THEN {"cancelled"} ELSE {})
                              \union (IF l # "idle" /\ e THEN {"timed_out"} ELSE {})
           result(s) == IF s \in {"stall", "overflow", "error"} THEN "completed" ELSE s
           state == [y \in {x} |-> life]
           reasons == [y \in {x} |-> why(life, device, cancelAsked, expired)]
           outcome == [y \in {x} |-> result(told)]
<1> USE DEF Goto, threadVars, transferVars, queueVars, dataVars, programVars
<1>1. ASSUME UNCHANGED <<life, device, cancelAsked, expired, told>>
      PROVE  UNCHANGED Lifecycle!vars
  BY <1>1 DEF Lifecycle!vars
<1>2. ASSUME NEW s \in Shapes, NEW by \in {"none", "waiting"}, Submit(s, by)
      PROVE  Lifecycle!Submit(x)
  <2>1. life = "idle" /\ life' = "submitting" /\ told' = "none" /\ device' = device
        /\ cancelAsked' = FALSE /\ expired' = FALSE
    BY <1>2 DEF Submit
  <2> QED
    BY <2>1 DEF Lifecycle!Submit
<1>3. ASSUME life = "submitting", life' = "flying",
             UNCHANGED <<device, cancelAsked, expired, told>>
      PROVE  Lifecycle!Accept(x)
  BY <1>3 DEF Lifecycle!Accept
<1>4. ASSUME life = "submitting", life' = "idle",
             UNCHANGED <<device, cancelAsked, expired, told>>
      PROVE  Lifecycle!Refuse(x)
  BY <1>4 DEF Lifecycle!Refuse, Lifecycle!End
<1>5. ASSUME life = "flying", life' = "idle", UNCHANGED <<device, cancelAsked, expired>>,
             result(told') \in {"completed"} \union why(life, device, cancelAsked, expired)
      PROVE  Lifecycle!Callback(x)
  BY <1>5 DEF Lifecycle!Callback, Lifecycle!End
<1>6. ASSUME UNCHANGED <<life, told>>, device = "gone" => device' = "gone",
             cancelAsked => cancelAsked', expired => expired'
      PROVE  Lifecycle!Arise
  BY <1>6 DEF Lifecycle!Arise, Lifecycle!Reasons
<1>7. CASE UNCHANGED urbVars
  BY <1>1, <1>7 DEF urbVars
<1>8. CASE UserSteps
  <2>1. CASE AcceptUrb \/ RefuseNeedless \/ RefuseLater
    <3>1. UNCHANGED <<device, cancelAsked, expired, told>> /\ life' \in {life, "flying"}
      BY <2>1 DEF AcceptUrb, RefuseNeedless, RefuseLater
    <3>2. life = "submitting"
      BY <2>1, Submitting DEF AcceptUrb, RefuseNeedless, RefuseLater
    <3> QED
      BY <1>1, <1>3, <3>1, <3>2 DEF Lifecycle!Next
  <2>2. CASE RefuseFirst
    <3>1. life = "submitting" /\ life' = "idle" /\ UNCHANGED <<device, cancelAsked, expired, told>>
      BY <2>2, Submitting DEF RefuseFirst
    <3> QED
      BY <1>4, <3>1 DEF Lifecycle!Next
  <2>3. CASE DiscardUrb("user") \/ SyncReturns
    BY <1>1, <2>3 DEF DiscardUrb, SyncReturns
  <2> QED
    BY <1>8, <2>1, <2>2, <2>3 DEF UserSteps
<1>9. CASE HandlerSteps
  <2>1. CASE Report
    <3>1. life = "flying" /\ life' = "idle" /\ UNCHANGED <<device, cancelAsked, expired>>
          /\ told' = Answer
      BY <2>1 DEF Report, UrbsInv, LifeInv
    <3>2. result(told') \in {"completed"} \union why(life, device, cancelAsked, expired)
      BY <3>1, AnswerHasReason
    <3> QED
      BY <1>5, <3>1, <3>2 DEF Lifecycle!Next
  <2>2. CASE Disconnect
    <3>1. life = "flying" /\ life' = "idle" /\ UNCHANGED <<device, cancelAsked, expired>>
          /\ told' = "no_device" /\ device = "gone"
      BY <2>2 DEF Disconnect
    <3> QED
      BY <1>5, <3>1 DEF Lifecycle!Next
  <2>3. CASE \/ Reap \/ DiscardUrb("handler") \/ HandleBulkAbnormal \/ HandleBulkNormal
             \/ HandleIso \/ HandleControl
    <3>1. UNCHANGED <<life, device, cancelAsked, expired, told>>
      BY <2>3 DEF Reap, DiscardUrb, HandleBulkAbnormal, HandleBulkNormal, HandleIso, HandleControl,
                  Handles
    <3> QED
      BY <1>1, <3>1
  <2> QED
    BY <1>9, <2>1, <2>2, <2>3 DEF HandlerSteps
<1>10. CASE ProgramSteps
  <2>1. CASE CancelByProgram \/ CancelByTimeout \/ WaitFails
    <3>1. /\ UNCHANGED <<life, told, device>>
          /\ cancelAsked' = cancelAsked \/ cancelAsked' = TRUE
          /\ expired' = expired \/ expired' = TRUE
      BY <2>1 DEF CancelByProgram, CancelByTimeout, WaitFails, Cancel
    <3> QED
      BY <1>6, <3>1 DEF Lifecycle!Next
  <2>2. CASE RewaitFails
    BY <1>1, <2>2 DEF RewaitFails
  <2> QED
    BY <1>2, <1>10, <2>1, <2>2 DEF ProgramSteps, Lifecycle!Next
<1>11. CASE KernelSteps
  <2>1. UNCHANGED <<life, told, cancelAsked, expired>> /\ (device = "gone" => device' = "gone")
    BY <1>11 DEF KernelSteps, KernelLeaves, TransferUnit, CompleteUrb, ShortUrb, FailUrb, Vanish, End
  <2> QED
    BY <1>6, <2>1 DEF Lifecycle!Next
<1> QED
  BY <1>7, <1>8, <1>9, <1>10, <1>11 DEF UrbsNext

(* Every submission the backend accepts is answered once, after its URBs   *)
(* are done with, and ends early only for a reason that holds: the program *)
(* asked to cancel it, its deadline passed, or the device went.            *)
THEOREM UrbsKeepLifecycle ==
  ASSUME "lone_stall" \notin UrbFaults
  PROVE  UrbsSpec => UrbsImplementLifecycle
<1>1. UrbsInit => UrbsInv /\ ReasonInv
  BY UrbsInitInv, ReasonInitial
<1>2. UrbsInv /\ ReasonInv /\ [UrbsNext]_urbVars => UrbsInv' /\ ReasonInv'
  BY UrbsStep, ReasonStep
<1>3. UrbsInit => Lifecycle!Init
  BY DEF UrbsInit, Lifecycle!Init
<1>4. UrbsInv /\ ReasonInv /\ [UrbsNext]_urbVars => [Lifecycle!Next]_(Lifecycle!vars)
  BY UrbsLifecycleStep
<1> QED
  BY <1>1, <1>2, <1>3, <1>4, PTL DEF UrbsSpec, UrbsImplementLifecycle, Lifecycle!Spec

-----------------------------------------------------------------------------
(* What the URBs that ended, and those that have not, tell of the others.  *)
FirstBadShort == \E i \in 1..N : urbs[i] = "short" /\ \A j \in 1..N : j < i => urbs[j] = "ok"
WellOrShort == (\A i \in 1..N : urbs[i] = "ok") \/ FirstBadShort

Stopping  == {"stall", "overflow", "nodev", "killed"}
Disabling == {"short", "stall", "overflow", "error"}

UnitsInv ==
  /\ actual \in [1..MaxUrbs -> Nat]
  /\ \A i \in 1..N : /\ actual[i] <= Capacity
                     /\ shape.type = "iso" => actual[i] = 0
                     /\ urbs[i] = "none" => actual[i] = 0
                     /\ urbs[i] = "ok" => shape.type = "iso" \/ actual[i] = Capacity
                     /\ urbs[i] = "short" => shape.in /\ actual[i] < Capacity
  /\ \A i, j \in 1..N : i < j /\ urbs[i] = "none" => urbs[j] = "none"

EndsInv ==
  /\ endpoint \in {"running", "halted", "disabled"}
  /\ \A i \in 1..N :
       /\ urbs[i] \in Disabling => shape.type # "iso"
       /\ urbs[i] = "stall" => endpoint # "running"
       /\ shape.continuation /\ urbs[i] \in Disabling => endpoint = "disabled"
       /\ at["user"] = "submit" /\ urbs[i] = "killed" => endpoint = "disabled"
       /\ at["user"] = "submit" => (urbs[i] = "none" <=> i >= cursor)
  /\ \A i, j \in 1..N : i < j =>
       /\ urbs[i] = "queued" => actual[j] = 0 /\ urbs[j] \in {"none", "queued", "killed"}
       /\ urbs[i] \in Stopping => /\ actual[j] = 0 /\ urbs[j] \in {"none", "queued", "killed", "nodev"}
                                  /\ urbs[j] = "queued" => endpoint = "halted"
  /\ at["user"] = "submit" /\ endpoint = "disabled" => FirstBadShort

-----------------------------------------------------------------------------
LEMMA EndsSame ==
  ASSUME UnitsInv, EndsInv, UNCHANGED <<urbs, actual, endpoint, shape>>,
         at'["user"] = "submit" => at["user"] = "submit" /\ cursor' = cursor
  PROVE  UnitsInv' /\ EndsInv'
<1>1. N' = N /\ Capacity' = Capacity
  BY DEF N, Capacity
<1>2. UnitsInv'
  BY <1>1 DEF UnitsInv
<1>3. FirstBadShort => FirstBadShort'
  BY <1>1 DEF FirstBadShort
<1>4. EndsInv'
  BY <1>1, <1>3 DEF EndsInv
<1> QED
  BY <1>2, <1>4

(* The lowest URB in the queue is the one that is served.                  *)
LEMMA ServedIs ==
  ASSUME UrbsInv, NEW i \in 1..MaxUrbs, Serves(i)
  PROVE  /\ allocated /\ i \in 1..N /\ urbs[i] = "queued" /\ endpoint = "running" /\ device = "there"
         /\ \A j \in 1..N : j < i => urbs[j] # "queued"
         /\ N \in Nat \ {0} /\ Capacity \in Nat \ {0} /\ 1..N \subseteq 1..MaxUrbs
<1>1. allocated /\ Queued # {} /\ i = Min(Queued) /\ endpoint = "running" /\ device = "there"
  BY DEF Serves, UrbsInv, UrbsOwned
<1> PICK low \in Nat, high \in Nat : Pipeline(low, high)
  BY <1>1 DEF UrbsInv, CountInv
<1>2. Queued = low..high /\ \A j \in low..high : j \in 1..N /\ urbs[j] = "queued"
  BY PipelineIs DEF Pipeline
<1>3. low <= high
  BY <1>1, <1>2
<1>4. i = low
  BY <1>1, <1>2, <1>3, MinIs
<1>5. \A j \in 1..N : urbs[j] = "queued" => j \in low..high
  BY <1>2 DEF Queued
<1>6. N \in Nat \ {0} /\ Capacity \in Nat \ {0} /\ 1..N \subseteq 1..MaxUrbs
  BY ShapeIs DEF UrbsInv, LifeInv
<1> QED
  BY <1>1, <1>2, <1>3, <1>4, <1>5, <1>6

LEMMA AcceptEnds ==
  ASSUME UrbsInv, UnitsInv, EndsInv, AcceptUrb
  PROVE  UnitsInv' /\ EndsInv'
<1> USE DEF Goto, threadVars, transferVars, queueVars, dataVars, programVars
<1>1. N \in Nat \ {0} /\ Capacity \in Nat \ {0} /\ 1..N \subseteq 1..MaxUrbs
  BY ShapeIs DEF UrbsInv, LifeInv
<1>2. /\ at["user"] = "submit" /\ device = "there" /\ endpoint # "disabled" /\ cursor \in 1..N
      /\ urbs' = [urbs EXCEPT ![cursor] = "queued"]
      /\ UNCHANGED <<shape, actual, endpoint>>
      /\ urbs \in [1..MaxUrbs -> {"none", "queued"} \union Ends]
  BY DEF AcceptUrb, UrbsInv, LoopInv, QueueInv
<1>3. at'["user"] = "submit" => cursor' = cursor + 1
  BY <1>2 DEF AcceptUrb, Leave, UrbsInv, LockInv, UrbThreads
<1>4. N' = N /\ Capacity' = Capacity
  BY <1>2 DEF N, Capacity
<1>5. /\ urbs[cursor] = "none" /\ urbs'[cursor] = "queued"
      /\ \A j \in 1..N : j # cursor => urbs'[j] = urbs[j]
      /\ \A j \in 1..N : j >= cursor => urbs[j] = "none" /\ actual[j] = 0
      /\ \A j \in 1..N : j < cursor => urbs[j] # "none"
  BY <1>1, <1>2 DEF EndsInv, UnitsInv
<1>6. UnitsInv'
  BY <1>1, <1>2, <1>4, <1>5 DEF UnitsInv
<1>7. ASSUME NEW i \in 1..N
      PROVE  /\ urbs'[i] \in Disabling => shape.type # "iso"
             /\ urbs'[i] = "stall" => endpoint # "running"
             /\ shape.continuation /\ urbs'[i] \in Disabling => endpoint = "disabled"
             /\ urbs'[i] # "killed"
             /\ at'["user"] = "submit" => (urbs'[i] = "none" <=> i >= cursor')
  <2>1. urbs'[i] = urbs[i] \/ (i = cursor /\ urbs'[i] = "queued")
    BY <1>5
  <2>2. at'["user"] = "submit" => (urbs'[i] = "none" <=> i >= cursor')
    BY <1>1, <1>2, <1>3, <1>5
  <2> QED
    BY <1>2, <2>1, <2>2 DEF EndsInv, Disabling
<1>8. ASSUME NEW i \in 1..N, NEW j \in 1..N, i < j
      PROVE  /\ urbs'[i] = "queued" => actual[j] = 0 /\ urbs'[j] \in {"none", "queued", "killed"}
             /\ urbs'[i] \in Stopping => /\ actual[j] = 0 /\ urbs'[j] \in {"none", "queued", "killed", "nodev"}
                                         /\ urbs'[j] = "queued" => endpoint = "halted"
  <2>1. CASE i = cursor
    BY <1>1, <1>2, <1>5, <1>8, <2>1 DEF Stopping
  <2>2. CASE i # cursor
    <3>1. urbs'[i] = urbs[i]
      BY <1>5, <2>2
    <3>2. urbs[i] = "nodev" => device = "gone"
      BY DEF UrbsInv, QueueInv
    <3>3. urbs[i] = "overflow" => i = N
      BY DEF UrbsInv, QueueInv
    <3>4. urbs[i] \in Stopping => endpoint = "halted"
      BY <1>1, <1>2, <1>8, <3>2, <3>3 DEF EndsInv, Stopping
    <3>5. urbs'[j] = urbs[j] \/ urbs'[j] = "queued"
      BY <1>5
    <3> QED
      BY <1>8, <3>1, <3>4, <3>5, <1>5 DEF EndsInv
  <2> QED
    BY <2>1, <2>2
<1>9. EndsInv'
  BY <1>2, <1>4, <1>7, <1>8 DEF EndsInv
<1> QED
  BY <1>6, <1>9

LEMMA DiscardEnds ==
  ASSUME UrbsInv, UnitsInv, EndsInv, NEW t \in UrbThreads, DiscardUrb(t)
  PROVE  UnitsInv' /\ EndsInv'
<1> USE DEF Goto, threadVars, transferVars, queueVars, dataVars, programVars
<1>1. N \in Nat \ {0} /\ Capacity \in Nat \ {0} /\ 1..N \subseteq 1..MaxUrbs
  BY ShapeIs DEF UrbsInv, LifeInv
<1>2. /\ at[t] = "discard" /\ UNCHANGED <<shape, actual, endpoint>>
      /\ urbs' = IF urbs[cursor] = "queued" THEN [urbs EXCEPT ![cursor] = "killed"] ELSE urbs
      /\ urbs \in [1..MaxUrbs -> {"none", "queued"} \union Ends]
  BY DEF DiscardUrb, UrbsInv, QueueInv
<1>3. /\ last \in 1..N /\ cursor \in last..N /\ \A i \in Queued : i <= cursor
      /\ life = "flying" /\ at["user"] # "submit"
  BY <1>2 DEF UrbsInv, LoopInv, LifeInv
<1>4. at'["user"] # "submit"
  BY <1>3 DEF DiscardUrb, Leave, UrbsInv, LockInv, UrbThreads
<1>5. N' = N /\ Capacity' = Capacity
  BY <1>2 DEF N, Capacity
<1>6. CASE urbs[cursor] = "queued"
  <2>1. /\ cursor \in 1..N /\ urbs'[cursor] = "killed"
        /\ \A j \in 1..N : j # cursor => urbs'[j] = urbs[j]
        /\ \A j \in 1..N : urbs[j] = "queued" => j <= cursor
    BY <1>1, <1>2, <1>3, <1>6 DEF Queued
  <2>2. UnitsInv'
    BY <1>1, <1>2, <1>5, <1>6, <2>1 DEF UnitsInv
  <2>3. ASSUME NEW i \in 1..N
        PROVE  /\ urbs'[i] \in Disabling => shape.type # "iso"
               /\ urbs'[i] = "stall" => endpoint # "running"
               /\ shape.continuation /\ urbs'[i] \in Disabling => endpoint = "disabled"
    <3>1. urbs'[i] = urbs[i] \/ urbs'[i] = "killed"
      BY <2>1
    <3> QED
      BY <3>1 DEF EndsInv, Disabling
  <2>4. ASSUME NEW i \in 1..N, NEW j \in 1..N, i < j
        PROVE  /\ urbs'[i] = "queued" => actual[j] = 0 /\ urbs'[j] \in {"none", "queued", "killed"}
               /\ urbs'[i] \in Stopping => /\ actual[j] = 0 /\ urbs'[j] \in {"none", "queued", "killed", "nodev"}
                                           /\ urbs'[j] = "queued" => endpoint = "halted"
    <3>1. CASE i = cursor
      <4>1. urbs[i] = "queued" /\ urbs'[j] = urbs[j] /\ urbs[j] # "queued"
        BY <1>6, <2>1, <2>4, <3>1, <1>1
      <4> QED
        BY <4>1, <2>4 DEF EndsInv
    <3>2. CASE i # cursor
      <4>1. urbs'[i] = urbs[i] /\ (urbs'[j] = urbs[j] \/ urbs'[j] = "killed")
        BY <2>1, <3>2
      <4> QED
        BY <4>1, <2>4 DEF EndsInv
    <3> QED
      BY <3>1, <3>2
  <2>5. EndsInv'
    BY <1>2, <1>4, <1>5, <2>3, <2>4 DEF EndsInv
  <2> QED
    BY <2>2, <2>5
<1>7. CASE urbs[cursor] # "queued"
  BY <1>2, <1>4, <1>7, EndsSame
<1> QED
  BY <1>6, <1>7

LEMMA UnitEnds ==
  ASSUME UrbsInv, UnitsInv, EndsInv, NEW i \in 1..MaxUrbs, TransferUnit(i)
  PROVE  UnitsInv' /\ EndsInv'
<1>1. /\ Serves(i) /\ shape.type # "iso" /\ actual[i] < Capacity
      /\ actual' = [actual EXCEPT ![i] = @ + 1]
      /\ UNCHANGED <<urbs, endpoint, shape, at, cursor>>
  BY DEF TransferUnit, KernelLeaves, queueVars, threadVars
<1>2. /\ i \in 1..N /\ urbs[i] = "queued" /\ endpoint = "running"
      /\ \A j \in 1..N : j < i => urbs[j] # "queued"
      /\ N \in Nat \ {0} /\ Capacity \in Nat \ {0} /\ 1..N \subseteq 1..MaxUrbs
  BY <1>1, ServedIs
<1>3. N' = N /\ Capacity' = Capacity
  BY <1>1 DEF N, Capacity
<1>4. /\ actual'[i] = actual[i] + 1 /\ actual[i] \in Nat
      /\ \A j \in 1..N : j # i => actual'[j] = actual[j]
      /\ actual' \in [1..MaxUrbs -> Nat]
  BY <1>1, <1>2 DEF UnitsInv
<1>5. UnitsInv'
  <2>1. ASSUME NEW j \in 1..N
        PROVE  /\ actual'[j] <= Capacity
               /\ shape.type = "iso" => actual'[j] = 0
               /\ urbs[j] = "none" => actual'[j] = 0
               /\ urbs[j] = "ok" => shape.type = "iso" \/ actual'[j] = Capacity
               /\ urbs[j] = "short" => shape.in /\ actual'[j] < Capacity
    <3>1. CASE j = i
      BY <1>1, <1>2, <1>4, <3>1
    <3>2. CASE j # i
      BY <1>4, <3>2 DEF UnitsInv
    <3> QED
      BY <3>1, <3>2
  <2> QED
    BY <1>1, <1>3, <1>4, <2>1 DEF UnitsInv
<1>6. ASSUME NEW k \in 1..N, NEW j \in 1..N, k < j
      PROVE  /\ urbs[k] = "queued" => actual'[j] = 0
             /\ urbs[k] \in Stopping => actual'[j] = 0
  <2>1. CASE j = i
    BY <1>2, <1>6, <2>1 DEF EndsInv
  <2>2. CASE j # i
    BY <1>4, <1>6, <2>2 DEF EndsInv
  <2> QED
    BY <2>1, <2>2
<1>7. FirstBadShort => FirstBadShort'
  BY <1>1, <1>3 DEF FirstBadShort
<1>8. EndsInv'
  BY <1>1, <1>3, <1>6, <1>7 DEF EndsInv
<1> QED
  BY <1>5, <1>8

LEMMA EndEnds ==
  ASSUME UrbsInv, UnitsInv, EndsInv, NEW i \in 1..MaxUrbs, NEW how \in Ends \ {"nodev", "killed"}, End(i, how),
         how = "ok" => shape.type = "iso" \/ actual[i] = Capacity,
         how = "short" => shape.in /\ actual[i] < Capacity,
         how # "ok" => shape.type # "iso",
         how = "overflow" => i = N,
         shape.continuation /\ at["user"] = "submit" => how \in {"ok", "short"}
  PROVE  UnitsInv' /\ EndsInv'
<1> DEFINE kills == shape.continuation /\ how # "ok"
           others == IF kills THEN Queued \ {i} ELSE {}
<1>1. /\ Serves(i)
      /\ urbs' = [j \in 1..MaxUrbs |-> IF j = i THEN how
                                       ELSE IF j \in others THEN "killed" ELSE urbs[j]]
      /\ endpoint' = IF kills THEN "disabled" ELSE IF how = "stall" THEN "halted" ELSE endpoint
      /\ UNCHANGED <<shape, actual, at, cursor>>
  BY DEF End, KernelLeaves, dataVars, threadVars
<1>2. /\ i \in 1..N /\ urbs[i] = "queued" /\ endpoint = "running" /\ device = "there"
      /\ \A j \in 1..N : j < i => urbs[j] # "queued"
      /\ N \in Nat \ {0} /\ Capacity \in Nat \ {0} /\ 1..N \subseteq 1..MaxUrbs
  BY <1>1, ServedIs
<1>3. N' = N /\ Capacity' = Capacity
  BY <1>1 DEF N, Capacity
<1>4. /\ urbs'[i] = how
      /\ \A j \in 1..N : j # i /\ ~(kills /\ urbs[j] = "queued") => urbs'[j] = urbs[j]
      /\ \A j \in 1..N : j # i /\ kills /\ urbs[j] = "queued" => urbs'[j] = "killed"
  BY <1>1, <1>2 DEF Queued
<1>5. /\ how \in {"ok", "short", "stall", "overflow", "error"}
      /\ endpoint' \in {"running", "halted", "disabled"} /\ endpoint' = "disabled" <=> kills
      /\ how = "stall" => endpoint' # "running"
      /\ ~kills /\ how = "stall" => endpoint' = "halted"
  BY <1>1, <1>2 DEF Ends
<1> HIDE DEF kills, others
<1>6. /\ \A j \in 1..N : urbs[j] # "stall" /\ ~(shape.continuation /\ urbs[j] \in Disabling)
      /\ at["user"] = "submit" => \A j \in 1..N : urbs[j] # "killed"
      /\ \A k, j \in 1..N : k < j /\ urbs[k] \in Stopping => urbs[j] # "queued"
  BY <1>2 DEF EndsInv
<1>7. UnitsInv'
  <2>1. ASSUME NEW j \in 1..N
        PROVE  /\ urbs'[j] = "none" => urbs[j] = "none"
               /\ urbs'[j] = "ok" => shape.type = "iso" \/ actual[j] = Capacity
               /\ urbs'[j] = "short" => shape.in /\ actual[j] < Capacity
    <3>1. urbs'[j] \in {urbs[j], "killed"} \/ j = i
      BY <1>4
    <3> QED
      BY <1>4, <1>5, <3>1 DEF UnitsInv
  <2>2. \A j \in 1..N : urbs[j] = "none" => urbs'[j] = "none"
    BY <1>2, <1>4
  <2> QED
    BY <1>1, <1>3, <2>1, <2>2 DEF UnitsInv
<1>8. ASSUME NEW j \in 1..N
      PROVE  /\ urbs'[j] \in Disabling => shape.type # "iso"
             /\ urbs'[j] = "stall" => endpoint' # "running"
             /\ shape.continuation /\ urbs'[j] \in Disabling => endpoint' = "disabled"
             /\ at["user"] = "submit" /\ urbs'[j] = "killed" => endpoint' = "disabled"
             /\ at["user"] = "submit" => (urbs'[j] = "none" <=> j >= cursor)
  <2>1. CASE j = i
    <3>1. at["user"] = "submit" => (urbs[i] = "none" <=> i >= cursor)
      BY <1>2 DEF EndsInv
    <3> QED
      BY <1>2, <1>4, <1>5, <2>1, <3>1 DEF Disabling, kills
  <2>2. CASE j # i /\ kills /\ urbs[j] = "queued"
    <3>1. urbs'[j] = "killed" /\ endpoint' = "disabled"
      BY <1>4, <1>5, <2>2
    <3> QED
      BY <2>2, <3>1 DEF EndsInv, Disabling
  <2>3. CASE j # i /\ ~(kills /\ urbs[j] = "queued")
    <3>1. urbs'[j] = urbs[j]
      BY <1>4, <2>3
    <3> QED
      BY <1>6, <3>1 DEF EndsInv
  <2> QED
    BY <2>1, <2>2, <2>3
<1>9. ASSUME NEW k \in 1..N, NEW j \in 1..N, k < j
      PROVE  /\ urbs'[k] = "queued" => actual[j] = 0 /\ urbs'[j] \in {"none", "queued", "killed"}
             /\ urbs'[k] \in Stopping => /\ actual[j] = 0 /\ urbs'[j] \in {"none", "queued", "killed", "nodev"}
                                         /\ urbs'[j] = "queued" => endpoint' = "halted"
  <2>1. CASE urbs[k] = "queued"
    <3>1. ~(j < i) /\ j # i
      BY <1>2, <1>9, <2>1
    <3>2. actual[j] = 0 /\ urbs[j] \in {"none", "queued", "killed"}
      BY <1>9, <2>1 DEF EndsInv
    <3>3. urbs'[j] \in {"none", "queued", "killed"} /\ (kills => urbs'[j] # "queued")
      BY <1>4, <3>1, <3>2
    <3>4. CASE k = i
      <4>1. how = "overflow" => FALSE
        BY <1>2, <1>9, <3>4
      <4> QED
        BY <1>4, <1>5, <3>2, <3>3, <3>4, <4>1 DEF Stopping
    <3>5. CASE k # i
      <4>1. urbs'[k] = "queued" \/ (kills /\ urbs'[k] = "killed")
        BY <1>4, <2>1, <3>5
      <4> QED
        BY <3>2, <3>3, <4>1 DEF Stopping
    <3> QED
      BY <3>4, <3>5
  <2>2. CASE urbs[k] # "queued"
    <3>1. urbs'[k] = urbs[k]
      BY <1>2, <1>4, <2>2
    <3>2. urbs[k] \in Stopping => actual[j] = 0 /\ urbs[j] \in {"none", "killed", "nodev"}
      BY <1>6, <1>9 DEF EndsInv
    <3>3. urbs[k] \in Stopping => urbs'[j] = urbs[j]
      BY <1>2, <1>4, <3>2
    <3> QED
      BY <2>2, <3>1, <3>2, <3>3
  <2> QED
    BY <2>1, <2>2
<1>10. ASSUME at["user"] = "submit", endpoint' = "disabled"
       PROVE  FirstBadShort'
  <2>1. kills /\ how = "short"
    BY <1>5, <1>10 DEF kills
  <2>2. ASSUME NEW j \in 1..N, j < i PROVE urbs'[j] = "ok"
    <3>1. urbs[j] \in {"none", "queued"} \union Ends /\ urbs[j] # "queued"
      BY <1>2, <2>2 DEF UrbsInv, QueueInv
    <3>2. urbs[j] # "none"
      BY <1>2, <2>2 DEF UnitsInv
    <3>3. urbs[j] \notin Disabling /\ urbs[j] \notin Stopping
      BY <1>2, <1>6, <2>1, <2>2 DEF kills
    <3>4. urbs[j] = "ok"
      BY <3>1, <3>2, <3>3 DEF Ends, Disabling, Stopping
    <3> QED
      BY <1>2, <1>4, <2>2, <3>4
  <2>3. urbs'[i] = "short"
    BY <1>4, <2>1
  <2> QED
    BY <1>2, <1>3, <2>2, <2>3 DEF FirstBadShort
<1>11. EndsInv'
  BY <1>1, <1>3, <1>5, <1>8, <1>9, <1>10 DEF EndsInv
<1> QED
  BY <1>7, <1>11

LEMMA VanishEnds ==
  ASSUME UrbsInv, UnitsInv, EndsInv, Vanish
  PROVE  UnitsInv' /\ EndsInv'
<1>1. /\ urbs' = [j \in 1..MaxUrbs |-> IF j \in Queued THEN "nodev" ELSE urbs[j]]
      /\ UNCHANGED <<shape, actual, at, cursor, endpoint>>
  BY DEF Vanish, KernelLeaves, dataVars, threadVars
<1>2. N \in Nat \ {0} /\ Capacity \in Nat \ {0} /\ 1..N \subseteq 1..MaxUrbs
  BY ShapeIs DEF UrbsInv, LifeInv
<1>3. N' = N /\ Capacity' = Capacity
  BY <1>1 DEF N, Capacity
<1>4. /\ \A j \in 1..N : urbs[j] = "queued" => urbs'[j] = "nodev"
      /\ \A j \in 1..N : urbs[j] # "queued" => urbs'[j] = urbs[j]
  BY <1>1, <1>2 DEF Queued
<1>5. UnitsInv'
  BY <1>1, <1>2, <1>3, <1>4 DEF UnitsInv
<1>6. ASSUME NEW i \in 1..N
      PROVE  /\ urbs'[i] \in Disabling => shape.type # "iso"
             /\ urbs'[i] = "stall" => endpoint # "running"
             /\ shape.continuation /\ urbs'[i] \in Disabling => endpoint = "disabled"
             /\ at["user"] = "submit" /\ urbs'[i] = "killed" => endpoint = "disabled"
             /\ at["user"] = "submit" => (urbs'[i] = "none" <=> i >= cursor)
  <2>1. CASE urbs[i] = "queued"
    <3>1. urbs'[i] = "nodev" /\ (at["user"] = "submit" => (urbs[i] = "none" <=> i >= cursor))
      BY <1>4, <2>1 DEF EndsInv
    <3> QED
      BY <2>1, <3>1 DEF Disabling
  <2>2. CASE urbs[i] # "queued"
    BY <1>4, <2>2 DEF EndsInv
  <2> QED
    BY <2>1, <2>2
<1>7. ASSUME NEW i \in 1..N, NEW j \in 1..N, i < j
      PROVE  /\ urbs'[i] # "queued"
             /\ urbs'[i] \in Stopping => actual[j] = 0 /\ urbs'[j] \in {"none", "killed", "nodev"}
  <2>1. urbs'[i] # "queued" /\ urbs'[j] # "queued"
    BY <1>4
  <2>2. CASE urbs[i] = "queued" \/ urbs[i] \in Stopping
    <3>1. actual[j] = 0 /\ urbs[j] \in {"none", "queued", "killed", "nodev"}
      BY <1>7, <2>2 DEF EndsInv
    <3> QED
      BY <1>4, <2>1, <3>1
  <2>3. CASE ~(urbs[i] = "queued" \/ urbs[i] \in Stopping)
    BY <1>4, <2>1, <2>3
  <2> QED
    BY <2>2, <2>3
<1>8. FirstBadShort => FirstBadShort'
  BY <1>1, <1>3, <1>4 DEF FirstBadShort
<1>9. EndsInv'
  BY <1>1, <1>3, <1>6, <1>7, <1>8 DEF EndsInv
<1> QED
  BY <1>5, <1>9

(* Submission starts with no URB.                                          *)
LEMMA SubmitStarts ==
  ASSUME UrbsInv, NEW s \in Shapes, NEW by \in {"none", "waiting"}, Submit(s, by)
  PROVE  /\ N' \in Nat \ {0} /\ Capacity' \in Nat \ {0} /\ 1..N' \subseteq 1..MaxUrbs
         /\ \A i \in 1..N' : urbs'[i] = "none" /\ actual'[i] = 0
         /\ actual' \in [1..MaxUrbs -> Nat] /\ at'["user"] = "submit" /\ cursor' = 1
         /\ at'["handler"] \notin {"discard", "report"}
         /\ endpoint' = "running" /\ reapable' = <<>> /\ holding' = 0 /\ bus' = <<>>
         /\ transferred' = 0 /\ retired' = 0 /\ action' = "NORMAL" /\ reapStatus' = "completed"
         /\ filled' = <<>> /\ shape' \in Shapes
<1>1. /\ at["user"] = "idle" /\ life = "idle" /\ xlock = "none" /\ shape' = s /\ cursor' = 1
      /\ at' = [at EXCEPT !["user"] = "submit"] /\ endpoint' = "running" /\ bus' = <<>>
      /\ urbs' = [i \in 1..MaxUrbs |-> "none"] /\ actual' = [i \in 1..MaxUrbs |-> 0]
      /\ transferred' = 0 /\ retired' = 0 /\ action' = "NORMAL" /\ reapStatus' = "completed"
      /\ filled' = <<>> /\ UNCHANGED <<reapable, holding>>
  BY DEF Submit, Goto
<1>2. s.urbs \in Nat \ {0} /\ s.urbs <= MaxUrbs /\ MaxUrbs \in Nat /\ s.size \in Nat \ {0}
  BY ShapeIs, ShapesAssumption DEF UrbsInv, LifeInv
<1>3. N' = s.urbs /\ Capacity' = s.size
  BY <1>1 DEF N, Capacity
<1>4. ~allocated /\ at["handler"] \notin {"discard", "report"}
  BY <1>1 DEF UrbsInv, LifeInv, LockInv
<1>5. reapable = <<>> /\ holding = 0
  BY <1>4 DEF UrbsInv, UrbsOwned
<1>6. at'["user"] = "submit" /\ at'["handler"] = at["handler"]
  BY <1>1 DEF UrbsInv, LockInv, UrbThreads
<1>7. 1..N' \subseteq 1..MaxUrbs
  BY <1>2, <1>3
<1> QED
  BY <1>1, <1>2, <1>3, <1>4, <1>5, <1>6, <1>7

LEMMA SubmitEnds ==
  ASSUME UrbsInv, NEW s \in Shapes, NEW by \in {"none", "waiting"}, Submit(s, by)
  PROVE  UnitsInv' /\ EndsInv'
<1>1. /\ N' \in Nat \ {0} /\ Capacity' \in Nat \ {0}
      /\ \A i \in 1..N' : urbs'[i] = "none" /\ actual'[i] = 0
      /\ actual' \in [1..MaxUrbs -> Nat] /\ cursor' = 1 /\ endpoint' = "running"
  BY SubmitStarts
<1>2. UnitsInv'
  BY <1>1 DEF UnitsInv
<1>3. EndsInv'
  BY <1>1 DEF EndsInv, Disabling, Stopping
<1> QED
  BY <1>2, <1>3

NoEarlyError == "early_error" \notin UrbFaults

(* The end of a URB, with what its kind says.                              *)
LEMMA EndsAre ==
  ASSUME UrbsInv, NEW i \in 1..MaxUrbs, CompleteUrb(i) \/ ShortUrb(i) \/ FailUrb(i),
         NoEarlyError
  PROVE  \E how \in Ends \ {"nodev", "killed"} :
           /\ End(i, how)
           /\ how = "ok" => shape.type = "iso" \/ actual[i] = Capacity
           /\ how = "short" => shape.in /\ actual[i] < Capacity
           /\ how # "ok" => shape.type # "iso"
           /\ how = "overflow" => i = N
           /\ shape.continuation /\ at["user"] = "submit" => how \in {"ok", "short"}
<1>1. CASE CompleteUrb(i)
  BY <1>1 DEF CompleteUrb, Ends
<1>2. CASE ShortUrb(i)
  BY <1>2 DEF ShortUrb, Ends
<1>3. CASE FailUrb(i)
  <2>1. PICK how \in {"error", "stall", "overflow"} : End(i, how) /\ (how = "overflow" => i = N)
    BY <1>3 DEF FailUrb
  <2>2. shape.type # "iso" /\ ~(shape.continuation /\ at["user"] = "submit")
    BY <1>3 DEF FailUrb, NoEarlyError
  <2>3. how \in Ends \ {"nodev", "killed"}
    BY DEF Ends
  <2> QED
    BY <2>1, <2>2, <2>3
<1> QED
  BY <1>1, <1>2, <1>3

(* Steps that leave the URBs, their data and the queue as they are.        *)
LEMMA EndsStep ==
  ASSUME UrbsInv, UnitsInv, EndsInv, [UrbsNext]_urbVars, NoEarlyError
  PROVE  UnitsInv' /\ EndsInv'
<1> USE DEF Goto, threadVars, transferVars, queueVars, dataVars, programVars
<1>1. /\ at \in [UrbThreads -> {"idle", "submit", "discard", "reaped", "report", "wait", "rewait"}]
      /\ xlock = "none" => at["user"] # "submit"
      /\ life = "flying" => at["user"] # "submit"
  BY DEF UrbsInv, LockInv, LifeInv
<1>2. CASE RefuseFirst \/ RefuseNeedless \/ RefuseLater \/ SyncReturns
  <2>1. UNCHANGED <<urbs, actual, endpoint, shape>> /\ at'["user"] # "submit"
    BY <1>1, <1>2 DEF RefuseFirst, RefuseNeedless, RefuseLater, SyncReturns, Leave, DiscardUrbs, UrbThreads
  <2> QED
    BY <2>1, EndsSame
<1>3. CASE UserSteps
  BY <1>2, <1>3, AcceptEnds, DiscardEnds DEF UserSteps, UrbThreads
<1>4. CASE Reap \/ Report \/ Disconnect
  <2>1. UNCHANGED <<urbs, actual, endpoint, shape, cursor>> /\ at'["user"] = at["user"]
    BY <1>1, <1>4 DEF Reap, Report, Disconnect, UrbThreads
  <2> QED
    BY <2>1, EndsSame
<1>5. CASE HandleBulkAbnormal \/ HandleBulkNormal \/ HandleIso \/ HandleControl
  <2>1. xlock = "none" /\ UNCHANGED <<urbs, actual, endpoint, shape>>
    BY <1>5 DEF HandleBulkAbnormal, HandleBulkNormal, HandleIso, HandleControl, Handles
  <2>2. \E where \in {"report", "idle", "discard"} : at' = [at EXCEPT !["handler"] = where]
    <3>1. CASE HandleBulkAbnormal
      BY <3>1 DEF HandleBulkAbnormal, Complete, Retain
    <3>2. CASE HandleBulkNormal
      BY <3>2 DEF HandleBulkNormal, Complete, Retain, DiscardUrbs
    <3>3. CASE HandleIso
      <4>1. \/ \E how \in {"no_device", "completed", "cancelled", "error"} : Complete(how)
            \/ Retain("idle")
        BY <3>3 DEF HandleIso
      <4> QED
        BY <4>1 DEF Complete, Retain
    <3>4. CASE HandleControl
      BY <3>4 DEF HandleControl, Complete
    <3> QED
      BY <1>5, <3>1, <3>2, <3>3, <3>4
  <2>3. at'["user"] # "submit"
    BY <1>1, <2>1, <2>2 DEF UrbThreads
  <2> QED
    BY <2>1, <2>3, EndsSame
<1>6. CASE HandlerSteps
  BY <1>4, <1>5, <1>6, DiscardEnds DEF HandlerSteps, UrbThreads
<1>7. CASE CancelByProgram \/ CancelByTimeout \/ WaitFails \/ RewaitFails
  <2>1. UNCHANGED <<urbs, actual, endpoint, shape>> /\ at'["user"] # "submit"
    BY <1>1, <1>7 DEF CancelByProgram, CancelByTimeout, Cancel, WaitFails, RewaitFails, DiscardUrbs, UrbThreads
  <2> QED
    BY <2>1, EndsSame
<1>8. CASE ProgramSteps
  BY <1>7, <1>8, SubmitEnds DEF ProgramSteps
<1>9. CASE KernelSteps
  BY <1>9, UnitEnds, EndEnds, EndsAre, VanishEnds DEF KernelSteps
<1>10. CASE UNCHANGED urbVars
  BY <1>10, EndsSame DEF urbVars
<1> QED
  BY <1>3, <1>6, <1>8, <1>9, <1>10 DEF UrbsNext

-----------------------------------------------------------------------------
(* URBs that moved data are reaped in their order.                         *)
Ordered(s) ==
  \A p, q \in 1..Len(s) : p < q /\ actual[s[p]] > 0 /\ actual[s[q]] > 0 => s[p] < s[q]

OrderInv ==
  /\ Ordered(reapable)
  /\ holding # 0 /\ actual[holding] > 0 =>
       \A q \in 1..Len(reapable) : actual[reapable[q]] > 0 => holding < reapable[q]

LEMMA ReapableAre ==
  ASSUME UrbsInv, UnitsInv
  PROVE  /\ reapable \in Seq(1..N) /\ Len(reapable) \in Nat /\ 1..N \subseteq 1..MaxUrbs
         /\ \A q \in 1..Len(reapable) : /\ reapable[q] \in 1..N /\ urbs[reapable[q]] \in Ends
                                        /\ actual[reapable[q]] \in Nat
         /\ holding # 0 => holding \in 1..N /\ urbs[holding] \in Ends /\ actual[holding] \in Nat
         /\ N \in Nat \ {0}
<1>1. N \in Nat \ {0} /\ 1..N \subseteq 1..MaxUrbs
  BY ShapeIs DEF UrbsInv, LifeInv
<1>2. reapable \in Seq(1..N) /\ Len(reapable) \in Nat /\ holding \in 0..N
  BY LenProperties DEF UrbsInv, QueueInv
<1>3. \A q \in 1..Len(reapable) : reapable[q] \in 1..N
  BY <1>2, ElementOfSeq
<1>4. \A j \in 1..N : actual[j] \in Nat
  BY <1>1 DEF UnitsInv
<1>5. holding # 0 => holding \in 1..N
  BY <1>1, <1>2
<1>6. /\ \A q \in 1..Len(reapable) : urbs[reapable[q]] \in Ends
      /\ holding # 0 => urbs[holding] \in Ends
  BY DEF UrbsInv, QueueInv
<1> QED
  BY <1>1, <1>2, <1>3, <1>4, <1>5, <1>6

LEMMA OrderSame ==
  ASSUME OrderInv, UNCHANGED <<actual, reapable, holding>>
  PROVE  OrderInv'
BY DEF OrderInv, Ordered

(* URBs leave the queue to be reaped, in their order.                      *)
Depart(s) ==
  /\ s \in Seq(1..N) /\ reapable' = reapable \o s
  /\ \A q \in 1..Len(s) : urbs[s[q]] = "queued"
  /\ \A p, q \in 1..Len(s) : p < q => s[p] < s[q]
  /\ \A j \in 1..N : urbs'[j] = "queued" <=> urbs[j] = "queued" /\ \A q \in 1..Len(s) : s[q] # j
  /\ UNCHANGED <<shape, actual, holding>>

(* The lowest that moved data, if one of them did, comes behind those that *)
(* were reapable before.                                                   *)
LEMMA DepartOrdered ==
  ASSUME UrbsInv, UnitsInv, EndsInv, OrderInv, NEW s, Depart(s)
  PROVE  OrderInv'
<1> USE DEF Depart
<1>1. /\ reapable \in Seq(1..N) /\ Len(reapable) \in Nat /\ 1..N \subseteq 1..MaxUrbs
      /\ \A q \in 1..Len(reapable) : /\ reapable[q] \in 1..N /\ urbs[reapable[q]] \in Ends
                                     /\ actual[reapable[q]] \in Nat
      /\ holding # 0 => holding \in 1..N /\ urbs[holding] \in Ends /\ actual[holding] \in Nat
      /\ N \in Nat \ {0}
  BY ReapableAre
<1>2. Len(s) \in Nat /\ \A q \in 1..Len(s) : s[q] \in 1..N /\ actual[s[q]] \in Nat
  <2>1. Len(s) \in Nat /\ \A q \in 1..Len(s) : s[q] \in 1..N
    BY LenProperties, ElementOfSeq
  <2> QED
    BY <1>1, <2>1 DEF UnitsInv
<1>3. /\ Len(reapable') = Len(reapable) + Len(s)
      /\ \A q \in 1..(Len(reapable) + Len(s)) :
           reapable'[q] = IF q <= Len(reapable) THEN reapable[q] ELSE s[q - Len(reapable)]
  BY <1>1, ConcatProperties
<1>4. ASSUME NEW i \in 1..N, urbs[i] \in Ends, actual[i] > 0, NEW q \in 1..Len(s)
      PROVE  i < s[q]
  <2>1. "queued" \notin Ends
    BY DEF Ends
  <2>2. s[q] # i
    BY <1>2, <1>4, <2>1
  <2>3. ~(s[q] < i)
    <3>1. s[q] \in 1..N /\ urbs[s[q]] = "queued"
      BY <1>2
    <3> QED
      BY <1>4, <3>1 DEF EndsInv
  <2> QED
    BY <1>2, <1>4, <2>2, <2>3
<1>5. ASSUME NEW p \in 1..Len(reapable'), NEW q \in 1..Len(reapable'), p < q,
             actual[reapable'[p]] > 0, actual[reapable'[q]] > 0
      PROVE  reapable'[p] < reapable'[q]
  <2>1. CASE q <= Len(reapable)
    <3>1. p \in 1..Len(reapable) /\ q \in 1..Len(reapable)
      BY <1>1, <1>2, <1>3, <1>5, <2>1
    <3>2. reapable'[p] = reapable[p] /\ reapable'[q] = reapable[q]
      BY <1>1, <1>2, <1>3, <3>1
    <3> QED
      BY <1>5, <3>1, <3>2 DEF OrderInv, Ordered
  <2>2. CASE ~(q <= Len(reapable)) /\ p <= Len(reapable)
    <3>1. p \in 1..Len(reapable) /\ q - Len(reapable) \in 1..Len(s)
      BY <1>1, <1>2, <1>3, <2>2
    <3>2. reapable'[p] = reapable[p] /\ reapable'[q] = s[q - Len(reapable)]
      BY <1>1, <1>2, <1>3, <2>2, <3>1
    <3> QED
      BY <1>1, <1>4, <1>5, <3>1, <3>2
  <2>3. CASE ~(q <= Len(reapable)) /\ ~(p <= Len(reapable))
    <3>1. /\ p - Len(reapable) \in 1..Len(s) /\ q - Len(reapable) \in 1..Len(s)
          /\ p - Len(reapable) < q - Len(reapable)
      BY <1>1, <1>2, <1>3, <1>5, <2>3
    <3>2. reapable'[p] = s[p - Len(reapable)] /\ reapable'[q] = s[q - Len(reapable)]
      BY <1>1, <1>2, <1>3, <2>3, <3>1
    <3>3. s[p - Len(reapable)] < s[q - Len(reapable)]
      BY <3>1
    <3> QED
      BY <3>2, <3>3
  <2> QED
    BY <2>1, <2>2, <2>3
<1>6. ASSUME holding # 0, actual[holding] > 0, NEW q \in 1..Len(reapable'), actual[reapable'[q]] > 0
      PROVE  holding < reapable'[q]
  <2>1. CASE q <= Len(reapable)
    <3>1. q \in 1..Len(reapable) /\ reapable'[q] = reapable[q]
      BY <1>1, <1>2, <1>3, <2>1
    <3> QED
      BY <1>6, <3>1 DEF OrderInv
  <2>2. CASE ~(q <= Len(reapable))
    <3>1. q - Len(reapable) \in 1..Len(s) /\ reapable'[q] = s[q - Len(reapable)]
      BY <1>1, <1>2, <1>3, <2>2
    <3> QED
      BY <1>1, <1>4, <1>6, <3>1
  <2> QED
    BY <2>1, <2>2
<1> QED
  BY <1>5, <1>6 DEF OrderInv, Ordered

(* URBs that the kernel has, that wait to be reaped, or that are handled.  *)
Waiting(i) == urbs[i] = "queued" \/ (\E q \in 1..Len(reapable) : reapable[q] = i) \/ i = holding

LEMMA DepartWait ==
  ASSUME UrbsInv, NEW s, Depart(s), NEW i \in 1..N
  PROVE  Waiting(i)' <=> Waiting(i)
<1> USE DEF Depart
<1>1. reapable \in Seq(1..N) /\ Len(reapable) \in Nat /\ Len(s) \in Nat
  BY LenProperties DEF UrbsInv, QueueInv
<1>2. /\ Len(reapable') = Len(reapable) + Len(s)
      /\ \A q \in 1..(Len(reapable) + Len(s)) :
           reapable'[q] = IF q <= Len(reapable) THEN reapable[q] ELSE s[q - Len(reapable)]
  BY <1>1, ConcatProperties
<1>3. ASSUME NEW q \in 1..Len(reapable), reapable[q] = i PROVE Waiting(i)'
  <2>1. q \in 1..Len(reapable') /\ reapable'[q] = i
    BY <1>1, <1>2, <1>3
  <2> QED
    BY <2>1 DEF Waiting
<1>4. ASSUME NEW q \in 1..Len(s), s[q] = i PROVE Waiting(i)' /\ Waiting(i)
  <2>1. /\ Len(reapable) + q \in 1..(Len(reapable) + Len(s))
        /\ ~(Len(reapable) + q <= Len(reapable)) /\ (Len(reapable) + q) - Len(reapable) = q
    BY <1>1
  <2>2. Len(reapable) + q \in 1..Len(reapable') /\ reapable'[Len(reapable) + q] = i
    BY <1>2, <1>4, <2>1
  <2> QED
    BY <1>4, <2>2 DEF Waiting
<1>5. ASSUME NEW q \in 1..Len(reapable'), reapable'[q] = i PROVE Waiting(i)
  <2>1. CASE q <= Len(reapable)
    <3>1. q \in 1..Len(reapable) /\ reapable[q] = i
      BY <1>1, <1>2, <1>5, <2>1
    <3> QED
      BY <3>1 DEF Waiting
  <2>2. CASE ~(q <= Len(reapable))
    <3>1. q - Len(reapable) \in 1..Len(s) /\ s[q - Len(reapable)] = i
      BY <1>1, <1>2, <1>5, <2>2
    <3> QED
      BY <1>4, <3>1
  <2> QED
    BY <2>1, <2>2
<1> QED
  BY <1>3, <1>4, <1>5 DEF Waiting

LEMMA DiscardDeparts ==
  ASSUME UrbsInv, NEW t \in UrbThreads, DiscardUrb(t)
  PROVE  \E s : Depart(s)
<1>1. /\ at[t] = "discard" /\ UNCHANGED <<shape, actual, holding>>
      /\ urbs' = IF urbs[cursor] = "queued" THEN [urbs EXCEPT ![cursor] = "killed"] ELSE urbs
      /\ reapable' = IF urbs[cursor] = "queued" THEN Append(reapable, cursor) ELSE reapable
  BY DEF DiscardUrb, dataVars
<1>2. /\ cursor \in 1..N /\ reapable \in Seq(1..N) /\ 1..N \subseteq 1..MaxUrbs
      /\ urbs \in [1..MaxUrbs -> {"none", "queued"} \union Ends]
  <2>1. last \in 1..N /\ cursor \in last..N
    BY <1>1 DEF UrbsInv, LoopInv
  <2>2. N \in Nat /\ 1..N \subseteq 1..MaxUrbs
    BY ShapeIs DEF UrbsInv, LifeInv
  <2> QED
    BY <2>1, <2>2 DEF UrbsInv, QueueInv
<1>3. CASE urbs[cursor] = "queued"
  <2> DEFINE s == <<cursor>>
  <2>1. s \in Seq(1..N) /\ Len(s) = 1 /\ s[1] = cursor
    BY <1>2
  <2>2. reapable' = reapable \o s
    BY <1>1, <1>2, <1>3
  <2>3. \A j \in 1..N : urbs'[j] = "queued" <=> urbs[j] = "queued" /\ cursor # j
    BY <1>1, <1>2, <1>3
  <2> HIDE DEF s
  <2>4. /\ \A q \in 1..Len(s) : urbs[s[q]] = "queued"
        /\ \A p, q \in 1..Len(s) : p < q => s[p] < s[q]
        /\ \A j \in 1..N : (\A q \in 1..Len(s) : s[q] # j) <=> cursor # j
    BY <1>3, <2>1
  <2>5. Depart(s)
    BY <1>1, <2>1, <2>2, <2>3, <2>4 DEF Depart
  <2> QED
    BY <2>5
<1>4. CASE urbs[cursor] # "queued"
  <2> DEFINE s == <<>>
  <2>1. s \in Seq(1..N) /\ Len(s) = 0 /\ reapable' = reapable \o s
    BY <1>1, <1>2, <1>4
  <2> HIDE DEF s
  <2>2. Depart(s)
    BY <1>1, <1>4, <2>1 DEF Depart
  <2> QED
    BY <2>2
<1> QED
  BY <1>3, <1>4

(* The lowest n URBs of the queue.                                         *)
LEMMA LowestDepart ==
  ASSUME NEW low \in Nat, NEW n \in Nat, N \in Nat,
         \A j \in low..(low + n - 1) : j \in 1..N /\ urbs[j] = "queued",
         \A j \in 1..N : urbs'[j] = "queued" <=> urbs[j] = "queued" /\ j \notin low..(low + n - 1),
         reapable' = reapable \o [j \in 1..n |-> low + j - 1],
         UNCHANGED <<shape, actual, holding>>
  PROVE  \E s : Depart(s)
<1> DEFINE s == [j \in 1..n |-> low + j - 1]
<1>1. \A j \in 1..n : low + j - 1 \in low..(low + n - 1)
  OBVIOUS
<1>2. s \in [1..n -> 1..N]
  BY <1>1
<1>3. s \in Seq(1..N) /\ Len(s) = n /\ \A j \in 1..n : s[j] = low + j - 1
  BY <1>2, SeqOfFunction
<1>4. reapable' = reapable \o s
  OBVIOUS
<1> HIDE DEF s
<1>5. /\ \A q \in 1..Len(s) : urbs[s[q]] = "queued"
      /\ \A p, q \in 1..Len(s) : p < q => s[p] < s[q]
  BY <1>1, <1>3
<1>6. \A j \in 1..N : (\A q \in 1..Len(s) : s[q] # j) <=> j \notin low..(low + n - 1)
  <2>1. ASSUME NEW j \in low..(low + n - 1) PROVE j - low + 1 \in 1..n /\ s[j - low + 1] = j
    <3>1. j - low + 1 \in 1..n /\ low + (j - low + 1) - 1 = j
      OBVIOUS
    <3> QED
      BY <1>3, <3>1
  <2> QED
    BY <1>1, <1>3, <2>1
<1>7. Depart(s)
  BY <1>3, <1>4, <1>5, <1>6 DEF Depart
<1> QED
  BY <1>7

LEMMA EndDeparts ==
  ASSUME UrbsInv, NEW i \in 1..MaxUrbs, NEW how \in Ends, End(i, how)
  PROVE  \E s : Depart(s)
<1>1. /\ allocated /\ N \in Nat /\ 1..N \subseteq 1..MaxUrbs
      /\ UNCHANGED <<shape, actual, holding>>
  BY ServedIs DEF End, KernelLeaves, dataVars
<1> PICK low \in Nat, high \in Nat : Pipeline(low, high)
  BY <1>1 DEF UrbsInv, CountInv
<1>2. /\ urbs' = [j \in 1..MaxUrbs |-> IF j = i THEN how
                                       ELSE IF j \in Killed(i, how) THEN "killed" ELSE urbs[j]]
  BY DEF End, Killed
<1>3. EndTaken(i, how, low, high)
  BY EndTakes
<1> DEFINE n == LeavingUrbs(low, high, how)
           others == Killed(i, how)
<1>4. \A j \in low..high : j \in 1..N /\ urbs[j] = "queued"
  BY PipelineIs
<1>5. /\ i = low /\ n \in 1..(high - low + 1) /\ others = (low + 1)..(low + n - 1)
      /\ reapable' = reapable \o [j \in 1..n |-> low + j - 1]
      /\ urbs' = [j \in 1..MaxUrbs |-> IF j = i THEN how
                                       ELSE IF j \in others THEN "killed" ELSE urbs[j]]
  BY <1>2, <1>3 DEF EndTaken
<1> HIDE DEF n, others
<1>6. n \in Nat /\ \A j \in low..(low + n - 1) : j \in 1..N /\ urbs[j] = "queued"
  BY <1>4, <1>5
<1>7. \A j \in 1..N : urbs'[j] = "queued" <=> urbs[j] = "queued" /\ j \notin low..(low + n - 1)
  <2>1. how # "queued"
    BY DEF Ends
  <2> QED
    BY <1>1, <1>5, <2>1
<1> QED
  BY <1>1, <1>5, <1>6, <1>7, LowestDepart

LEMMA VanishDeparts ==
  ASSUME UrbsInv, Vanish
  PROVE  \E s : Depart(s)
<1>1. /\ urbs' = [j \in 1..MaxUrbs |-> IF j \in Queued THEN "nodev" ELSE urbs[j]]
      /\ reapable' = reapable \o Ascending(Queued)
      /\ UNCHANGED <<shape, actual, holding>>
  BY DEF Vanish, KernelLeaves, dataVars
<1>2. N \in Nat /\ 1..N \subseteq 1..MaxUrbs
  BY ShapeIs DEF UrbsInv, LifeInv
<1>3. \E low, high \in Nat : Queued = low..high /\ low <= high + 1
  <2>1. CASE allocated
    BY <2>1 DEF UrbsInv, CountInv, Pipeline
  <2>2. CASE ~allocated
    <3>1. Queued = 1..0
      BY <2>2 DEF UrbsInv, UrbsOwned
    <3> QED
      BY <3>1
  <2> QED
    BY <2>1, <2>2
<1> PICK low \in Nat, high \in Nat : Queued = low..high /\ low <= high + 1
  BY <1>3
<1> DEFINE n == high - low + 1
<1>4. n \in Nat /\ low + n - 1 = high
  OBVIOUS
<1>5. reapable' = reapable \o [j \in 1..n |-> low + j - 1]
  BY <1>1, AscendingIs
<1>6. /\ \A j \in low..(low + n - 1) : j \in 1..N /\ urbs[j] = "queued"
      /\ \A j \in 1..N : urbs'[j] = "queued" <=> urbs[j] = "queued" /\ j \notin low..(low + n - 1)
  BY <1>1, <1>2, <1>4 DEF Queued
<1> HIDE DEF n
<1> QED
  BY <1>1, <1>2, <1>4, <1>5, <1>6, LowestDepart

LEMMA NoIndices ==
  ASSUME NEW s, s = <<>>
  PROVE  1..Len(s) = {}
OBVIOUS

LEMMA ReapOrder ==
  ASSUME UrbsInv, UnitsInv, OrderInv, Reap
  PROVE  OrderInv'
<1>1. /\ reapable # <<>> /\ holding' = Head(reapable) /\ reapable' = Tail(reapable)
      /\ UNCHANGED actual
  BY DEF Reap, dataVars
<1>2. reapable \in Seq(1..N)
  BY ReapableAre
<1>3. /\ Len(reapable) \in Nat \ {0} /\ Len(reapable') = Len(reapable) - 1
      /\ holding' = reapable[1]
      /\ \A j \in 1..Len(reapable') : reapable'[j] = reapable[j + 1]
  BY <1>1, <1>2
<1>4. \A j \in 1..Len(reapable') : j + 1 \in 1..Len(reapable) /\ 1 < j + 1
  BY <1>3
<1>5. ASSUME NEW p \in 1..Len(reapable'), NEW q \in 1..Len(reapable'), p < q,
             actual[reapable'[p]] > 0, actual[reapable'[q]] > 0
      PROVE  reapable'[p] < reapable'[q]
  <2>1. /\ p + 1 \in 1..Len(reapable) /\ q + 1 \in 1..Len(reapable) /\ p + 1 < q + 1
        /\ reapable'[p] = reapable[p + 1] /\ reapable'[q] = reapable[q + 1]
    BY <1>3, <1>4, <1>5
  <2> QED
    BY <1>5, <2>1 DEF OrderInv, Ordered
<1>6. ASSUME actual[holding'] > 0, NEW q \in 1..Len(reapable'), actual[reapable'[q]] > 0
      PROVE  holding' < reapable'[q]
  <2>1. /\ 1 \in 1..Len(reapable) /\ q + 1 \in 1..Len(reapable) /\ 1 < q + 1
        /\ holding' = reapable[1] /\ reapable'[q] = reapable[q + 1]
    BY <1>3, <1>4
  <2> QED
    BY <1>6, <2>1 DEF OrderInv, Ordered
<1> QED
  BY <1>1, <1>5, <1>6 DEF OrderInv, Ordered

LEMMA UnitOrder ==
  ASSUME UrbsInv, UnitsInv, OrderInv, NEW i \in 1..MaxUrbs, TransferUnit(i)
  PROVE  OrderInv'
<1>1. /\ Serves(i) /\ actual' = [actual EXCEPT ![i] = @ + 1]
      /\ UNCHANGED <<reapable, holding>>
  BY DEF TransferUnit, KernelLeaves, queueVars
<1>2. urbs[i] = "queued" /\ 1..N \subseteq 1..MaxUrbs
  BY <1>1, ServedIs
<1>3. "queued" \notin Ends
  BY DEF Ends
<1>4. /\ \A q \in 1..Len(reapable) : reapable[q] \in 1..N /\ urbs[reapable[q]] \in Ends
      /\ holding # 0 => holding \in 1..N /\ urbs[holding] \in Ends
  BY ReapableAre
<1>5. /\ \A q \in 1..Len(reapable) : actual'[reapable[q]] = actual[reapable[q]]
      /\ holding # 0 => actual'[holding] = actual[holding]
  BY <1>1, <1>2, <1>3, <1>4 DEF UnitsInv
<1> QED
  BY <1>1, <1>5 DEF OrderInv, Ordered

(* What the handlers of all types do.                                      *)
UrbHandled == HandleBulkAbnormal \/ HandleBulkNormal \/ HandleIso \/ HandleControl

LEMMA HandledLeaves ==
  ASSUME UrbHandled
  PROVE  /\ at["handler"] = "reaped" /\ xlock = "none" /\ holding' = 0
         /\ UNCHANGED <<shape, expired, urbs, reapable, endpoint, actual, bus, device, life>>
BY DEF UrbHandled, HandleBulkAbnormal, HandleBulkNormal, HandleIso, HandleControl, Handles, queueVars,
       programVars

(* Steps that leave the URBs and their data as they are.                   *)
Aside ==
  \/ RefuseFirst \/ RefuseNeedless \/ RefuseLater \/ SyncReturns \/ Report
  \/ CancelByProgram \/ CancelByTimeout \/ WaitFails \/ RewaitFails
  \/ UNCHANGED urbVars

LEMMA AsideLeaves ==
  ASSUME Aside
  PROVE  UNCHANGED <<shape, urbs, reapable, holding, actual, bus, buffer, transferred, filled, endpoint>>
BY DEF Aside, RefuseFirst, RefuseNeedless, RefuseLater, SyncReturns, Report, CancelByProgram,
       CancelByTimeout, Cancel, WaitFails, RewaitFails, urbVars, transferVars, queueVars, dataVars

(* Steps that make URBs reapable.                                          *)
Departing ==
  \/ \E t \in UrbThreads : DiscardUrb(t)
  \/ \E i \in 1..MaxUrbs : CompleteUrb(i) \/ ShortUrb(i) \/ FailUrb(i)
  \/ Vanish

LEMMA Departs ==
  ASSUME UrbsInv, Departing, NoEarlyError
  PROVE  \E s : Depart(s)
<1>1. ASSUME NEW i \in 1..MaxUrbs, CompleteUrb(i) \/ ShortUrb(i) \/ FailUrb(i)
      PROVE  \E s : Depart(s)
  <2>1. PICK how \in Ends \ {"nodev", "killed"} : End(i, how)
    BY <1>1, EndsAre
  <2> QED
    BY <2>1, EndDeparts
<1> QED
  BY <1>1, DiscardDeparts, VanishDeparts DEF Departing

LEMMA StepIs ==
  ASSUME [UrbsNext]_urbVars
  PROVE  \/ Aside \/ AcceptUrb \/ Departing \/ Reap \/ UrbHandled \/ Disconnect
         \/ \E i \in 1..MaxUrbs : TransferUnit(i)
         \/ \E s \in Shapes, by \in {"none", "waiting"} : Submit(s, by)
BY DEF UrbsNext, UserSteps, HandlerSteps, ProgramSteps, KernelSteps, Aside, Departing, UrbHandled,
       UrbThreads

LEMMA OrderStep ==
  ASSUME UrbsInv, UnitsInv, EndsInv, OrderInv, [UrbsNext]_urbVars, NoEarlyError
  PROVE  OrderInv'
<1>1. CASE Aside
  BY <1>1, AsideLeaves, OrderSame
<1>2. CASE AcceptUrb
  BY <1>2, OrderSame DEF AcceptUrb, dataVars
<1>3. CASE Departing
  BY <1>3, Departs, DepartOrdered
<1>4. CASE UrbHandled
  BY <1>4, HandledLeaves DEF OrderInv, Ordered
<1>5. CASE Disconnect
  <2>1. reapable' = <<>> /\ holding' = 0
    BY <1>5 DEF Disconnect, UrbsInv, LifeInv
  <2>2. 1..Len(reapable') = {}
    BY <2>1, NoIndices
  <2> QED
    BY <2>1, <2>2 DEF OrderInv, Ordered
<1>6. ASSUME NEW s \in Shapes, NEW by \in {"none", "waiting"}, Submit(s, by) PROVE OrderInv'
  <2>1. reapable' = <<>> /\ holding' = 0
    BY <1>6, SubmitStarts
  <2>2. 1..Len(reapable') = {}
    BY <2>1, NoIndices
  <2> QED
    BY <2>1, <2>2 DEF OrderInv, Ordered
<1> QED
  BY <1>1, <1>2, <1>3, <1>4, <1>5, <1>6, ReapOrder, UnitOrder, StepIs

-----------------------------------------------------------------------------
(* Units, in their order.                                                  *)
LEMMA UnitsAre ==
  ASSUME shape \in Shapes
  PROVE  N * Capacity \in Nat /\ \A o \in 1..(N * Capacity) : o \in Units
<1>1. \A s \in Shapes : s.urbs \in Nat \ {0} /\ s.size \in Nat \ {0} /\ s.urbs * s.size \in Nat
  <2>1. \A s \in Shapes : s.urbs \in Nat \ {0} /\ s.size \in Nat \ {0}
    BY ShapesAssumption
  <2>2. \A m, n \in Nat : m * n \in Nat
    OBVIOUS
  <2> QED
    BY <2>1, <2>2
<1>2. PICK s \in Shapes : \A r \in Shapes : r.urbs * r.size <= s.urbs * s.size
  BY ShapesAssumption
<1> DEFINE sizes == {r.urbs * r.size : r \in Shapes}
<1>3. s.urbs * s.size \in sizes /\ sizes \in SUBSET Int /\ \A n \in sizes : s.urbs * s.size >= n
  BY <1>1, <1>2
<1>4. Max(sizes) = s.urbs * s.size
  <2> HIDE DEF sizes
  <2> QED
    BY <1>3, MaxIs
<1>5. Units = 1..(s.urbs * s.size)
  BY <1>4 DEF Units
<1>6. N * Capacity = shape.urbs * shape.size
  BY DEF N, Capacity
<1> DEFINE big == s.urbs * s.size
           mine == N * Capacity
<1>7. big \in Nat /\ mine \in Nat /\ mine <= big /\ Units = 1..big
  BY <1>1, <1>2, <1>5, <1>6
<1> HIDE DEF big, mine
<1>8. mine \in Nat /\ \A o \in 1..mine : o \in Units
  BY <1>7
<1> QED
  BY <1>8 DEF mine

(* A row of c units lies before the next one.                              *)
LEMMA RowsApart ==
  ASSUME NEW c \in Nat, NEW i \in Nat \ {0}, NEW j \in Nat, i < j
  PROVE  (i - 1) * c + c <= (j - 1) * c /\ (i - 1) * c \in Nat
<1> DEFINE d == j - i - 1
<1>1. d \in Nat /\ j - 1 = (i - 1) + 1 + d /\ i - 1 \in Nat
  OBVIOUS
<1> HIDE DEF d
<1>2. ASSUME NEW m \in Nat PROVE (m + 1 + d) * c = m * c + c + d * c /\ m * c \in Nat /\ d * c \in Nat
  BY <1>1
<1>3. (j - 1) * c = (i - 1) * c + c + d * c /\ (i - 1) * c \in Nat /\ d * c \in Nat
  BY <1>1, <1>2
<1> QED
  BY <1>3

(* b[i]: units of the URBs before the i-th.                                *)
Sums(b) ==
  /\ b \in [1..(N + 1) -> Nat] /\ b[1] = 0
  /\ \A i \in 1..N : b[i + 1] = b[i] + actual[i]
  /\ \A i, j \in 1..(N + 1) : i <= j => b[i] <= b[j]
  /\ \A i \in 1..(N + 1) : b[i] <= (i - 1) * Capacity
  /\ \A i, j \in 1..(N + 1) : i <= j /\ (\A k \in 1..N : i <= k /\ k < j => actual[k] = 0) => b[i] = b[j]
  /\ \A i \in 1..(N + 1) : (\A k \in 1..N : k < i => actual[k] = Capacity) => b[i] = (i - 1) * Capacity

(* Of the URBs that moved data, those before the h-th have been counted,   *)
(* and those from it on have not.                                          *)
Counted(h) ==
  /\ h \in 1..(N + 1)
  /\ \A i \in 1..N : actual[i] > 0 => (Waiting(i) <=> i >= h)
  /\ \A i \in 1..N : i = h - 1 => actual[i] > 0

(* Of the units received, those that are counted lie at the start of the   *)
(* buffer and the others in the parts of their URBs.                       *)
Stored(b, h) ==
  /\ Len(bus) = b[N + 1] /\ transferred = b[h]
  /\ shape.in =>
       /\ \A o \in 1..transferred : buffer[o] = o
       /\ \A i \in 1..N : Waiting(i) =>
            \A u \in 1..actual[i] : buffer[(i - 1) * Capacity + u] = b[i] + u

Underway == allocated \/ at["handler"] = "report"

Summed == \E b, h : Sums(b) /\ Counted(h) /\ Stored(b, h)

SumInv ==
  /\ bus \in Seq(Nat) /\ buffer = [o \in Units |-> buffer[o]]
  /\ Underway => Summed

LEMMA SumFrame ==
  ASSUME UrbsInv, UnitsInv, SumInv, Underway' => Underway, UNCHANGED <<shape, actual, bus, buffer, transferred>>,
         \A i \in 1..N : actual[i] > 0 => (Waiting(i)' <=> Waiting(i))
  PROVE  SumInv'
<1>1. N' = N /\ Capacity' = Capacity
  BY DEF N, Capacity
<1>2. ASSUME NEW b, NEW h, Sums(b), Counted(h), Stored(b, h)
      PROVE  Sums(b)' /\ Counted(h)' /\ Stored(b, h)'
  <2>1. Sums(b)'
    BY <1>1, <1>2 DEF Sums
  <2>2. Counted(h)'
    BY <1>1, <1>2 DEF Counted
  <2>3. ASSUME shape.in, NEW i \in 1..N, Waiting(i)', NEW u \in 1..actual[i]
        PROVE  buffer[(i - 1) * Capacity + u] = b[i] + u
    <3>1. actual[i] \in Nat
      BY ShapeIs DEF UnitsInv, UrbsInv, LifeInv
    <3>2. actual[i] > 0
      BY <3>1
    <3> QED
      BY <1>2, <2>3, <3>2 DEF Stored
  <2>4. Stored(b, h)'
    BY <1>1, <1>2, <2>3 DEF Stored
  <2> QED
    BY <2>1, <2>2, <2>4
<1>3. ASSUME Underway'
      PROVE  Summed'
  <2>1. PICK b, h : Sums(b) /\ Counted(h) /\ Stored(b, h)
    BY <1>3 DEF SumInv, Summed
  <2>2. Sums(b)' /\ Counted(h)' /\ Stored(b, h)'
    BY <1>2, <2>1
  <2> QED
    BY <2>2 DEF Summed
<1>4. bus' \in Seq(Nat) /\ buffer' = [o \in Units |-> buffer'[o]]
  BY DEF SumInv
<1> QED
  BY <1>3, <1>4 DEF SumInv

LEMMA SumFacts ==
  ASSUME UrbsInv, UnitsInv
  PROVE  /\ N \in Nat \ {0} /\ Capacity \in Nat \ {0} /\ 1..N \subseteq 1..MaxUrbs
         /\ \A i \in 1..N : actual[i] \in Nat /\ actual[i] <= Capacity
         /\ holding # 0 => holding \in 1..N
<1>1. N \in Nat \ {0} /\ Capacity \in Nat \ {0} /\ 1..N \subseteq 1..MaxUrbs
  BY ShapeIs DEF UrbsInv, LifeInv
<1>2. \A i \in 1..N : actual[i] \in Nat /\ actual[i] <= Capacity
  BY <1>1 DEF UnitsInv
<1> QED
  BY <1>1, <1>2, ReapableAre

(* The URB that is handled is the first of those not counted.              *)
LEMMA HeldIsNext ==
  ASSUME UrbsInv, UnitsInv, EndsInv, OrderInv, holding # 0, actual[holding] > 0,
         NEW h, Counted(h)
  PROVE  /\ holding \in 1..N /\ h \in 1..N /\ h <= holding
         /\ \A k \in 1..N : h <= k /\ k < holding => actual[k] = 0
         /\ \A q \in 1..Len(reapable) : reapable[q] # holding
         /\ urbs[holding] # "queued"
         /\ \A k \in 1..N : k < holding /\ actual[k] > 0 => ~Waiting(k)
<1>1. /\ N \in Nat \ {0} /\ holding \in 1..N
      /\ \A i \in 1..N : actual[i] \in Nat /\ actual[i] <= Capacity
  BY SumFacts
<1>2. h \in 1..N /\ h <= holding
  <2>1. Waiting(holding)
    BY DEF Waiting
  <2> QED
    BY <1>1, <2>1 DEF Counted
<1>3. urbs[holding] # "queued"
  BY ReapableAre DEF Ends
<1>4. \A q \in 1..Len(reapable) : reapable[q] # holding
  BY <1>1 DEF OrderInv
<1>5. ASSUME NEW k \in 1..N, k < holding, actual[k] > 0
      PROVE  ~Waiting(k)
  <2>1. urbs[k] # "queued"
    BY <1>1, <1>5 DEF EndsInv
  <2>2. \A q \in 1..Len(reapable) : reapable[q] # k
    BY <1>1, <1>5 DEF OrderInv
  <2> QED
    BY <1>1, <1>5, <2>1, <2>2 DEF Waiting
<1>6. ASSUME NEW k \in 1..N, h <= k, k < holding
      PROVE  actual[k] = 0
  <2>1. actual[k] > 0 => Waiting(k)
    BY <1>6 DEF Counted
  <2> QED
    BY <1>1, <1>5, <1>6, <2>1
<1> QED
  BY <1>1, <1>2, <1>3, <1>4, <1>5, <1>6

(* What the URB moved is added to what is counted, from where it came or   *)
(* because it lay there already.                                           *)
LEMMA HandleSum ==
  ASSUME UrbsInv, UnitsInv, EndsInv, OrderInv, SumInv, Underway,
         holding # 0, holding' = 0, UNCHANGED <<shape, urbs, reapable, actual, bus>>,
         transferred' = transferred + actual[holding],
         \/ buffer' = Closed(holding)
         \/ /\ buffer' = buffer
            /\ actual[holding] > 0 => \A k \in 1..N : k < holding => actual[k] = Capacity
  PROVE  SumInv'
<1>1. /\ N \in Nat \ {0} /\ Capacity \in Nat \ {0} /\ 1..N \subseteq 1..MaxUrbs
      /\ \A i \in 1..N : actual[i] \in Nat /\ actual[i] <= Capacity
      /\ holding \in 1..N /\ N' = N /\ Capacity' = Capacity
  BY SumFacts DEF N, Capacity
<1>2. /\ bus' \in Seq(Nat) /\ buffer' = [o \in Units |-> buffer'[o]]
      /\ buffer = [o \in Units |-> buffer[o]]
  BY DEF SumInv, Closed
<1>3. PICK b, h : Sums(b) /\ Counted(h) /\ Stored(b, h)
  BY DEF SumInv, Summed
<1>4. CASE actual[holding] = 0
  <2>1. transferred \in Nat /\ transferred' = transferred
    BY <1>1, <1>3, <1>4 DEF Sums, Counted, Stored
  <2>2. buffer' = buffer
    <3>1. Closed(holding) = [o \in Units |-> buffer[o]]
      BY <1>4, <2>1 DEF Closed, Units
    <3> QED
      BY <1>2, <3>1
  <2>3. \A i \in 1..N : actual[i] > 0 => (Waiting(i)' <=> Waiting(i))
    BY <1>1, <1>4 DEF Waiting
  <2>4. Underway' => Underway
    OBVIOUS
  <2> QED
    BY <2>1, <2>2, <2>3, <2>4, SumFrame
<1>5. CASE actual[holding] > 0
  <2> PICK p \in 1..N : p = holding
    BY <1>1
  <2> DEFINE g == p + 1
  <2>1. /\ h \in 1..N /\ h <= p
        /\ \A k \in 1..N : h <= k /\ k < p => actual[k] = 0
        /\ \A q \in 1..Len(reapable) : reapable[q] # p
        /\ urbs[p] # "queued"
        /\ \A k \in 1..N : k < p /\ actual[k] > 0 => ~Waiting(k)
    BY <1>3, <1>5, HeldIsNext
  <2>2. b[h] = b[p] /\ b[g] = b[p] + actual[p] /\ b[p] \in Nat /\ b[p] <= (p - 1) * Capacity
    BY <1>1, <1>3, <2>1, SMTT(20) DEF Sums
  <2>3. ~Waiting(p)' /\ \A k \in 1..N : k # p => (Waiting(k)' <=> Waiting(k))
    BY <1>1, <2>1 DEF Waiting
  <2>4. Sums(b)'
    BY <1>1, <1>3 DEF Sums
  <2>5. Counted(g)'
    <3>1. g \in 1..(N + 1) /\ \A i \in 1..N : i = g - 1 => actual[i] > 0
      BY <1>1, <1>5
    <3>2. ASSUME NEW i \in 1..N, actual[i] > 0
          PROVE  Waiting(i)' <=> i >= g
      <4>1. CASE i < p
        BY <1>1, <2>1, <2>3, <3>2, <4>1
      <4>2. CASE i = p
        BY <1>1, <2>3, <4>2
      <4>3. CASE i > p
        <5>1. Waiting(i) /\ i # p /\ i >= g
          BY <1>1, <1>3, <2>1, <3>2, <4>3 DEF Counted
        <5> QED
          BY <2>3, <5>1
      <4> QED
        BY <1>1, <4>1, <4>2, <4>3
    <3> QED
      BY <1>1, <3>1, <3>2 DEF Counted
  <2>6. transferred = b[p] /\ transferred' = b[g]
    BY <1>3, <2>2 DEF Stored
  <2>7. ASSUME shape.in
        PROVE  /\ \A o \in 1..(b[p] + actual[p]) : buffer'[o] = o
               /\ \A i \in 1..N : Waiting(i)' =>
                    \A u \in 1..actual[i] : buffer'[(i - 1) * Capacity + u] = b[i] + u
    <3>1. /\ \A o \in 1..b[p] : buffer[o] = o
          /\ \A i \in 1..N : Waiting(i) =>
               \A u \in 1..actual[i] : buffer[(i - 1) * Capacity + u] = b[i] + u
      BY <1>3, <2>6, <2>7 DEF Stored
    <3>2. Waiting(p)
      BY DEF Waiting
    <3>3. CASE buffer' = buffer /\ \A k \in 1..N : k < p => actual[k] = Capacity
      <4>1. b[p] = (p - 1) * Capacity
        BY <1>1, <1>3, <3>3 DEF Sums
      <4>2. ASSUME NEW o \in 1..(b[p] + actual[p]) PROVE buffer[o] = o
        <5>1. CASE o <= b[p]
          BY <1>1, <2>2, <3>1, <4>2, <5>1
        <5>2. CASE o > b[p]
          <6>1. o - b[p] \in 1..actual[p] /\ o = b[p] + (o - b[p])
            BY <1>1, <2>2, <4>2, <5>2
          <6>2. buffer[(p - 1) * Capacity + (o - b[p])] = b[p] + (o - b[p])
            BY <3>1, <3>2, <6>1
          <6> QED
            BY <4>1, <6>1, <6>2
        <5> QED
          BY <1>1, <2>2, <5>1, <5>2
      <4>3. \A i \in 1..N : Waiting(i)' => Waiting(i)
        BY <2>3
      <4> QED
        BY <3>1, <3>3, <4>2, <4>3
    <3>4. CASE buffer' = Closed(p)
      <4>1. ASSUME NEW i \in 1..N, NEW u \in 1..actual[i]
            PROVE  /\ (i - 1) * Capacity + u \in Units
                   /\ i > p => (i - 1) * Capacity + u > b[p] + actual[p]
        <5> DEFINE row == (i - 1) * Capacity
                   mine == (p - 1) * Capacity
                   all == N * Capacity
        <5>1. /\ row + Capacity <= all /\ row \in Nat /\ all \in Nat /\ \A o \in 1..all : o \in Units
              /\ i > p => mine + Capacity <= row
          <6>1. row + Capacity <= ((N + 1) - 1) * Capacity /\ row \in Nat
            BY <1>1, RowsApart
          <6>2. i > p => mine + Capacity <= row
            BY <1>1, RowsApart
          <6>3. (N + 1) - 1 = N
            BY <1>1
          <6>4. all \in Nat /\ \A o \in 1..all : o \in Units
            BY UnitsAre DEF UrbsInv, LifeInv
          <6> QED
            BY <6>1, <6>2, <6>3, <6>4
        <5>2. actual[i] <= Capacity /\ actual[i] \in Nat /\ actual[p] <= Capacity /\ b[p] <= mine /\ mine \in Nat
          BY <1>1, <2>2, RowsApart
        <5> HIDE DEF row, mine, all
        <5>3. row + u \in Units /\ (i > p => row + u > b[p] + actual[p])
          BY <1>1, <2>2, <5>1, <5>2
        <5> QED
          BY <5>3 DEF row
      <4>2. ASSUME NEW o \in Units
            PROVE  buffer'[o] = IF o - b[p] \in 1..actual[p]
                                THEN buffer[(p - 1) * Capacity + o - b[p]] ELSE buffer[o]
        BY <1>1, <2>6, <3>4 DEF Closed
      <4>3. ASSUME NEW o \in 1..(b[p] + actual[p]) PROVE buffer'[o] = o
        <5>1. o \in Units
          <6> DEFINE mine == (p - 1) * Capacity
                     all == N * Capacity
          <6>1. mine + Capacity <= all /\ mine \in Nat
            <7>1. mine + Capacity <= ((N + 1) - 1) * Capacity /\ mine \in Nat
              BY <1>1, RowsApart
            <7> QED
              BY <1>1, <7>1
          <6>2. all \in Nat /\ \A x \in 1..all : x \in Units
            BY UnitsAre DEF UrbsInv, LifeInv
          <6>3. b[p] <= mine /\ b[p] \in Nat /\ actual[p] \in Nat /\ actual[p] <= Capacity
            BY <1>1, <2>2
          <6> HIDE DEF mine, all
          <6>4. o \in 1..all
            BY <1>1, <6>1, <6>2, <6>3
          <6> QED
            BY <6>2, <6>4
        <5>2. CASE o <= b[p]
          <6>1. o - b[p] \notin 1..actual[p] /\ buffer[o] = o
            BY <2>2, <3>1, <4>3, <5>2
          <6> QED
            BY <4>2, <5>1, <6>1
        <5>3. CASE o > b[p]
          <6>1. o - b[p] \in 1..actual[p] /\ b[p] + (o - b[p]) = o
            BY <1>1, <2>2, <4>3, <5>3
          <6>2. buffer[(p - 1) * Capacity + (o - b[p])] = o
            BY <3>1, <3>2, <6>1
          <6>3. (p - 1) * Capacity + (o - b[p]) = (p - 1) * Capacity + o - b[p]
            <7>1. (p - 1) * Capacity \in Nat /\ o \in Nat
              BY <1>1, <2>2, RowsApart
            <7> QED
              BY <2>2, <7>1
          <6> QED
            BY <4>2, <5>1, <6>1, <6>2, <6>3
        <5> QED
          BY <1>1, <2>2, <5>2, <5>3
      <4>4. ASSUME NEW i \in 1..N, Waiting(i)', NEW u \in 1..actual[i]
            PROVE  buffer'[(i - 1) * Capacity + u] = b[i] + u
        <5>1. i > p /\ Waiting(i)
          <6>1. i # p /\ Waiting(i) /\ actual[i] > 0
            BY <1>1, <2>3, <4>4
          <6> QED
            BY <1>1, <2>1, <6>1
        <5> DEFINE o == (i - 1) * Capacity + u
        <5>2. o \in Units /\ o > b[p] + actual[p] /\ buffer[o] = b[i] + u
          BY <3>1, <4>1, <5>1
        <5>3. o \in Nat
          BY <1>1, RowsApart
        <5> HIDE DEF o
        <5>4. o - b[p] \notin 1..actual[p]
          BY <1>1, <2>2, <5>2, <5>3
        <5>5. buffer'[o] = buffer[o]
          BY <4>2, <5>2, <5>4
        <5> QED
          BY <5>2, <5>5 DEF o
      <4> QED
        BY <4>3, <4>4
    <3> QED
      BY <1>5, <3>3, <3>4
  <2>8. Stored(b, g)'
    BY <1>1, <1>3, <2>2, <2>6, <2>7 DEF Stored
  <2> QED
    BY <1>2, <2>4, <2>5, <2>8 DEF SumInv, Summed
<1> QED
  BY <1>1, <1>4, <1>5

(* A unit moves: it is the next of the URB that is served, and of all.     *)
LEMMA UnitIs ==
  ASSUME UrbsInv, UnitsInv, EndsInv, NEW i \in 1..MaxUrbs, TransferUnit(i)
  PROVE  /\ i \in 1..N /\ urbs[i] = "queued" /\ endpoint = "running" /\ allocated
         /\ shape.type # "iso" /\ actual[i] < Capacity
         /\ \A j \in 1..N : j > i => actual[j] = 0
         /\ \A j \in 1..N : j < i => urbs[j] # "queued"
         /\ \A j \in 1..N : actual'[j] = IF j = i THEN actual[i] + 1 ELSE actual[j]
         /\ N' = N /\ Capacity' = Capacity
         /\ UNCHANGED <<shape, urbs, reapable, holding, transferred, allocated, at>>
<1>1. /\ Serves(i) /\ shape.type # "iso" /\ actual[i] < Capacity
      /\ actual' = [actual EXCEPT ![i] = @ + 1]
      /\ UNCHANGED <<shape, urbs, reapable, holding, transferred, allocated, at>>
  BY DEF TransferUnit, KernelLeaves, queueVars, threadVars, transferVars
<1>2. /\ allocated /\ i \in 1..N /\ urbs[i] = "queued" /\ endpoint = "running"
      /\ \A j \in 1..N : j < i => urbs[j] # "queued"
      /\ N \in Nat \ {0} /\ Capacity \in Nat \ {0} /\ 1..N \subseteq 1..MaxUrbs
  BY <1>1, ServedIs
<1>3. \A j \in 1..N : j > i => actual[j] = 0
  BY <1>2 DEF EndsInv
<1>4. \A j \in 1..N : actual'[j] = IF j = i THEN actual[i] + 1 ELSE actual[j]
  BY <1>1, <1>2 DEF UnitsInv
<1> QED
  BY <1>1, <1>2, <1>3, <1>4 DEF N, Capacity

LEMMA UnitSum ==
  ASSUME UrbsInv, UnitsInv, EndsInv, SumInv, NEW i \in 1..MaxUrbs, TransferUnit(i)
  PROVE  SumInv'
<1>1. /\ i \in 1..N /\ urbs[i] = "queued" /\ allocated /\ actual[i] < Capacity
      /\ \A j \in 1..N : j > i => actual[j] = 0
      /\ \A j \in 1..N : actual'[j] = IF j = i THEN actual[i] + 1 ELSE actual[j]
      /\ N' = N /\ Capacity' = Capacity
      /\ UNCHANGED <<shape, urbs, reapable, holding, transferred, allocated, at>>
  BY UnitIs
<1>2. /\ N \in Nat \ {0} /\ Capacity \in Nat \ {0}
      /\ \A j \in 1..N : actual[j] \in Nat /\ actual[j] <= Capacity
  BY SumFacts
<1>3. PICK b, h : Sums(b) /\ Counted(h) /\ Stored(b, h)
  BY <1>1 DEF SumInv, Summed, Underway
<1>4. Waiting(i) /\ \A k \in 1..N : Waiting(k)' <=> Waiting(k)
  BY <1>1 DEF Waiting
<1>5. b[N + 1] = b[i] + actual[i] /\ b[i] \in Nat /\ b[i] <= (i - 1) * Capacity
  <2>1. b[i + 1] = b[N + 1]
    <3>1. i + 1 \in 1..(N + 1) /\ N + 1 \in 1..(N + 1) /\ i + 1 <= N + 1
      BY <1>1, <1>2
    <3>2. \A k \in 1..N : i + 1 <= k /\ k < N + 1 => actual[k] = 0
      BY <1>1, <1>2
    <3> QED
      BY <1>3, <3>1, <3>2 DEF Sums
  <2> QED
    BY <1>1, <1>2, <1>3, <2>1 DEF Sums
<1>6. h \in 1..N /\ h <= i
  <2>1. h \in 1..(N + 1) /\ (actual[i] > 0 => i >= h)
    BY <1>1, <1>3, <1>4 DEF Counted
  <2>2. ASSUME h > i PROVE FALSE
    <3>1. h - 1 \in 1..N /\ h - 1 >= i
      BY <1>1, <1>2, <2>1, <2>2
    <3>2. actual[h - 1] > 0
      BY <1>3, <3>1 DEF Counted
    <3> QED
      BY <1>1, <1>2, <2>1, <2>2, <3>1, <3>2
  <2> QED
    BY <1>1, <1>2, <2>1, <2>2
<1> PICK c : c = [k \in 1..(N + 1) |-> IF k <= i THEN b[k] ELSE b[k] + 1]
  OBVIOUS
<1>7. Sums(c)'
  <2>1. c \in [1..(N + 1) -> Nat] /\ c[1] = 0
    BY <1>1, <1>2, <1>3, SMTT(20) DEF Sums
  <2>2. \A k \in 1..N : c[k + 1] = c[k] + actual'[k]
    <3>1. ASSUME NEW k \in 1..N PROVE c[k + 1] = c[k] + actual'[k]
      <4>1. b[k + 1] = b[k] + actual[k] /\ b[k] \in Nat /\ k \in 1..(N + 1) /\ k + 1 \in 1..(N + 1)
        BY <1>2, <1>3 DEF Sums
      <4>2. c[k] = (IF k <= i THEN b[k] ELSE b[k] + 1) /\ c[k + 1] = (IF k + 1 <= i THEN b[k + 1] ELSE b[k + 1] + 1)
        BY <4>1
      <4>3. actual[k] \in Nat /\ actual'[k] = IF k = i THEN actual[k] + 1 ELSE actual[k]
        BY <1>1, <1>2
      <4>4. i \in Nat /\ k \in Nat
        BY <1>1, <1>2
      <4> QED
        BY <4>1, <4>2, <4>3, <4>4
    <3> QED
      BY <3>1
  <2>3. \A k, l \in 1..(N + 1) : k <= l => c[k] <= c[l]
    <3>1. ASSUME NEW k \in 1..(N + 1), NEW l \in 1..(N + 1), k <= l
          PROVE  c[k] <= c[l]
      <4>1. b[k] <= b[l] /\ b[k] \in Nat /\ b[l] \in Nat
        BY <1>2, <1>3, <3>1 DEF Sums
      <4>2. /\ c[k] = IF k <= i THEN b[k] ELSE b[k] + 1
            /\ c[l] = IF l <= i THEN b[l] ELSE b[l] + 1
        OBVIOUS
      <4>3. l <= i => k <= i
        BY <1>1, <1>2, <3>1
      <4> QED
        BY <4>1, <4>2, <4>3
    <3> QED
      BY <3>1
  <2>4. ASSUME NEW k \in 1..(N + 1) PROVE c[k] <= (k - 1) * Capacity
    <3>1. b[k] <= (k - 1) * Capacity /\ b[k] <= b[N + 1] /\ b[k] \in Nat
      BY <1>2, <1>3 DEF Sums
    <3>2. CASE k <= i
      BY <3>1, <3>2
    <3>3. CASE k > i
      <4> DEFINE mine == (i - 1) * Capacity
                 row == (k - 1) * Capacity
      <4>1. mine + Capacity <= row /\ mine \in Nat
        BY <1>1, <1>2, <3>3, RowsApart
      <4>2. row \in Nat
        BY <1>2
      <4>3. c[k] = b[k] + 1 /\ b[i] <= mine
        BY <1>1, <1>2, <1>5, <3>3
      <4> HIDE DEF mine, row
      <4>4. c[k] <= row
        BY <1>1, <1>2, <1>5, <3>1, <4>1, <4>2, <4>3
      <4> QED
        BY <4>4 DEF row
    <3> QED
      BY <1>1, <3>2, <3>3
  <2>5. ASSUME NEW k \in 1..(N + 1), NEW l \in 1..(N + 1), k <= l,
               \A j \in 1..N : k <= j /\ j < l => actual'[j] = 0
        PROVE  c[k] = c[l]
    <3>1. ~(k <= i /\ i < l)
      BY <1>1, <1>2, <2>5
    <3>2. \A j \in 1..N : k <= j /\ j < l => actual[j] = 0
      BY <1>1, <1>2, <2>5, <3>1
    <3>3. b[k] = b[l]
      BY <1>3, <2>5, <3>2 DEF Sums
    <3> QED
      BY <1>1, <1>2, <2>5, <3>1, <3>3
  <2>6. ASSUME NEW k \in 1..(N + 1), \A j \in 1..N : j < k => actual'[j] = Capacity
        PROVE  c[k] = (k - 1) * Capacity
    <3>1. CASE k <= i
      <4>1. \A j \in 1..N : j < k => actual[j] = Capacity
        BY <1>1, <1>2, <2>6, <3>1
      <4>2. b[k] = (k - 1) * Capacity
        BY <1>3, <4>1 DEF Sums
      <4> QED
        BY <3>1, <4>2
    <3>2. CASE k > i
      <4>1. actual[i] + 1 = Capacity /\ \A j \in 1..N : j < i => actual[j] = Capacity
        BY <1>1, <1>2, <2>6, <3>2
      <4>2. b[i] = (i - 1) * Capacity
        <5>1. i \in 1..(N + 1)
          BY <1>1, <1>2
        <5> QED
          BY <1>3, <4>1, <5>1 DEF Sums
      <4>3. k = i + 1
        <5>1. ASSUME k # i + 1 PROVE FALSE
          <6>1. i + 1 \in 1..N /\ i + 1 < k
            BY <1>1, <1>2, <3>2, <5>1
          <6>2. actual'[i + 1] = Capacity /\ actual'[i + 1] = 0
            BY <1>1, <1>2, <2>6, <6>1
          <6> QED
            BY <1>2, <6>2
        <5> QED
          BY <5>1
      <4>4. c[k] = b[i] + actual[i] + 1
        BY <1>1, <1>2, <1>3, <4>3 DEF Sums
      <4>5. (i - 1) * Capacity + Capacity = i * Capacity /\ k - 1 = i
        <5>1. \A m, n \in Nat : m * n + n = (m + 1) * n
          OBVIOUS
        <5>2. i - 1 \in Nat /\ (i - 1) + 1 = i
          BY <1>1, <1>2
        <5> QED
          BY <1>1, <1>2, <4>3, <5>1, <5>2
      <4>6. (i - 1) * Capacity \in Nat
        BY <1>1, <1>2, RowsApart
      <4> DEFINE mine == (i - 1) * Capacity
                 next == i * Capacity
      <4>7. mine + Capacity = next /\ b[i] = mine /\ mine \in Nat
        BY <4>2, <4>5, <4>6
      <4> HIDE DEF mine, next
      <4>8. c[k] = next
        BY <1>2, <1>1, <4>1, <4>4, <4>7
      <4> QED
        BY <4>5, <4>8 DEF next
    <3> QED
      BY <1>1, <3>1, <3>2
  <2> QED
    BY <1>1, <2>1, <2>2, <2>3, <2>4, <2>5, <2>6 DEF Sums
<1>8. Counted(h)'
  <2>1. ASSUME NEW k \in 1..N, actual'[k] > 0
        PROVE  Waiting(k)' <=> k >= h
    <3>1. CASE k = i
      BY <1>1, <1>4, <1>6, <3>1
    <3>2. CASE k # i
      BY <1>1, <1>3, <1>4, <2>1, <3>2 DEF Counted
    <3> QED
      BY <3>1, <3>2
  <2>2. \A k \in 1..N : k = h - 1 => actual'[k] > 0
    BY <1>1, <1>2, <1>3, <1>6 DEF Counted
  <2> QED
    BY <1>1, <1>2, <1>6, <2>1, <2>2 DEF Counted
<1> PICK offset : offset = (i - 1) * Capacity + actual[i] + 1
  OBVIOUS
<1>9. /\ bus' = Append(bus, IF shape.in THEN Len(bus) + 1 ELSE offset)
      /\ buffer' = IF shape.in THEN [buffer EXCEPT ![offset] = Len(bus) + 1] ELSE buffer
      /\ bus \in Seq(Nat) /\ Len(bus) \in Nat /\ buffer = [o \in Units |-> buffer[o]]
  BY LenProperties DEF TransferUnit, SumInv
<1>10. /\ offset \in Nat \ {0} /\ (\A o \in 1..offset : o \in Units) /\ offset > b[i]
       /\ \A k \in 1..N : k < i => (k - 1) * Capacity + Capacity < offset /\ (k - 1) * Capacity \in Nat
  <2> DEFINE mine == (i - 1) * Capacity
             all == N * Capacity
  <2>1. mine + Capacity <= all /\ mine \in Nat
    <3>1. mine + Capacity <= ((N + 1) - 1) * Capacity /\ mine \in Nat
      BY <1>1, <1>2, RowsApart
    <3> QED
      BY <1>2, <3>1
  <2>2. all \in Nat /\ \A x \in 1..all : x \in Units
    BY UnitsAre DEF UrbsInv, LifeInv
  <2>3. \A k \in 1..N : k < i => (k - 1) * Capacity + Capacity <= mine /\ (k - 1) * Capacity \in Nat
    BY <1>1, <1>2, RowsApart
  <2>4. offset = mine + actual[i] + 1 /\ b[i] <= mine /\ b[i] \in Nat /\ actual[i] \in Nat /\ actual[i] < Capacity
    BY <1>1, <1>2, <1>5
  <2> HIDE DEF mine, all
  <2>5. offset \in 1..all /\ offset \in Nat /\ offset > b[i] /\ mine < offset
    BY <1>2, <2>1, <2>2, <2>4, SMTT(20)
  <2>6. ASSUME NEW k \in 1..N, k < i
        PROVE  (k - 1) * Capacity + Capacity < offset /\ (k - 1) * Capacity \in Nat
    <3> DEFINE row == (k - 1) * Capacity
    <3>1. row + Capacity <= mine /\ row \in Nat
      BY <2>3, <2>6
    <3> HIDE DEF row
    <3>2. row + Capacity < offset
      BY <1>2, <2>1, <2>5, <3>1
    <3> QED
      BY <3>1, <3>2 DEF row
  <2> QED
    BY <1>2, <2>1, <2>2, <2>5, <2>6
<1>11. bus' \in Seq(Nat) /\ buffer' = [o \in Units |-> buffer'[o]] /\ Len(bus') = Len(bus) + 1
  <2>1. (IF shape.in THEN Len(bus) + 1 ELSE offset) \in Nat
    BY <1>9, <1>10
  <2>2. bus' \in Seq(Nat) /\ Len(bus') = Len(bus) + 1
    BY <1>9, <2>1, AppendProperties
  <2>3. buffer' = [o \in Units |-> buffer'[o]]
    BY <1>9
  <2> QED
    BY <2>2, <2>3
<1>12. ASSUME shape.in
       PROVE  /\ \A o \in 1..b[h] : buffer'[o] = o
              /\ \A k \in 1..N : Waiting(k) =>
                   \A u \in 1..actual'[k] : buffer'[(k - 1) * Capacity + u] = c[k] + u
  <2>1. /\ \A o \in 1..b[h] : buffer[o] = o
        /\ \A k \in 1..N : Waiting(k) =>
             \A u \in 1..actual[k] : buffer[(k - 1) * Capacity + u] = b[k] + u
    BY <1>3, <1>12 DEF Stored
  <2>2. /\ buffer'[offset] = b[i] + actual[i] + 1
        /\ \A o \in 1..offset : o # offset => buffer'[o] = buffer[o]
    <3>1. Len(bus) = b[i] + actual[i]
      BY <1>3, <1>5 DEF Stored
    <3> QED
      BY <1>9, <1>10, <1>12, <3>1
  <2>3. ASSUME NEW o \in 1..b[h] PROVE buffer'[o] = o
    <3>1. b[h] <= b[i] /\ b[h] \in Nat
      BY <1>1, <1>2, <1>3, <1>6 DEF Sums
    <3>2. o \in 1..offset /\ o # offset
      BY <1>5, <1>10, <3>1
    <3> QED
      BY <2>1, <2>2, <3>2
  <2>4. ASSUME NEW k \in 1..N, Waiting(k), NEW u \in 1..actual'[k]
        PROVE  buffer'[(k - 1) * Capacity + u] = c[k] + u
    <3>1. k <= i
      BY <1>1, <1>2, <2>4
    <3>2. c[k] = b[k]
      BY <1>1, <1>2, <3>1
    <3>3. CASE k = i
      <4>1. u \in 1..(actual[i] + 1) /\ (i - 1) * Capacity \in Nat
        BY <1>1, <1>2, <2>4, <3>3, RowsApart
      <4>2. CASE u = actual[i] + 1
        <5> DEFINE row == (i - 1) * Capacity
        <5>1. row \in Nat /\ offset = row + actual[i] + 1 /\ actual[i] \in Nat
          BY <1>1, <1>2, <4>1
        <5> HIDE DEF row
        <5>2. row + u = offset /\ b[i] + u = b[i] + actual[i] + 1
          <6>1. \A x, y \in Nat : x + (y + 1) = x + y + 1
            OBVIOUS
          <6> QED
            BY <1>5, <4>2, <5>1, <6>1
        <5>3. (i - 1) * Capacity + u = offset
          BY <5>2 DEF row
        <5> QED
          BY <2>2, <3>2, <3>3, <5>2, <5>3
      <4>3. CASE u # actual[i] + 1
        <5> DEFINE row == (i - 1) * Capacity
        <5>1. row \in Nat /\ offset = row + actual[i] + 1 /\ actual[i] \in Nat
          BY <1>1, <1>2, <4>1
        <5> HIDE DEF row
        <5>2. u \in 1..actual[i] /\ row + u \in 1..offset /\ row + u # offset
          BY <4>1, <4>3, <5>1
        <5>3. (i - 1) * Capacity + u \in 1..offset /\ (i - 1) * Capacity + u # offset
          BY <5>2 DEF row
        <5> QED
          BY <2>1, <2>2, <2>4, <3>2, <3>3, <5>2, <5>3
      <4> QED
        BY <4>2, <4>3
    <3>4. CASE k < i
      <4>1. u \in 1..actual[k]
        BY <1>1, <1>2, <2>4, <3>4
      <4> DEFINE row == (k - 1) * Capacity
      <4>2. row + Capacity < offset /\ row \in Nat /\ actual[k] <= Capacity /\ actual[k] \in Nat
        BY <1>2, <1>10, <3>4
      <4> HIDE DEF row
      <4>3. row + u \in 1..offset /\ row + u # offset
        BY <1>2, <1>10, <4>1, <4>2
      <4>4. (k - 1) * Capacity + u \in 1..offset /\ (k - 1) * Capacity + u # offset
        BY <4>3 DEF row
      <4> QED
        BY <2>1, <2>2, <2>4, <3>2, <4>1, <4>4
    <3> QED
      BY <1>1, <1>2, <3>1, <3>3, <3>4
  <2> QED
    BY <2>3, <2>4
<1>13. Stored(c, h)'
  <2>1. c[N + 1] = b[N + 1] + 1 /\ c[h] = b[h]
    BY <1>1, <1>2, <1>6
  <2>2. Len(bus') = c[N + 1] /\ transferred' = c[h]
    BY <1>1, <1>3, <1>11, <2>1 DEF Stored
  <2> QED
    BY <1>1, <1>4, <1>12, <2>1, <2>2 DEF Stored
<1> QED
  BY <1>7, <1>8, <1>11, <1>13 DEF SumInv, Summed

-----------------------------------------------------------------------------
(* What the other steps leave alone.                                       *)
LEMMA AsideKeeps ==
  ASSUME UrbsInv, Aside
  PROVE  (allocated' => allocated) /\ (at'["handler"] = "report" => at["handler"] = "report")
<1> USE DEF Goto, UrbThreads
<1>1. at \in [UrbThreads -> {"idle", "submit", "discard", "reaped", "report", "wait", "rewait"}]
  BY DEF UrbsInv, LockInv
<1>2. CASE RefuseFirst \/ RefuseNeedless \/ RefuseLater \/ SyncReturns
  BY <1>1, <1>2 DEF RefuseFirst, RefuseNeedless, RefuseLater, SyncReturns, Leave, DiscardUrbs, transferVars
<1>3. CASE Report
  BY <1>1, <1>3 DEF Report, transferVars
<1>4. CASE CancelByProgram \/ CancelByTimeout
  BY <1>1, <1>4 DEF CancelByProgram, CancelByTimeout, Cancel, DiscardUrbs, threadVars
<1>5. CASE WaitFails \/ RewaitFails
  <2>1. /\ UNCHANGED allocated
        /\ \E where \in {"discard", "rewait", "idle"} : at' = [at EXCEPT !["user"] = where]
    BY <1>5 DEF WaitFails, RewaitFails, DiscardUrbs, transferVars
  <2> QED
    BY <1>1, <2>1
<1>6. CASE UNCHANGED urbVars
  BY <1>6 DEF urbVars, threadVars, transferVars
<1> QED
  BY <1>2, <1>3, <1>4, <1>5, <1>6 DEF Aside

LEMMA DepartingLeaves ==
  ASSUME UrbsInv, Departing
  PROVE  /\ UNCHANGED <<shape, actual, bus, buffer, transferred, allocated, action, retired,
                        reapStatus, filled, holding, verdict>>
         /\ at'["handler"] = "report" => at["handler"] = "report"
         /\ \A i \in 1..N : urbs[i] \in Ends => urbs'[i] = urbs[i]
<1>1. N \in Nat /\ 1..N \subseteq 1..MaxUrbs /\ "queued" \notin Ends
      /\ urbs \in [1..MaxUrbs -> {"none", "queued"} \union Ends]
  BY ShapeIs DEF UrbsInv, LifeInv, QueueInv, Ends
<1>2. ASSUME NEW t \in UrbThreads, DiscardUrb(t)
      PROVE  /\ UNCHANGED <<shape, actual, bus, buffer, transferred, allocated, action, retired,
                            reapStatus, filled, holding, verdict>>
             /\ at'["handler"] = "report" => at["handler"] = "report"
             /\ \A i \in 1..N : urbs[i] \in Ends => urbs'[i] = urbs[i]
  <2>1. UNCHANGED <<shape, actual, bus, buffer, transferred, allocated, action, retired,
                    reapStatus, filled, holding, verdict>>
    BY <1>2 DEF DiscardUrb, transferVars, dataVars
  <2>2. at'["handler"] = "report" => at["handler"] = "report"
    <3>1. \/ UNCHANGED at
          \/ \E where \in {"idle", "wait", "rewait"} : at' = [at EXCEPT ![t] = where]
      BY <1>2 DEF DiscardUrb, Leave, Goto
    <3> QED
      BY <3>1 DEF UrbsInv, LockInv, UrbThreads
  <2>3. urbs' = urbs \/ (urbs[cursor] = "queued" /\ urbs' = [urbs EXCEPT ![cursor] = "killed"])
    BY <1>2 DEF DiscardUrb
  <2> QED
    BY <1>1, <2>1, <2>2, <2>3
<1>3. ASSUME NEW i \in 1..MaxUrbs, CompleteUrb(i) \/ ShortUrb(i) \/ FailUrb(i)
      PROVE  /\ UNCHANGED <<shape, actual, bus, buffer, transferred, allocated, action, retired,
                            reapStatus, filled, holding, verdict>>
             /\ at'["handler"] = "report" => at["handler"] = "report"
             /\ \A j \in 1..N : urbs[j] \in Ends => urbs'[j] = urbs[j]
  <2>1. PICK how : End(i, how)
    BY <1>3 DEF CompleteUrb, ShortUrb, FailUrb
  <2>2. UNCHANGED <<at, shape, actual, bus, buffer, transferred, allocated, action, retired,
                    reapStatus, filled, holding, verdict>>
    BY <2>1 DEF End, KernelLeaves, threadVars, transferVars, dataVars
  <2>3. /\ urbs[i] = "queued" /\ Serves(i)
        /\ \A j \in 1..N : j # i /\ urbs[j] # "queued" => urbs'[j] = urbs[j]
    <3>1. urbs[i] = "queued" /\ Serves(i)
      BY <2>1, ServedIs DEF End
    <3>2. ASSUME NEW j \in 1..N, j # i, urbs[j] # "queued" PROVE urbs'[j] = urbs[j]
      BY <1>1, <2>1, <3>2 DEF End, Queued
    <3> QED
      BY <3>1, <3>2
  <2> QED
    BY <1>1, <2>2, <2>3
<1>4. ASSUME Vanish
      PROVE  /\ UNCHANGED <<shape, actual, bus, buffer, transferred, allocated, action, retired,
                            reapStatus, filled, holding, verdict>>
             /\ at'["handler"] = "report" => at["handler"] = "report"
             /\ \A i \in 1..N : urbs[i] \in Ends => urbs'[i] = urbs[i]
  BY <1>1, <1>4 DEF Vanish, KernelLeaves, threadVars, transferVars, dataVars, Queued
<1> QED
  BY <1>2, <1>3, <1>4 DEF Departing

(* A URB that has ended stays as it is until the next submission.          *)
LEMMA EndedStay ==
  ASSUME UrbsInv, EndsInv,
         Aside \/ AcceptUrb \/ Departing \/ Reap \/ UrbHandled \/ Disconnect \/ (\E i \in 1..MaxUrbs : TransferUnit(i))
  PROVE  UNCHANGED shape /\ \A i \in 1..N : urbs[i] \in Ends => urbs'[i] = urbs[i]
<1>1. CASE AcceptUrb
  <2>1. /\ UNCHANGED shape /\ urbs' = [urbs EXCEPT ![cursor] = "queued"]
        /\ at["user"] = "submit"
    BY <1>1 DEF AcceptUrb
  <2>2. /\ cursor \in 1..N /\ N \in Nat /\ 1..N \subseteq 1..MaxUrbs
        /\ urbs \in [1..MaxUrbs -> {"none", "queued"} \union Ends]
    BY <2>1, ShapeIs DEF UrbsInv, LifeInv, LoopInv, QueueInv
  <2>3. urbs[cursor] = "none"
    BY <2>1, <2>2 DEF EndsInv
  <2> QED
    BY <2>1, <2>2, <2>3 DEF Ends
<1>2. CASE Reap \/ Disconnect
  BY <1>2 DEF Reap, Disconnect
<1>3. ASSUME NEW i \in 1..MaxUrbs, TransferUnit(i)
      PROVE  UNCHANGED <<shape, urbs>>
  BY <1>3 DEF TransferUnit, KernelLeaves, queueVars
<1> QED
  BY <1>1, <1>2, <1>3, AsideLeaves, HandledLeaves, DepartingLeaves

LEMMA ReapWait ==
  ASSUME UrbsInv, Reap, NEW i \in 1..N
  PROVE  Waiting(i)' <=> Waiting(i)
<1>1. /\ reapable # <<>> /\ holding' = Head(reapable) /\ reapable' = Tail(reapable)
      /\ at["handler"] = "idle" /\ UNCHANGED urbs
  BY DEF Reap
<1>2. reapable \in Seq(1..N) /\ holding = 0
  BY <1>1 DEF UrbsInv, QueueInv, LifeInv
<1>3. /\ Len(reapable) \in Nat \ {0} /\ Len(reapable') = Len(reapable) - 1
      /\ holding' = reapable[1]
      /\ \A j \in 1..Len(reapable') : reapable'[j] = reapable[j + 1]
  BY <1>1, <1>2
<1>4. (\E q \in 1..Len(reapable) : reapable[q] = i)
         <=> (i = holding' \/ \E q \in 1..Len(reapable') : reapable'[q] = i)
  <2>1. ASSUME NEW q \in 1..Len(reapable), reapable[q] = i
        PROVE  i = holding' \/ \E p \in 1..Len(reapable') : reapable'[p] = i
    <3>1. q = 1 \/ (q - 1 \in 1..Len(reapable') /\ (q - 1) + 1 = q)
      BY <1>3
    <3> QED
      BY <1>3, <2>1, <3>1
  <2>2. ASSUME NEW q \in 1..Len(reapable'), reapable'[q] = i
        PROVE  \E p \in 1..Len(reapable) : reapable[p] = i
    <3>1. q + 1 \in 1..Len(reapable)
      BY <1>3
    <3> QED
      BY <1>3, <2>2, <3>1
  <2>3. 1 \in 1..Len(reapable)
    BY <1>3
  <2> QED
    BY <1>3, <2>1, <2>2, <2>3
<1>5. i # holding
  BY <1>2
<1> QED
  BY <1>1, <1>4, <1>5 DEF Waiting

-----------------------------------------------------------------------------
(* What the URBs retired so far say while nothing has gone wrong, and what *)
(* the handler is going to say of them.                                    *)
NormalInv ==
  allocated /\ action = "NORMAL" =>
    /\ \A i \in 1..retired : urbs[i] \in Ends \ {"short", "error"}
    /\ shape.type # "iso" /\ reapStatus = "completed" => \A i \in 1..retired : urbs[i] = "ok"
    /\ reapStatus = "completed" =>
         \A i \in 1..N : urbs[i] = "killed" =>
           \E j \in 1..N : j < i /\ urbs[j] \in {"short", "stall", "error"}
    /\ shape.type = "iso" => filled = [i \in 1..retired |-> i]

StatusInv ==
  /\ \A t \in UrbThreads : at[t] = "discard" /\ action = "NORMAL" => reapStatus # "completed"
  /\ shape.type = "iso" => reapStatus = "completed"
  /\ action = "ERROR" => reapStatus # "completed"
  /\ action = "COMPLETED_EARLY" /\ reapStatus = "completed" /\ Underway => FirstBadShort

ReportInv ==
  at["handler"] = "report" =>
    /\ verdict = "by_action" <=> shape.type \in {"bulk", "interrupt"}
    /\ verdict = "completed" => WellOrShort
    /\ verdict = "completed" /\ shape.type = "iso" => filled = [i \in 1..N |-> i]
    /\ verdict = "by_action" /\ action # "CANCELLED" /\ reapStatus = "completed" => WellOrShort

OutcomeInv == NormalInv /\ StatusInv /\ ReportInv

LEMMA RetiredFew ==
  ASSUME UrbsInv, allocated
  PROVE  /\ retired \in Nat /\ retired <= N /\ N \in Nat \ {0} /\ 1..retired \subseteq 1..N
         /\ action = "NORMAL" /\ holding # 0 => holding = retired + 1
<1> PICK low \in Nat, high \in Nat : Pipeline(low, high)
  BY DEF UrbsInv, CountInv
<1>1. /\ N \in Nat \ {0} /\ Len(reapable) \in Nat /\ Held \in {0, 1} /\ Unsubmitted \in Nat
      /\ retired \in Nat /\ low <= high + 1
  BY PipelineIs
<1>2. /\ retired + Held + Len(reapable) + (high - low + 1) + Unsubmitted = N
      /\ action = "NORMAL" /\ holding # 0 => holding = retired + 1
  BY DEF Pipeline
<1>3. retired <= N
  BY <1>1, <1>2
<1> QED
  BY <1>1, <1>2, <1>3

LEMMA ShortStays ==
  ASSUME UrbsInv, UNCHANGED shape, \A i \in 1..N : urbs[i] \in Ends => urbs'[i] = urbs[i]
  PROVE  (FirstBadShort => FirstBadShort') /\ (WellOrShort => WellOrShort')
<1>1. N' = N /\ "ok" \in Ends /\ "short" \in Ends
  BY DEF N, Ends
<1>2. FirstBadShort => FirstBadShort'
  BY <1>1 DEF FirstBadShort
<1> QED
  BY <1>1, <1>2 DEF WellOrShort

(* A step that keeps what has been retired and reported.                   *)
LEMMA OutcomeFrame ==
  ASSUME UrbsInv, OutcomeInv, UNCHANGED <<shape, reapStatus, filled>>,
         \A i \in 1..N : urbs[i] \in Ends => urbs'[i] = urbs[i],
         allocated' => allocated, at'["handler"] = "report" => at["handler"] = "report" /\ verdict' = verdict,
         action' = "NORMAL" => action = "NORMAL" /\ retired' = retired,
         action' # action => \/ action' = "ERROR" /\ reapStatus # "completed"
                             \/ action' \in {"CANCELLED", "SUBMIT_FAILED"}
                             \/ action' = "COMPLETED_EARLY" /\ FirstBadShort,
         at["handler"] = "report" /\ action' # action => action' = "CANCELLED",
         \A t \in UrbThreads : at'[t] = "discard" => at[t] = "discard" \/ action' # "NORMAL",
         allocated /\ action = "NORMAL" /\ reapStatus = "completed" =>
           \A i \in 1..N : urbs'[i] = "killed" =>
             urbs[i] = "killed" \/ \E j \in 1..N : j < i /\ urbs'[j] \in {"short", "stall", "error"}
  PROVE  OutcomeInv'
<1>1. N' = N /\ (FirstBadShort => FirstBadShort') /\ (WellOrShort => WellOrShort')
  BY ShortStays DEF N
<1>2. Underway' => Underway
  BY DEF Underway
<1>3. NormalInv'
  <2> SUFFICES ASSUME allocated', action' = "NORMAL"
               PROVE  /\ \A i \in 1..retired' : urbs'[i] \in Ends \ {"short", "error"}
                      /\ shape'.type # "iso" /\ reapStatus' = "completed" => \A i \in 1..retired' : urbs'[i] = "ok"
                      /\ reapStatus' = "completed" =>
                           \A i \in 1..N' : urbs'[i] = "killed" =>
                             \E j \in 1..N' : j < i /\ urbs'[j] \in {"short", "stall", "error"}
                      /\ shape'.type = "iso" => filled' = [i \in 1..retired' |-> i]
    BY DEF NormalInv
  <2>1. allocated /\ action = "NORMAL" /\ retired' = retired /\ 1..retired \subseteq 1..N
    BY RetiredFew
  <2>2. /\ \A i \in 1..retired : urbs'[i] = urbs[i]
        /\ \A i \in 1..retired : urbs[i] \in Ends \ {"short", "error"}
    BY <2>1 DEF OutcomeInv, NormalInv
  <2>3. shape.type # "iso" /\ reapStatus = "completed" => \A i \in 1..retired : urbs[i] = "ok"
    BY <2>1 DEF OutcomeInv, NormalInv
  <2>4. shape.type = "iso" => filled = [i \in 1..retired |-> i]
    BY <2>1 DEF OutcomeInv, NormalInv
  <2>5. ASSUME reapStatus = "completed", NEW i \in 1..N, urbs'[i] = "killed"
        PROVE  \E j \in 1..N : j < i /\ urbs'[j] \in {"short", "stall", "error"}
    <3>1. CASE urbs[i] = "killed"
      <4>1. PICK j \in 1..N : j < i /\ urbs[j] \in {"short", "stall", "error"}
        BY <2>1, <2>5, <3>1 DEF OutcomeInv, NormalInv
      <4>2. urbs'[j] = urbs[j]
        BY <4>1 DEF Ends
      <4> QED
        BY <4>1, <4>2
    <3> QED
      BY <2>1, <2>5, <3>1
  <2> QED
    BY <1>1, <2>1, <2>2, <2>3, <2>4, <2>5
<1>4. StatusInv'
  <2>1. \A t \in UrbThreads : at'[t] = "discard" /\ action' = "NORMAL" => reapStatus' # "completed"
    BY DEF OutcomeInv, StatusInv
  <2>2. shape'.type = "iso" => reapStatus' = "completed"
    BY DEF OutcomeInv, StatusInv
  <2>3. action' = "ERROR" => reapStatus' # "completed"
    BY DEF OutcomeInv, StatusInv
  <2>4. action' = "COMPLETED_EARLY" /\ reapStatus' = "completed" /\ Underway' => FirstBadShort'
    BY <1>1, <1>2 DEF OutcomeInv, StatusInv
  <2> QED
    BY <2>1, <2>2, <2>3, <2>4 DEF StatusInv
<1>5. ReportInv'
  <2> SUFFICES ASSUME at'["handler"] = "report"
               PROVE  /\ verdict' = "by_action" <=> shape'.type \in {"bulk", "interrupt"}
                      /\ verdict' = "completed" => WellOrShort'
                      /\ verdict' = "completed" /\ shape'.type = "iso" => filled' = [i \in 1..N' |-> i]
                      /\ verdict' = "by_action" /\ action' # "CANCELLED" /\ reapStatus' = "completed" => WellOrShort'
    BY DEF ReportInv
  <2>1. at["handler"] = "report" /\ verdict' = verdict
    OBVIOUS
  <2>2. action' # "CANCELLED" => action' = action
    BY <2>1
  <2> QED
    BY <1>1, <2>1, <2>2 DEF OutcomeInv, ReportInv
<1> QED
  BY <1>3, <1>4, <1>5 DEF OutcomeInv

LEMMA AsideOutcome ==
  ASSUME UrbsInv, EndsInv, OutcomeInv, Aside
  PROVE  OutcomeInv'
<1> USE DEF Goto, UrbThreads
<1>1. /\ at \in [UrbThreads -> {"idle", "submit", "discard", "reaped", "report", "wait", "rewait"}]
      /\ xlock = "none" => at["user"] # "discard" /\ at["handler"] # "discard"
      /\ at["user"] = "submit" => action = "NORMAL" /\ at["handler"] # "report"
  BY DEF UrbsInv, LockInv, LifeInv, LoopInv
<1>2. UNCHANGED <<shape, urbs, filled>>
  BY AsideLeaves
<1>3. /\ allocated' => allocated
      /\ at'["handler"] = "report" => at["handler"] = "report"
  BY AsideKeeps
<1>4. /\ UNCHANGED reapStatus
      /\ at'["handler"] = "report" => verdict' = verdict
      /\ action' = "NORMAL" => action = "NORMAL" /\ retired' = retired
      /\ action' # action => \/ action' = "ERROR" /\ reapStatus # "completed"
                             \/ action' \in {"CANCELLED", "SUBMIT_FAILED"}
                             \/ action' = "COMPLETED_EARLY" /\ FirstBadShort
      /\ at["handler"] = "report" /\ action' # action => action' = "CANCELLED"
      /\ \A t \in UrbThreads : at'[t] = "discard" => at[t] = "discard" \/ action' # "NORMAL"
  <2>1. CASE RefuseFirst \/ SyncReturns
    BY <1>1, <2>1 DEF RefuseFirst, SyncReturns, transferVars
  <2>2. CASE RefuseNeedless
    <3>1. FirstBadShort
      BY <2>2 DEF RefuseNeedless, EndsInv
    <3>2. at' = [at EXCEPT !["user"] = at'["user"]] /\ at'["user"] # "discard"
      BY <1>1, <2>2 DEF RefuseNeedless, Leave
    <3> QED
      BY <1>1, <2>2, <3>1, <3>2 DEF RefuseNeedless
  <2>3. CASE RefuseLater
    BY <1>1, <2>3 DEF RefuseLater, DiscardUrbs
  <2>4. CASE Report
    BY <1>1, <2>4 DEF Report, transferVars
  <2>5. CASE CancelByProgram \/ CancelByTimeout \/ WaitFails
    <3>1. /\ UNCHANGED <<reapStatus, verdict, retired>>
          /\ action' \in {"CANCELLED", "ERROR"} /\ (action' = "ERROR" => action = "ERROR")
      BY <2>5 DEF CancelByProgram, CancelByTimeout, Cancel, WaitFails
    <3> QED
      BY <3>1
  <2>6. CASE RewaitFails
    <3>1. UNCHANGED <<reapStatus, verdict, retired, action>> /\ at' = [at EXCEPT !["user"] = "idle"]
      BY <2>6 DEF RewaitFails, transferVars
    <3> QED
      BY <1>1, <3>1
  <2>7. CASE UNCHANGED urbVars
    BY <2>7 DEF urbVars, transferVars, threadVars
  <2> QED
    BY <2>1, <2>2, <2>3, <2>4, <2>5, <2>6, <2>7 DEF Aside
<1>5. /\ UNCHANGED <<shape, reapStatus, filled>>
      /\ \A i \in 1..N : urbs[i] \in Ends => urbs'[i] = urbs[i]
      /\ at'["handler"] = "report" => at["handler"] = "report" /\ verdict' = verdict
      /\ \A i \in 1..N : urbs'[i] = "killed" => urbs[i] = "killed"
  BY <1>2, <1>3, <1>4
<1> QED
  BY <1>3, <1>4, <1>5, OutcomeFrame

(* A URB is killed by the end of one before it, or by a discard.           *)
LEMMA DepartingOutcome ==
  ASSUME UrbsInv, UnitsInv, EndsInv, OutcomeInv, Departing, NoEarlyError
  PROVE  OutcomeInv'
<1>1. /\ UNCHANGED <<shape, allocated, action, retired, reapStatus, filled, verdict>>
      /\ at'["handler"] = "report" => at["handler"] = "report"
      /\ \A i \in 1..N : urbs[i] \in Ends => urbs'[i] = urbs[i]
  BY DepartingLeaves
<1>2. \A t \in UrbThreads : at'[t] = "discard" => at[t] = "discard"
  <2>1. ASSUME NEW t \in UrbThreads, DiscardUrb(t)
        PROVE  \A r \in UrbThreads : at'[r] = "discard" => at[r] = "discard"
    <3>1. \/ UNCHANGED at
          \/ \E where \in {"idle", "wait", "rewait"} : at' = [at EXCEPT ![t] = where]
      BY <2>1 DEF DiscardUrb, Leave, Goto
    <3> QED
      BY <3>1 DEF UrbsInv, LockInv, UrbThreads
  <2>2. ASSUME NEW i \in 1..MaxUrbs, NEW how, End(i, how) PROVE UNCHANGED at
    BY <2>2 DEF End, KernelLeaves, threadVars
  <2>3. Vanish => UNCHANGED at
    BY DEF Vanish, KernelLeaves, threadVars
  <2> QED
    BY <2>1, <2>2, <2>3 DEF Departing, CompleteUrb, ShortUrb, FailUrb
<1>3. ASSUME allocated, action = "NORMAL", reapStatus = "completed", NEW i \in 1..N, urbs'[i] = "killed"
      PROVE  urbs[i] = "killed" \/ \E j \in 1..N : j < i /\ urbs'[j] \in {"short", "stall", "error"}
  <2>1. CASE \E t \in UrbThreads : DiscardUrb(t)
    <3>1. PICK t \in UrbThreads : at[t] = "discard"
      BY <2>1 DEF DiscardUrb
    <3> QED
      BY <1>3, <3>1 DEF OutcomeInv, StatusInv
  <2>2. ASSUME NEW k \in 1..MaxUrbs, CompleteUrb(k) \/ ShortUrb(k) \/ FailUrb(k)
        PROVE  urbs[i] = "killed" \/ \E j \in 1..N : j < i /\ urbs'[j] \in {"short", "stall", "error"}
    <3>1. PICK how \in Ends \ {"nodev", "killed"} : End(k, how) /\ (how = "overflow" => k = N)
      BY <2>2, EndsAre
    <3>2. /\ k \in 1..N /\ urbs[k] = "queued" /\ N \in Nat \ {0} /\ 1..N \subseteq 1..MaxUrbs
          /\ \A j \in 1..N : j < k => urbs[j] # "queued"
      BY <3>1, ServedIs DEF End
    <3>3. /\ urbs'[k] = how
          /\ i # k /\ urbs[i] # "killed" => urbs[i] = "queued" /\ how # "ok"
      BY <1>3, <3>1, <3>2 DEF End, Queued
    <3>4. CASE i = k
      BY <1>3, <3>1, <3>3, <3>4
    <3>5. CASE i # k /\ urbs[i] # "killed"
      <4>1. k < i
        BY <3>2, <3>3, <3>5
      <4>2. how \in {"short", "stall", "error"}
        BY <3>1, <3>2, <3>3, <3>5, <4>1 DEF Ends
      <4> QED
        BY <3>2, <3>3, <4>1, <4>2
    <3> QED
      BY <3>4, <3>5
  <2>3. CASE Vanish
    <3>1. N \in Nat /\ 1..N \subseteq 1..MaxUrbs
      BY ShapeIs DEF UrbsInv, LifeInv
    <3>2. urbs'[i] \in {"nodev", urbs[i]}
      BY <2>3, <3>1 DEF Vanish
    <3> QED
      BY <1>3, <3>2
  <2> QED
    BY <2>1, <2>2, <2>3 DEF Departing
<1>4. at'["handler"] = "report" => at["handler"] = "report" /\ verdict' = verdict
  BY <1>1
<1> QED
  BY <1>1, <1>2, <1>3, <1>4, OutcomeFrame

LEMMA QuietOutcome ==
  ASSUME UrbsInv, EndsInv, OutcomeInv,
         AcceptUrb \/ Reap \/ Disconnect \/ (\E i \in 1..MaxUrbs : TransferUnit(i))
  PROVE  OutcomeInv'
<1>1. at \in [UrbThreads -> {"idle", "submit", "discard", "reaped", "report", "wait", "rewait"}]
  BY DEF UrbsInv, LockInv
<1>2. \A i \in 1..N : urbs[i] \in Ends => urbs'[i] = urbs[i]
  BY EndedStay
<1>3. CASE AcceptUrb
  <2>1. /\ UNCHANGED <<shape, allocated, action, retired, reapStatus, filled, verdict>>
        /\ urbs' = [urbs EXCEPT ![cursor] = "queued"]
    BY <1>3 DEF AcceptUrb, transferVars
  <2>2. \/ UNCHANGED at
        \/ \E where \in {"idle", "wait", "rewait"} : at' = [at EXCEPT !["user"] = where]
    BY <1>3 DEF AcceptUrb, Leave, Goto
  <2>3. /\ at'["handler"] = "report" => at["handler"] = "report"
        /\ \A t \in UrbThreads : at'[t] = "discard" => at[t] = "discard"
    BY <1>1, <2>2 DEF UrbThreads
  <2>4. \A i \in 1..N : urbs'[i] = "killed" => urbs[i] = "killed"
    <3>1. N \in Nat /\ 1..N \subseteq 1..MaxUrbs /\ urbs \in [1..MaxUrbs -> {"none", "queued"} \union Ends]
      BY ShapeIs DEF UrbsInv, LifeInv, QueueInv
    <3> QED
      BY <2>1, <3>1
  <2> QED
    BY <1>2, <2>1, <2>3, <2>4, OutcomeFrame
<1>4. CASE Reap \/ Disconnect \/ \E i \in 1..MaxUrbs : TransferUnit(i)
  <2>1. /\ UNCHANGED <<shape, action, retired, reapStatus, filled, verdict, urbs>>
        /\ allocated' => allocated
    BY <1>4 DEF Reap, Disconnect, TransferUnit, KernelLeaves, transferVars, queueVars
  <2>2. /\ at'["handler"] = "report" => at["handler"] = "report"
        /\ \A t \in UrbThreads : at'[t] = "discard" => at[t] = "discard"
    BY <1>1, <1>4 DEF Reap, Disconnect, TransferUnit, KernelLeaves, threadVars, Goto, UrbThreads
  <2>3. at'["handler"] = "report" => at["handler"] = "report" /\ verdict' = verdict
    BY <2>1, <2>2
  <2> QED
    BY <1>2, <2>1, <2>2, <2>3, OutcomeFrame
<1> QED
  BY <1>3, <1>4

(* handle_bulk_completion() while nothing has gone wrong.                  *)
BulkShort ==
  /\ urbs[holding] \notin {"nodev", "stall", "error", "overflow"}
  /\ holding < N /\ actual[holding] < Capacity

LEMMA BulkNormalIs ==
  ASSUME UrbsInv, HandleBulkNormal
  PROVE  /\ holding # 0 /\ allocated /\ action = "NORMAL" /\ shape.type \in {"bulk", "interrupt"}
         /\ retired' = retired + 1 /\ transferred' = transferred + actual[holding]
         /\ UNCHANGED <<shape, urbs, actual, buffer, filled>>
         /\ reapStatus' = StatusAfter(urbs[holding])
         /\ urbs[holding] = "error" => action' = "ERROR"
         /\ BulkShort => action' = "COMPLETED_EARLY"
         /\ urbs[holding] # "error" /\ ~BulkShort => action' = "NORMAL"
         /\ \/ /\ ~allocated' /\ verdict' = "by_action" /\ at' = [at EXCEPT !["handler"] = "report"]
               /\ urbs[holding] \in {"overflow", "nodev", "stall", "error"} \/ holding = N \/ BulkShort
            \/ /\ UNCHANGED <<allocated, verdict>> /\ at' = [at EXCEPT !["handler"] = "discard"]
               /\ urbs[holding] \in {"nodev", "stall", "error"} \/ BulkShort
            \/ /\ UNCHANGED <<allocated, verdict>> /\ at' = [at EXCEPT !["handler"] = "idle"]
               /\ urbs[holding] \notin {"overflow", "nodev", "stall", "error"} /\ ~BulkShort /\ holding # N
<1>1. /\ at["handler"] = "reaped" /\ xlock = "none" /\ action = "NORMAL" /\ shape.type \in {"bulk", "interrupt"}
      /\ retired' = retired + 1 /\ transferred' = transferred + actual[holding]
      /\ UNCHANGED <<shape, urbs, actual, buffer, filled>>
      /\ reapStatus' = StatusAfter(urbs[holding])
  BY DEF HandleBulkNormal, Handles, queueVars
<1>2. holding # 0 /\ allocated
  BY <1>1, Handling DEF UrbsInv, LifeInv
<1> DEFINE end == urbs[holding]
           fails == end \in {"nodev", "stall", "error"}
           short == ~fails /\ end # "overflow" /\ holding < N /\ actual[holding] < Capacity
<1>3. short <=> BulkShort
  BY DEF BulkShort
<1>4. /\ action' = CASE end = "error" -> "ERROR" [] short -> "COMPLETED_EARLY" [] OTHER -> "NORMAL"
      /\ \/ /\ end = "overflow" \/ (~fails /\ holding = N) \/ ((fails \/ short) /\ retired' = N)
            /\ Complete("by_action")
         \/ (fails \/ short) /\ DiscardUrbs("handler", holding + 1, N) /\ UNCHANGED <<allocated, verdict>>
         \/ /\ ~(end = "overflow" \/ (~fails /\ holding = N) \/ ((fails \/ short) /\ retired' = N))
            /\ ~fails /\ ~short /\ Retain("idle")
  BY DEF HandleBulkNormal
<1>5. short => end # "error"
  OBVIOUS
<1> HIDE DEF short
<1>6. /\ end = "error" => action' = "ERROR"
      /\ short => action' = "COMPLETED_EARLY"
      /\ end # "error" /\ ~short => action' = "NORMAL"
  BY <1>4, <1>5
<1>7. \/ /\ ~allocated' /\ verdict' = "by_action" /\ at' = [at EXCEPT !["handler"] = "report"]
         /\ end \in {"overflow", "nodev", "stall", "error"} \/ holding = N \/ short
      \/ /\ UNCHANGED <<allocated, verdict>> /\ at' = [at EXCEPT !["handler"] = "discard"]
         /\ end \in {"nodev", "stall", "error"} \/ short
      \/ /\ UNCHANGED <<allocated, verdict>> /\ at' = [at EXCEPT !["handler"] = "idle"]
         /\ end \notin {"overflow", "nodev", "stall", "error"} /\ ~short /\ holding # N
  BY <1>4 DEF Complete, Retain, DiscardUrbs, Goto
<1> QED
  BY <1>1, <1>2, <1>3, <1>6, <1>7

(* What the URB says together with those before it.                        *)
LEMMA EndsTell ==
  ASSUME UrbsInv, UnitsInv, EndsInv, OutcomeInv, holding # 0, allocated, action = "NORMAL",
         shape.type # "iso", reapStatus = "completed", urbs[holding] \notin {"nodev", "stall", "overflow", "error"}
  PROVE  /\ urbs[holding] \in {"ok", "short"} /\ \A i \in 1..N : i < holding => urbs[i] = "ok"
         /\ urbs[holding] = "ok" => actual[holding] = Capacity
         /\ urbs[holding] = "short" => FirstBadShort /\ actual[holding] < Capacity
<1>1. /\ retired \in Nat /\ retired <= N /\ N \in Nat \ {0} /\ 1..retired \subseteq 1..N
      /\ holding = retired + 1 /\ holding \in 1..N /\ urbs[holding] \in Ends
  BY RetiredFew, ReapableAre
<1>2. \A i \in 1..N : i < holding => urbs[i] = "ok"
  BY <1>1 DEF OutcomeInv, NormalInv
<1>3. urbs[holding] # "killed"
  <2>1. urbs[holding] = "killed" => \E j \in 1..N : j < holding /\ urbs[j] \in {"short", "stall", "error"}
    BY <1>1 DEF OutcomeInv, NormalInv
  <2> QED
    BY <1>2, <2>1
<1>4. urbs[holding] \in {"ok", "short"}
  BY <1>1, <1>3 DEF Ends
<1>5. urbs[holding] = "short" => FirstBadShort
  BY <1>1, <1>2 DEF FirstBadShort
<1> QED
  BY <1>1, <1>2, <1>4, <1>5 DEF UnitsInv

LEMMA BulkNormalOutcome ==
  ASSUME UrbsInv, UnitsInv, EndsInv, OutcomeInv, HandleBulkNormal
  PROVE  OutcomeInv'
<1>1. /\ holding # 0 /\ allocated /\ action = "NORMAL" /\ shape.type \in {"bulk", "interrupt"}
      /\ retired' = retired + 1 /\ UNCHANGED <<shape, urbs, actual, filled>>
      /\ reapStatus' = StatusAfter(urbs[holding])
      /\ urbs[holding] = "error" => action' = "ERROR"
      /\ BulkShort => action' = "COMPLETED_EARLY"
      /\ urbs[holding] # "error" /\ ~BulkShort => action' = "NORMAL"
  BY BulkNormalIs
<1>2. \/ /\ ~allocated' /\ verdict' = "by_action" /\ at' = [at EXCEPT !["handler"] = "report"]
         /\ urbs[holding] \in {"overflow", "nodev", "stall", "error"} \/ holding = N \/ BulkShort
      \/ /\ UNCHANGED <<allocated, verdict>> /\ at' = [at EXCEPT !["handler"] = "discard"]
         /\ urbs[holding] \in {"nodev", "stall", "error"} \/ BulkShort
      \/ /\ UNCHANGED <<allocated, verdict>> /\ at' = [at EXCEPT !["handler"] = "idle"]
         /\ urbs[holding] \notin {"overflow", "nodev", "stall", "error"} /\ ~BulkShort /\ holding # N
  BY BulkNormalIs
<1>3. /\ at \in [UrbThreads -> {"idle", "submit", "discard", "reaped", "report", "wait", "rewait"}]
      /\ at["user"] # "discard" /\ at["handler"] # "report"
  BY <1>1 DEF UrbsInv, LockInv, LoopInv, LifeInv
<1>4. /\ retired \in Nat /\ retired <= N /\ N \in Nat \ {0} /\ 1..retired \subseteq 1..N
      /\ holding = retired + 1 /\ holding \in 1..N /\ urbs[holding] \in Ends
  BY <1>1, RetiredFew, ReapableAre
<1>5. N' = N /\ (FirstBadShort' <=> FirstBadShort) /\ (WellOrShort' <=> WellOrShort)
  BY <1>1 DEF N, FirstBadShort, WellOrShort
<1>6. reapStatus' = "completed" =>
        /\ reapStatus = "completed" /\ urbs[holding] \in {"ok", "short"}
        /\ \A i \in 1..N : i < holding => urbs[i] = "ok"
        /\ urbs[holding] = "ok" => actual[holding] = Capacity
        /\ urbs[holding] = "short" => FirstBadShort /\ actual[holding] < Capacity
  <2>1. ASSUME reapStatus' = "completed"
        PROVE  reapStatus = "completed" /\ urbs[holding] \notin {"nodev", "stall", "overflow", "error"}
    <3>1. StatusAfter(urbs[holding]) = "completed"
      BY <1>1, <2>1
    <3>2. CASE urbs[holding] = "nodev"
      BY <3>1, <3>2 DEF StatusAfter
    <3>3. CASE urbs[holding] \in {"stall", "overflow", "error"} /\ reapStatus = "completed"
      BY <3>1, <3>3 DEF StatusAfter
    <3>4. CASE urbs[holding] # "nodev" /\ ~(urbs[holding] \in {"stall", "overflow", "error"} /\ reapStatus = "completed")
      BY <3>1, <3>4 DEF StatusAfter
    <3> QED
      BY <3>2, <3>3, <3>4
  <2>2. shape.type # "iso"
    BY <1>1
  <2> QED
    BY <1>1, <2>1, <2>2, EndsTell
<1>7. NormalInv'
  <2>1. CASE allocated' /\ action' = "NORMAL"
    <3>1. urbs[holding] # "error" /\ ~BulkShort
      BY <1>1, <2>1
    <3>2. urbs[holding] # "short"
      <4>1. ASSUME urbs[holding] = "short" PROVE FALSE
        <5>1. holding < N
          <6>1. holding # N
            <7>1. \/ urbs[holding] \in {"nodev", "stall", "error"} \/ BulkShort
                  \/ urbs[holding] \notin {"overflow", "nodev", "stall", "error"} /\ ~BulkShort /\ holding # N
              BY <1>2, <2>1
            <7> QED
              BY <3>1, <4>1, <7>1
          <6> QED
            BY <1>4, <6>1
        <5>2. actual[holding] < Capacity
          BY <1>4, <4>1 DEF UnitsInv
        <5> QED
          BY <3>1, <4>1, <5>1, <5>2 DEF BulkShort
      <4> QED
        BY <4>1
    <3>3. \A i \in 1..(retired + 1) : urbs[i] \in Ends \ {"short", "error"}
      <4>1. \A i \in 1..retired : urbs[i] \in Ends \ {"short", "error"}
        BY <1>1 DEF OutcomeInv, NormalInv
      <4>2. \A i \in 1..(retired + 1) : i \in 1..retired \/ i = holding
        BY <1>4
      <4> QED
        BY <1>4, <3>1, <3>2, <4>1, <4>2
    <3>4. reapStatus' = "completed" => \A i \in 1..(retired + 1) : urbs[i] = "ok"
      <4>1. \A i \in 1..(retired + 1) : i \in 1..N /\ (i < holding \/ i = holding)
        BY <1>4
      <4> QED
        BY <1>6, <3>2, <4>1
    <3>5. reapStatus' = "completed" =>
            \A i \in 1..N : urbs[i] = "killed" =>
              \E j \in 1..N : j < i /\ urbs[j] \in {"short", "stall", "error"}
      BY <1>1, <1>6 DEF OutcomeInv, NormalInv
    <3>6. shape'.type # "iso"
      BY <1>1
    <3> QED
      BY <1>1, <1>5, <3>3, <3>4, <3>5, <3>6 DEF NormalInv
  <2>2. CASE ~(allocated' /\ action' = "NORMAL")
    BY <2>2 DEF NormalInv
  <2> QED
    BY <2>1, <2>2
<1>8. StatusInv'
  <2>1. ASSUME NEW t \in UrbThreads, at'[t] = "discard", action' = "NORMAL"
        PROVE  reapStatus' # "completed"
    <3>1. t = "handler"
      BY <1>2, <1>3, <2>1 DEF UrbThreads
    <3>2. urbs[holding] \in {"nodev", "stall", "error"} \/ BulkShort
      BY <1>2, <1>3, <2>1, <3>1 DEF UrbThreads
    <3> QED
      BY <1>1, <1>6, <2>1, <3>2
  <2>2. shape'.type # "iso"
    BY <1>1
  <2>3. action' = "ERROR" => reapStatus' # "completed"
    BY <1>1, <1>6
  <2>4. action' = "COMPLETED_EARLY" /\ reapStatus' = "completed" => FirstBadShort'
    <3>1. action' = "COMPLETED_EARLY" => BulkShort
      BY <1>1
    <3>2. BulkShort => actual[holding] < Capacity
      BY DEF BulkShort
    <3>3. Capacity \in Nat
      BY SumFacts
    <3> QED
      BY <1>5, <1>6, <3>1, <3>2, <3>3
  <2> QED
    BY <2>1, <2>2, <2>3, <2>4 DEF StatusInv
<1>9. ReportInv'
  <2>1. CASE at'["handler"] = "report"
    <3>1. verdict' = "by_action" /\ (urbs[holding] \in {"overflow", "nodev", "stall", "error"} \/ holding = N \/ BulkShort)
      BY <1>2, <1>3, <2>1 DEF UrbThreads
    <3>2. ASSUME reapStatus' = "completed" PROVE WellOrShort'
      <4>1. CASE urbs[holding] = "short"
        BY <1>5, <1>6, <3>2, <4>1 DEF WellOrShort
      <4>2. CASE urbs[holding] = "ok"
        <5>1. holding = N
          <6>1. BulkShort => actual[holding] < Capacity
            BY DEF BulkShort
          <6>2. Capacity \in Nat
            BY SumFacts
          <6> QED
            BY <1>6, <3>1, <3>2, <4>2, <6>1, <6>2
        <5>2. \A i \in 1..N : i < holding \/ i = holding
          BY <1>4, <5>1
        <5>3. \A i \in 1..N : urbs[i] = "ok"
          BY <1>6, <3>2, <4>2, <5>2
        <5> QED
          BY <1>5, <5>3 DEF WellOrShort
      <4> QED
        BY <1>6, <3>2, <4>1, <4>2
    <3> QED
      BY <1>1, <2>1, <3>1, <3>2 DEF ReportInv
  <2>2. CASE at'["handler"] # "report"
    BY <2>2 DEF ReportInv
  <2> QED
    BY <2>1, <2>2
<1> QED
  BY <1>7, <1>8, <1>9 DEF OutcomeInv

(* handle_bulk_completion() once something has gone wrong.                 *)
LEMMA BulkAbnormalOutcome ==
  ASSUME UrbsInv, OutcomeInv, HandleBulkAbnormal
  PROVE  OutcomeInv'
<1>1. /\ at["handler"] = "reaped" /\ xlock = "none" /\ action # "NORMAL" /\ shape.type \in {"bulk", "interrupt"}
      /\ UNCHANGED <<shape, urbs, action, filled>>
      /\ \/ /\ reapStatus' = IF action # "COMPLETED_EARLY" /\ reapStatus = "completed" THEN "error" ELSE reapStatus
            /\ verdict' = "by_action" /\ at' = [at EXCEPT !["handler"] = "report"]
         \/ reapStatus' = reapStatus /\ at' = [at EXCEPT !["handler"] = "idle"]
  BY DEF HandleBulkAbnormal, Handles, Complete, Retain, Goto, queueVars
<1>2. holding # 0 /\ allocated
  BY <1>1, Handling DEF UrbsInv, LifeInv
<1>3. at \in [UrbThreads -> {"idle", "submit", "discard", "reaped", "report", "wait", "rewait"}]
  BY DEF UrbsInv, LockInv
<1>4. N' = N /\ (FirstBadShort' <=> FirstBadShort) /\ (WellOrShort' <=> WellOrShort)
  BY <1>1 DEF N, FirstBadShort, WellOrShort
<1>5. /\ reapStatus' = "completed" => reapStatus = "completed"
      /\ at'["handler"] = "report" => /\ verdict' = "by_action"
                                      /\ reapStatus' = "completed" => action = "COMPLETED_EARLY"
  BY <1>1, <1>3 DEF UrbThreads
<1>6. /\ action = "ERROR" => reapStatus # "completed"
      /\ action = "COMPLETED_EARLY" /\ reapStatus = "completed" => FirstBadShort
  BY <1>2 DEF OutcomeInv, StatusInv, Underway
<1>7. NormalInv'
  BY <1>1 DEF NormalInv
<1>8. StatusInv'
  BY <1>1, <1>4, <1>5, <1>6 DEF StatusInv
<1>9. ReportInv'
  <2>1. FirstBadShort => WellOrShort
    BY DEF WellOrShort
  <2> QED
    BY <1>1, <1>4, <1>5, <1>6, <2>1 DEF ReportInv
<1> QED
  BY <1>7, <1>8, <1>9 DEF OutcomeInv

(* While nothing has gone wrong the URBs of an isochronous transfer are    *)
(* copied in their order, and the last of them comes after all the others. *)
LEMMA IsoNormal ==
  ASSUME UrbsInv, EndsInv, OutcomeInv, holding # 0, allocated, action = "NORMAL", shape.type = "iso",
         urbs[holding] \in Ends
  PROVE  /\ \A i \in 1..(retired + 1) : urbs[i] \in Ends \ {"short", "error"}
         /\ Append(filled, holding) = [i \in 1..(retired + 1) |-> i]
         /\ holding = N => retired + 1 = N
         /\ holding = N /\ urbs[N] # "nodev" => \A i \in 1..N : urbs[i] = "ok"
<1>1. /\ retired \in Nat /\ retired <= N /\ N \in Nat \ {0} /\ 1..retired \subseteq 1..N
      /\ holding = retired + 1
  BY RetiredFew
<1>2. \A i \in 1..N : urbs[i] \notin {"short", "stall", "overflow", "error"}
  BY DEF EndsInv, Disabling
<1>3. holding \in 1..N
  BY <1>1 DEF UrbsInv, QueueInv
<1>4. /\ \A i \in 1..retired : urbs[i] \in Ends
      /\ filled = [i \in 1..retired |-> i]
      /\ \A i \in 1..N : urbs[i] # "killed"
  <2>1. reapStatus = "completed"
    BY DEF OutcomeInv, StatusInv
  <2> QED
    BY <1>2, <2>1 DEF OutcomeInv, NormalInv
<1>5. \A i \in 1..(retired + 1) : i \in 1..N /\ (i \in 1..retired \/ i = holding)
  BY <1>1, <1>3
<1>6. \A i \in 1..(retired + 1) : urbs[i] \in Ends \ {"short", "error"}
  BY <1>2, <1>4, <1>5
<1>7. Append(filled, holding) = [i \in 1..(retired + 1) |-> i]
  <2>1. filled \in Seq(Nat) /\ Len(filled) = retired
    <3>1. [i \in 1..retired |-> i] \in [1..retired -> Nat]
      OBVIOUS
    <3> QED
      BY <1>1, <1>4, <3>1, SeqOfFunction
  <2>2. /\ Append(filled, holding) \in Seq(Nat) /\ Len(Append(filled, holding)) = retired + 1
        /\ \A i \in 1..retired : Append(filled, holding)[i] = filled[i]
        /\ Append(filled, holding)[retired + 1] = holding
    BY <1>1, <2>1, AppendProperties
  <2> DEFINE more == Append(filled, holding)
  <2>3. more = [i \in 1..(retired + 1) |-> more[i]]
    BY <1>1, <2>2
  <2>4. \A i \in 1..(retired + 1) : more[i] = i
    BY <1>1, <1>4, <1>5, <2>2
  <2> HIDE DEF more
  <2>5. more = [i \in 1..(retired + 1) |-> i]
    BY <2>3, <2>4
  <2> QED
    BY <2>5 DEF more
<1>8. ASSUME holding = N, urbs[N] # "nodev", NEW i \in 1..N
      PROVE  urbs[i] = "ok"
  <2>1. i \in 1..(retired + 1) /\ urbs[i] \in Ends /\ urbs[N] \in Ends /\ N \in 1..N
    BY <1>1, <1>3, <1>6, <1>8
  <2>2. urbs[i] # "nodev"
    <3>1. i < N /\ urbs[i] = "nodev" => urbs[N] \in {"none", "queued", "killed", "nodev"}
      BY <2>1 DEF EndsInv, Stopping
    <3>2. i < N \/ i = N
      BY <1>1
    <3> QED
      BY <1>4, <1>8, <2>1, <3>1, <3>2 DEF Ends
  <2> QED
    BY <1>2, <1>4, <2>1, <2>2 DEF Ends
<1> QED
  BY <1>1, <1>6, <1>7, <1>8

LEMMA IsoOutcome ==
  ASSUME UrbsInv, UnitsInv, EndsInv, OutcomeInv, HandleIso
  PROVE  OutcomeInv'
<1>1. /\ at["handler"] = "reaped" /\ xlock = "none" /\ shape.type = "iso"
      /\ filled' = Append(filled, holding) /\ retired' = retired + 1
      /\ UNCHANGED <<shape, urbs, action, reapStatus>>
  BY DEF HandleIso, Handles, queueVars
<1>2. \/ /\ verdict' \in {"no_device", "completed", "cancelled", "error"} /\ ~allocated'
         /\ verdict' = "completed" => action = "NORMAL" /\ holding = N /\ urbs[N] # "nodev"
         /\ at' = [at EXCEPT !["handler"] = "report"]
      \/ at' = [at EXCEPT !["handler"] = "idle"]
  BY DEF HandleIso, Complete, Retain, Goto
<1>3. holding # 0 /\ allocated /\ at \in [UrbThreads -> {"idle", "submit", "discard", "reaped", "report", "wait", "rewait"}]
  BY <1>1, Handling DEF UrbsInv, LifeInv, LockInv
<1>4. N' = N /\ (FirstBadShort' <=> FirstBadShort) /\ (WellOrShort' <=> WellOrShort)
  BY <1>1 DEF N, FirstBadShort, WellOrShort
<1>5. urbs[holding] \in Ends
  BY <1>3, ReapableAre
<1>6. action = "NORMAL" =>
        /\ \A i \in 1..(retired + 1) : urbs[i] \in Ends \ {"short", "error"}
        /\ filled' = [i \in 1..(retired + 1) |-> i]
        /\ holding = N => retired + 1 = N
        /\ holding = N /\ urbs[N] # "nodev" => \A i \in 1..N : urbs[i] = "ok"
  BY <1>1, <1>3, <1>5, IsoNormal
<1>7. /\ reapStatus = "completed"
      /\ action = "NORMAL" => \A i \in 1..N : urbs[i] = "killed" =>
                                \E j \in 1..N : j < i /\ urbs[j] \in {"short", "stall", "error"}
  BY <1>1, <1>3 DEF OutcomeInv, StatusInv, NormalInv
<1>8. NormalInv'
  BY <1>1, <1>4, <1>6, <1>7 DEF NormalInv
<1>9. StatusInv'
  <2>1. \A t \in UrbThreads : at'[t] = "discard" => at[t] = "discard"
    BY <1>2, <1>3 DEF UrbThreads
  <2>2. Underway
    BY <1>3 DEF Underway
  <2> QED
    BY <1>1, <1>4, <2>1, <2>2 DEF OutcomeInv, StatusInv
<1>10. ReportInv'
  <2>1. CASE at'["handler"] = "report"
    <3>1. /\ verdict' \in {"no_device", "completed", "cancelled", "error"}
          /\ verdict' = "completed" => action = "NORMAL" /\ holding = N /\ urbs[N] # "nodev"
      BY <1>2, <1>3, <2>1 DEF UrbThreads
    <3>2. verdict' = "completed" => WellOrShort' /\ filled' = [i \in 1..N |-> i]
      BY <1>4, <1>6, <3>1 DEF WellOrShort
    <3> QED
      BY <1>1, <1>4, <3>1, <3>2 DEF ReportInv
  <2>2. CASE at'["handler"] # "report"
    BY <2>2 DEF ReportInv
  <2> QED
    BY <2>1, <2>2
<1> QED
  BY <1>8, <1>9, <1>10 DEF OutcomeInv

LEMMA ControlOutcome ==
  ASSUME UrbsInv, UnitsInv, EndsInv, OutcomeInv, HandleControl
  PROVE  OutcomeInv'
<1>1. /\ at["handler"] = "reaped" /\ xlock = "none" /\ shape.type = "control"
      /\ UNCHANGED <<shape, urbs, action, reapStatus>> /\ ~allocated'
      /\ verdict' = IF action = "CANCELLED" THEN "cancelled"
                    ELSE CASE urbs[1] \in {"ok", "short"} -> "completed"
                           [] urbs[1] = "killed" -> "cancelled"
                           [] urbs[1] = "nodev" -> "no_device"
                           [] OTHER -> urbs[1]
      /\ at' = [at EXCEPT !["handler"] = "report"]
  BY DEF HandleControl, Handles, Complete, Goto, queueVars
<1>2. holding # 0 /\ allocated /\ at \in [UrbThreads -> {"idle", "submit", "discard", "reaped", "report", "wait", "rewait"}]
  BY <1>1, Handling DEF UrbsInv, LifeInv, LockInv
<1>3. N' = N /\ (FirstBadShort' <=> FirstBadShort) /\ (WellOrShort' <=> WellOrShort)
  BY <1>1 DEF N, FirstBadShort, WellOrShort
<1>4. N = 1 /\ urbs[1] \in Ends
  <2>1. N = 1
    BY <1>1, ShapeIs DEF UrbsInv, LifeInv
  <2>2. holding \in 1..N /\ urbs[holding] \in Ends
    BY <1>2, ReapableAre
  <2>3. holding = 1
    BY <2>1, <2>2
  <2> QED
    BY <2>1, <2>2, <2>3
<1>5. verdict' # "by_action" /\ (verdict' = "completed" => urbs[1] \in {"ok", "short"})
  <2>1. CASE action = "CANCELLED"
    BY <1>1, <2>1
  <2>2. CASE action # "CANCELLED" /\ urbs[1] \in {"ok", "short"}
    BY <1>1, <2>2
  <2>3. CASE action # "CANCELLED" /\ urbs[1] = "killed"
    BY <1>1, <2>3
  <2>4. CASE action # "CANCELLED" /\ urbs[1] = "nodev"
    BY <1>1, <2>4
  <2>5. CASE action # "CANCELLED" /\ urbs[1] \in {"stall", "overflow", "error"}
    BY <1>1, <2>5
  <2> QED
    BY <1>4, <2>1, <2>2, <2>3, <2>4, <2>5 DEF Ends
<1>6. urbs[1] \in {"ok", "short"} => WellOrShort
  BY <1>4 DEF WellOrShort, FirstBadShort
<1>7. NormalInv'
  BY <1>1 DEF NormalInv
<1>8. StatusInv'
  <2>1. \A t \in UrbThreads : at'[t] = "discard" => at[t] = "discard"
    BY <1>1, <1>2 DEF UrbThreads
  <2>2. Underway
    BY <1>2 DEF Underway
  <2> QED
    BY <1>1, <1>3, <2>1, <2>2 DEF OutcomeInv, StatusInv
<1>9. ReportInv'
  BY <1>1, <1>3, <1>5, <1>6 DEF ReportInv
<1> QED
  BY <1>7, <1>8, <1>9 DEF OutcomeInv

LEMMA SubmitOutcome ==
  ASSUME UrbsInv, NEW s \in Shapes, NEW by \in {"none", "waiting"}, Submit(s, by)
  PROVE  OutcomeInv'
<1>1. /\ \A i \in 1..N' : urbs'[i] = "none"
      /\ at'["handler"] \notin {"discard", "report"} /\ at'["user"] = "submit"
      /\ retired' = 0 /\ action' = "NORMAL" /\ reapStatus' = "completed" /\ filled' = <<>>
  BY SubmitStarts
<1>2. 1..retired' = {} /\ filled' = [i \in 1..retired' |-> i]
  BY <1>1
<1> QED
  BY <1>1, <1>2 DEF OutcomeInv, NormalInv, StatusInv, ReportInv, UrbThreads

LEMMA OutcomeStep ==
  ASSUME UrbsInv, UnitsInv, EndsInv, OutcomeInv, [UrbsNext]_urbVars, NoEarlyError
  PROVE  OutcomeInv'
BY StepIs, AsideOutcome, DepartingOutcome, QuietOutcome, BulkAbnormalOutcome, BulkNormalOutcome,
   IsoOutcome, ControlOutcome, SubmitOutcome DEF UrbHandled

-----------------------------------------------------------------------------
(* What is counted of the data, step by step.                              *)
LEMMA HandledSum ==
  ASSUME UrbsInv, UnitsInv, EndsInv, OrderInv, SumInv, OutcomeInv, UrbHandled
  PROVE  SumInv'
<1>1. /\ at["handler"] = "reaped" /\ xlock = "none" /\ holding' = 0
      /\ UNCHANGED <<shape, urbs, reapable, actual, bus>>
  BY HandledLeaves
<1>2. holding # 0 /\ allocated /\ Underway
  BY <1>1, Handling DEF UrbsInv, LifeInv, Underway
<1>3. N \in Nat \ {0} /\ holding \in 1..N /\ urbs[holding] \in Ends
  BY <1>2, ReapableAre
<1>4. CASE HandleBulkAbnormal
  <2>1. buffer' = Closed(holding) /\ transferred' = transferred + actual[holding]
    BY <1>4 DEF HandleBulkAbnormal
  <2> QED
    BY <1>1, <1>2, <2>1, HandleSum
<1>5. CASE HandleBulkNormal
  <2>1. /\ buffer' = buffer /\ transferred' = transferred + actual[holding]
        /\ action = "NORMAL" /\ shape.type \in {"bulk", "interrupt"}
    BY <1>5, BulkNormalIs
  <2>2. /\ retired \in Nat /\ holding = retired + 1
    BY <1>2, <2>1, RetiredFew
  <2>3. ASSUME actual[holding] > 0, NEW k \in 1..N, k < holding
        PROVE  actual[k] = Capacity
    <3>1. k \in 1..retired
      BY <2>2, <2>3
    <3>2. urbs[k] \in Ends \ {"short", "error"}
      BY <1>2, <2>1, <3>1 DEF OutcomeInv, NormalInv
    <3>3. urbs[k] \notin Stopping
      BY <1>3, <2>3 DEF EndsInv
    <3>4. urbs[k] = "ok"
      BY <3>2, <3>3 DEF Ends, Stopping
    <3> QED
      BY <2>1, <3>4 DEF UnitsInv
  <2> QED
    BY <1>1, <1>2, <2>1, <2>3, HandleSum
<1>6. CASE HandleControl
  <2>1. buffer' = buffer /\ transferred' = transferred + actual[holding] /\ shape.type = "control"
    BY <1>6 DEF HandleControl, Handles
  <2>2. N = 1
    BY <2>1, ShapeIs DEF UrbsInv, LifeInv
  <2>3. \A k \in 1..N : ~(k < holding)
    BY <1>3, <2>2
  <2> QED
    BY <1>1, <1>2, <2>1, <2>3, HandleSum
<1>7. CASE HandleIso
  <2>1. UNCHANGED <<buffer, transferred>> /\ shape.type = "iso"
    BY <1>7 DEF HandleIso, Handles
  <2>2. \A i \in 1..N : actual[i] = 0
    BY <2>1 DEF UnitsInv
  <2> QED
    BY <1>1, <1>2, <2>1, <2>2, SumFrame
<1> QED
  BY <1>4, <1>5, <1>6, <1>7 DEF UrbHandled

LEMMA NoRows ==
  ASSUME NEW c \in Nat
  PROVE  (1 - 1) * c = 0
OBVIOUS

LEMMA SubmitSum ==
  ASSUME UrbsInv, NEW s \in Shapes, NEW by \in {"none", "waiting"}, Submit(s, by)
  PROVE  SumInv'
<1>1. /\ N' \in Nat \ {0} /\ Capacity' \in Nat \ {0}
      /\ \A i \in 1..N' : urbs'[i] = "none" /\ actual'[i] = 0
      /\ reapable' = <<>> /\ holding' = 0 /\ bus' = <<>> /\ transferred' = 0
      /\ buffer' = [o \in Units |-> 0]
  BY SubmitStarts DEF Submit
<1>2. PICK n \in Nat \ {0} : n = N' /\ \A i \in 1..n : actual'[i] = 0
  BY <1>1
<1>3. PICK c \in Nat \ {0} : c = Capacity'
  BY <1>1
<1> DEFINE b == [i \in 1..(n + 1) |-> 0]
<1>4. ASSUME NEW i \in 1..(n + 1) PROVE 0 <= (i - 1) * c /\ (i - 1) * c \in Nat
  <2>1. i - 1 \in Nat
    BY <1>2
  <2> QED
    BY <2>1
<1>5. Sums(b)'
  <2>1. ASSUME NEW i \in 1..(n + 1), \A k \in 1..n : k < i => actual'[k] = c
        PROVE  0 = (i - 1) * c
    <3>1. i = 1
      <4>1. CASE i > 1
        <5>1. 1 \in 1..n /\ 1 < i
          BY <1>2, <4>1
        <5> QED
          BY <1>2, <1>3, <2>1, <5>1
      <4> QED
        BY <1>2, <4>1
    <3> QED
      BY <3>1, NoRows
  <2>3. b \in [1..(n + 1) -> Nat] /\ \A i \in 1..(n + 1) : b[i] = 0
    BY <1>2
  <2>4. 1 \in 1..(n + 1) /\ \A i \in 1..n : i \in 1..(n + 1) /\ i + 1 \in 1..(n + 1)
    OBVIOUS
  <2> HIDE DEF b
  <2>2. /\ b \in [1..(n + 1) -> Nat] /\ b[1] = 0
        /\ \A i, j \in 1..(n + 1) : b[i] = b[j] /\ b[i] <= b[j]
    BY <2>3, <2>4
  <2>5. \A i \in 1..n : b[i + 1] = b[i] + actual'[i]
    <3>1. ASSUME NEW i \in 1..n PROVE b[i + 1] = 0 /\ b[i] = 0 /\ actual'[i] = 0
      BY <1>2, <2>3, <2>4
    <3> QED
      BY <3>1
  <2>6. \A i \in 1..(n + 1) : b[i] <= (i - 1) * c
    BY <1>4, <2>3
  <2>7. \A i \in 1..(n + 1) : (\A k \in 1..n : k < i => actual'[k] = c) => b[i] = (i - 1) * c
    BY <2>1, <2>3
  <2> QED
    BY <1>2, <1>3, <2>2, <2>5, <2>6, <2>7 DEF Sums
<1>6. Counted(1)'
  <2>1. 1 \in 1..(n + 1) /\ \A i \in 1..n : i # 1 - 1
    OBVIOUS
  <2>2. ASSUME NEW i \in 1..N' PROVE ~(actual'[i] > 0)
    <3>1. actual'[i] = 0
      BY <1>2
    <3> QED
      BY <3>1
  <2> QED
    BY <1>2, <2>1, <2>2 DEF Counted
<1>7. Stored(b, 1)'
  <2>1. \A i \in 1..N' : 1..actual'[i] = {}
    BY <1>1
  <2>2. b[n + 1] = 0 /\ b[1] = 0
    OBVIOUS
  <2>3. 1..transferred' = {} /\ Len(bus') = 0
    BY <1>1
  <2> HIDE DEF b
  <2> QED
    BY <1>1, <1>2, <2>1, <2>2, <2>3 DEF Stored
<1>8. bus' \in Seq(Nat) /\ buffer' = [o \in Units |-> buffer'[o]]
  BY <1>1
<1> HIDE DEF b
<1> QED
  BY <1>5, <1>6, <1>7, <1>8 DEF SumInv, Summed

LEMMA SumStep ==
  ASSUME UrbsInv, UnitsInv, EndsInv, OrderInv, SumInv, OutcomeInv, [UrbsNext]_urbVars, NoEarlyError
  PROVE  SumInv'
<1>1. CASE Aside
  <2>1. UNCHANGED <<shape, urbs, reapable, holding, actual, bus, buffer, transferred>>
    BY <1>1, AsideLeaves
  <2>2. Underway' => Underway
    BY <1>1, AsideKeeps DEF Underway
  <2>3. \A i \in 1..N : Waiting(i)' <=> Waiting(i)
    BY <2>1 DEF Waiting
  <2> QED
    BY <2>1, <2>2, <2>3, SumFrame
<1>2. CASE AcceptUrb
  <2>1. /\ at["user"] = "submit" /\ urbs' = [urbs EXCEPT ![cursor] = "queued"]
        /\ UNCHANGED <<shape, actual, bus, buffer, transferred, reapable, holding, allocated>>
    BY <1>2 DEF AcceptUrb, transferVars, dataVars
  <2>2. /\ cursor \in 1..N /\ 1..N \subseteq 1..MaxUrbs
        /\ urbs \in [1..MaxUrbs -> {"none", "queued"} \union Ends]
    BY <2>1, ShapeIs DEF UrbsInv, LifeInv, LoopInv, QueueInv
  <2>3. actual[cursor] = 0
    <3>1. urbs[cursor] = "none"
      BY <2>1, <2>2 DEF EndsInv, UrbsInv, LoopInv
    <3> QED
      BY <2>2, <3>1 DEF UnitsInv
  <2>4. Underway' => Underway
    <3>1. allocated
      BY <2>1 DEF UrbsInv, LifeInv
    <3> QED
      BY <3>1 DEF Underway
  <2>5. \A i \in 1..N : actual[i] > 0 => (Waiting(i)' <=> Waiting(i))
    BY <2>1, <2>2, <2>3 DEF Waiting
  <2> QED
    BY <2>1, <2>4, <2>5, SumFrame
<1>3. CASE Departing
  <2>1. UNCHANGED <<shape, actual, bus, buffer, transferred>> /\ (Underway' => Underway)
    BY <1>3, DepartingLeaves DEF Underway
  <2>2. \A i \in 1..N : Waiting(i)' <=> Waiting(i)
    BY <1>3, Departs, DepartWait
  <2> QED
    BY <2>1, <2>2, SumFrame
<1>4. CASE Reap
  <2>1. /\ UNCHANGED <<shape, actual, bus, buffer, transferred, allocated>>
        /\ at["handler"] = "idle" /\ at' = [at EXCEPT !["handler"] = "reaped"]
    BY <1>4 DEF Reap, Goto, transferVars, dataVars
  <2>2. Underway' => Underway
    BY <2>1 DEF Underway, UrbsInv, LockInv, UrbThreads
  <2>3. \A i \in 1..N : Waiting(i)' <=> Waiting(i)
    BY <1>4, ReapWait
  <2> QED
    BY <2>1, <2>2, <2>3, SumFrame
<1>5. CASE Disconnect
  <2>1. ~Underway' /\ UNCHANGED <<bus, buffer>>
    BY <1>5 DEF Disconnect, Underway, dataVars, threadVars
  <2> QED
    BY <2>1 DEF SumInv
<1> QED
  BY <1>1, <1>2, <1>3, <1>4, <1>5, HandledSum, UnitSum, SubmitSum, StepIs

-----------------------------------------------------------------------------
(* What was sent is the start of the buffer, unless a URB failed with a    *)
(* part of it and the device was given the next one.                       *)
SentInv ==
  ~shape.in /\ (\A i \in 1..N : urbs[i] # "error") => \A k \in 1..Len(bus) : bus[k] = k

LEMMA UnitSent ==
  ASSUME UrbsInv, UnitsInv, EndsInv, SumInv, SentInv, NEW i \in 1..MaxUrbs, TransferUnit(i)
  PROVE  SentInv'
<1>1. /\ i \in 1..N /\ urbs[i] = "queued" /\ allocated /\ shape.type # "iso" /\ actual[i] < Capacity
      /\ endpoint = "running"
      /\ \A j \in 1..N : j > i => actual[j] = 0
      /\ \A j \in 1..N : j < i => urbs[j] # "queued"
      /\ N' = N /\ UNCHANGED <<shape, urbs>>
  BY UnitIs
<1>2. /\ N \in Nat \ {0} /\ Capacity \in Nat \ {0}
      /\ \A j \in 1..N : actual[j] \in Nat
  BY SumFacts
<1> SUFFICES ASSUME ~shape.in, \A j \in 1..N : urbs[j] # "error"
             PROVE  \A k \in 1..Len(bus') : bus'[k] = k
  BY <1>1 DEF SentInv
<1>3. ASSUME NEW j \in 1..N, j < i PROVE actual[j] = Capacity
  <2>1. urbs[j] \notin {"none", "queued"}
    BY <1>1, <1>3 DEF UnitsInv
  <2>2. urbs[j] \notin Stopping
    BY <1>1, <1>3 DEF EndsInv
  <2>3. urbs[j] # "short"
    BY DEF UnitsInv
  <2>4. urbs[j] \in {"none", "queued"} \union Ends
    BY SumFacts DEF UrbsInv, QueueInv
  <2>5. urbs[j] = "ok"
    BY <2>1, <2>2, <2>3, <2>4 DEF Stopping, Ends
  <2> QED
    BY <1>1, <2>5 DEF UnitsInv
<1>4. PICK b, h : Sums(b) /\ Counted(h) /\ Stored(b, h)
  BY <1>1 DEF SumInv, Summed, Underway
<1> DEFINE row == (i - 1) * Capacity
<1>5. b[i] = row /\ b[i + 1] = b[i] + actual[i] /\ b[i + 1] = b[N + 1] /\ Len(bus) = b[N + 1]
  <2>1. /\ i \in 1..(N + 1) /\ i + 1 \in 1..(N + 1) /\ N + 1 \in 1..(N + 1) /\ i + 1 <= N + 1
        /\ \A k \in 1..N : i + 1 <= k /\ k < N + 1 => actual[k] = 0
    BY <1>1, <1>2
  <2>2. b[i] = row
    BY <1>3, <1>4, <2>1 DEF Sums
  <2>3. b[i + 1] = b[N + 1]
    BY <1>4, <2>1 DEF Sums
  <2>4. b[i + 1] = b[i] + actual[i]
    BY <1>1, <1>4 DEF Sums
  <2>5. Len(bus) = b[N + 1]
    BY <1>4 DEF Stored
  <2> QED
    BY <2>2, <2>3, <2>4, <2>5
<1>6. row \in Nat
  BY <1>2, RowsApart
<1>7. bus' = Append(bus, row + actual[i] + 1) /\ bus \in Seq(Nat)
  BY DEF TransferUnit, SumInv
<1> HIDE DEF row
<1>8. Len(bus) = row + actual[i] /\ row + actual[i] + 1 \in Nat
  BY <1>2, <1>5, <1>6
<1>9. /\ Len(bus') = Len(bus) + 1 /\ bus'[Len(bus) + 1] = row + actual[i] + 1
      /\ \A k \in 1..Len(bus) : bus'[k] = bus[k]
  BY <1>7, <1>8, AppendProperties
<1>10. \A k \in 1..Len(bus) : bus[k] = k
  BY DEF SentInv
<1>11. \A k \in 1..(Len(bus) + 1) : k \in 1..Len(bus) \/ k = Len(bus) + 1
  BY <1>2, <1>6, <1>8
<1> QED
  BY <1>8, <1>9, <1>10, <1>11

LEMMA SentStep ==
  ASSUME UrbsInv, UnitsInv, EndsInv, SumInv, SentInv, [UrbsNext]_urbVars
  PROVE  SentInv'
<1>1. CASE Aside \/ AcceptUrb \/ Departing \/ Reap \/ UrbHandled \/ Disconnect
  <2>1. UNCHANGED bus
    <3>1. CASE AcceptUrb \/ Reap \/ Disconnect
      BY <3>1 DEF AcceptUrb, Reap, Disconnect, dataVars
    <3> QED
      BY <1>1, <3>1, AsideLeaves, HandledLeaves, DepartingLeaves
  <2>2. UNCHANGED shape /\ \A i \in 1..N : urbs[i] \in Ends => urbs'[i] = urbs[i]
    BY <1>1, EndedStay
  <2>3. N' = N /\ "error" \in Ends
    BY <2>2 DEF N, Ends
  <2> QED
    BY <2>1, <2>2, <2>3 DEF SentInv
<1>2. ASSUME NEW s \in Shapes, NEW by \in {"none", "waiting"}, Submit(s, by)
      PROVE  SentInv'
  <2>1. bus' = <<>>
    BY <1>2, SubmitStarts
  <2>2. 1..Len(bus') = {}
    BY <2>1, NoIndices
  <2> QED
    BY <2>2 DEF SentInv
<1> QED
  BY <1>1, <1>2, UnitSent, StepIs

-----------------------------------------------------------------------------
DataInv == UnitsInv /\ EndsInv /\ OrderInv /\ OutcomeInv /\ SumInv /\ SentInv

LEMMA DataInitial == UrbsInit => DataInv
<1> SUFFICES ASSUME UrbsInit
             PROVE  DataInv
  OBVIOUS
<1>1. /\ at = [t \in UrbThreads |-> "idle"] /\ shape \in Shapes
      /\ allocated = FALSE /\ action = "NORMAL" /\ reapStatus = "completed"
      /\ urbs = [i \in 1..MaxUrbs |-> "none"] /\ reapable = <<>> /\ endpoint = "running"
      /\ actual = [i \in 1..MaxUrbs |-> 0] /\ bus = <<>> /\ holding = 0
  BY DEF UrbsInit
<1>2. N \in Nat \ {0} /\ Capacity \in Nat \ {0} /\ 1..N \subseteq 1..MaxUrbs
  BY <1>1, ShapeIs
<1>3. \A i \in 1..N : urbs[i] = "none" /\ actual[i] = 0
  BY <1>1, <1>2
<1>4. /\ at["user"] = "idle" /\ at["handler"] = "idle"
      /\ \A t \in UrbThreads : at[t] = "idle"
  BY <1>1 DEF UrbThreads
<1>5. UnitsInv
  BY <1>1, <1>2, <1>3 DEF UnitsInv
<1>6. EndsInv
  BY <1>1, <1>3, <1>4 DEF EndsInv, Disabling, Stopping
<1>7. OrderInv
  <2>1. 1..Len(reapable) = {}
    BY <1>1, NoIndices
  <2> QED
    BY <1>1, <2>1 DEF OrderInv, Ordered
<1>8. OutcomeInv
  BY <1>1, <1>4 DEF OutcomeInv, NormalInv, StatusInv, ReportInv
<1>9. SumInv
  <2>1. bus \in Seq(Nat) /\ buffer = [o \in Units |-> 0]
    BY <1>1 DEF UrbsInit
  <2>2. buffer = [o \in Units |-> buffer[o]]
    BY <2>1
  <2>3. ~Underway
    BY <1>1, <1>4 DEF Underway
  <2> QED
    BY <2>1, <2>2, <2>3 DEF SumInv
<1>10. SentInv
  <2>1. 1..Len(bus) = {}
    BY <1>1, NoIndices
  <2> QED
    BY <2>1 DEF SentInv
<1> QED
  BY <1>5, <1>6, <1>7, <1>8, <1>9, <1>10 DEF DataInv

LEMMA DataStep ==
  ASSUME UrbsInv, DataInv, [UrbsNext]_urbVars, NoEarlyError
  PROVE  DataInv'
<1>1. UnitsInv /\ EndsInv /\ OrderInv /\ OutcomeInv /\ SumInv /\ SentInv
  BY DEF DataInv
<1>2. UnitsInv' /\ EndsInv'
  BY <1>1, EndsStep
<1>3. OrderInv' /\ OutcomeInv' /\ SumInv' /\ SentInv'
  BY <1>1, OrderStep, OutcomeStep, SumStep, SentStep
<1> QED
  BY <1>2, <1>3 DEF DataInv

-----------------------------------------------------------------------------
LEMMA LeastIs ==
  ASSUME NEW S \in SUBSET Nat, NEW m \in S, \A n \in S : m <= n
  PROVE  Min(S) = m
<1>1. \A x \in S : (\A n \in S : x =< n) => x = m
  OBVIOUS
<1> QED
  BY <1>1 DEF Min

(* The handler reports when all that was moved has been counted.           *)
LEMMA AllCounted ==
  ASSUME UrbsInv, UnitsInv, SumInv, at["handler"] = "report"
  PROVE  /\ Len(bus) = transferred
         /\ shape.in => \A o \in 1..transferred : buffer[o] = o
<1>1. ~allocated /\ Underway
  BY DEF UrbsInv, LifeInv, LockInv, Underway
<1>2. /\ N \in Nat \ {0} /\ \A i \in 1..N : actual[i] \in Nat
  BY SumFacts
<1>3. PICK b, h : Sums(b) /\ Counted(h) /\ Stored(b, h)
  BY <1>1 DEF SumInv, Summed
<1>4. \A i \in 1..N : ~Waiting(i)
  <2>1. Queued = {} /\ reapable = <<>> /\ holding = 0
    BY <1>1 DEF UrbsInv, UrbsOwned
  <2>2. 1..Len(reapable) = {}
    BY <2>1, NoIndices
  <2> QED
    BY <1>2, <2>1, <2>2 DEF Waiting, Queued
<1>5. b[h] = b[N + 1]
  <2>1. \A k \in 1..N : h <= k => actual[k] = 0
    <3>1. \A k \in 1..N : actual[k] > 0 => ~(k >= h)
      BY <1>3, <1>4 DEF Counted
    <3>2. h \in 1..(N + 1)
      BY <1>3 DEF Counted
    <3> QED
      BY <1>2, <3>1, <3>2
  <2>2. h \in 1..(N + 1) /\ N + 1 \in 1..(N + 1) /\ h <= N + 1
    BY <1>2, <1>3 DEF Counted
  <2> QED
    BY <1>3, <2>1, <2>2 DEF Sums
<1> QED
  BY <1>3, <1>5 DEF Stored

LEMMA AnswerIsWell ==
  ASSUME ReportInv, at["handler"] = "report", Answer = "completed"
  PROVE  WellOrShort /\ (shape.type = "iso" => filled = [i \in 1..N |-> i])
<1>1. ~EndedEarly
  BY DEF Answer
<1>2. CASE verdict = "by_action"
  BY <1>1, <1>2 DEF Answer, EndedEarly, ReportInv
<1>3. CASE verdict # "by_action"
  BY <1>1, <1>3 DEF Answer, ReportInv
<1> QED
  BY <1>2, <1>3

LEMMA DataIsAsTold ==
  ASSUME UrbsInv, DataInv
  PROVE  DataKept
<1> SUFFICES ASSUME at["handler"] = "report"
             PROVE  /\ shape.type # "iso" => Len(bus) = transferred
                    /\ shape.in => \A o \in 1..transferred : buffer[o] = o
                    /\ ~shape.in /\ (\A i \in 1..N : urbs[i] # "error") => bus = [o \in 1..transferred |-> o]
                    /\ shape.type = "iso" /\ Answer = "completed" => filled = [i \in 1..N |-> i]
                    /\ Answer = "completed" =>
                         LET bad == {i \in 1..N : urbs[i] # "ok"} IN bad = {} \/ urbs[Min(bad)] = "short"
  BY DEF DataKept
<1>1. UnitsInv /\ SumInv /\ SentInv /\ ReportInv
  BY DEF DataInv, OutcomeInv
<1>2. /\ Len(bus) = transferred
      /\ shape.in => \A o \in 1..transferred : buffer[o] = o
  BY <1>1, AllCounted
<1>3. ~shape.in /\ (\A i \in 1..N : urbs[i] # "error") => bus = [o \in 1..transferred |-> o]
  <2>1. bus \in Seq(Nat)
    BY <1>1 DEF SumInv
  <2>2. bus = [k \in 1..Len(bus) |-> bus[k]]
    BY <2>1
  <2> QED
    BY <1>1, <1>2, <2>2 DEF SentInv
<1>4. ASSUME Answer = "completed"
      PROVE  /\ shape.type = "iso" => filled = [i \in 1..N |-> i]
             /\ LET bad == {i \in 1..N : urbs[i] # "ok"} IN bad = {} \/ urbs[Min(bad)] = "short"
  <2> DEFINE bad == {i \in 1..N : urbs[i] # "ok"}
  <2>1. WellOrShort /\ (shape.type = "iso" => filled = [i \in 1..N |-> i])
    BY <1>1, <1>4, AnswerIsWell
  <2>2. bad = {} \/ urbs[Min(bad)] = "short"
    <3>1. CASE \A i \in 1..N : urbs[i] = "ok"
      BY <3>1
    <3>2. CASE FirstBadShort
      <4>1. PICK i \in 1..N : urbs[i] = "short" /\ \A j \in 1..N : j < i => urbs[j] = "ok"
        BY <3>2 DEF FirstBadShort
      <4>2. bad \in SUBSET Nat /\ i \in bad /\ \A j \in bad : i <= j
        BY <4>1
      <4> HIDE DEF bad
      <4>3. Min(bad) = i
        BY <4>2, LeastIs
      <4> QED
        BY <4>1, <4>3
    <3> QED
      BY <2>1, <3>1, <3>2 DEF WellOrShort
  <2> QED
    BY <2>1, <2>2
<1> QED
  BY <1>2, <1>3, <1>4

(* What the handler is about to report of the data is what was transferred,*)
(* and "completed" is reported only of a transfer whose URBs ended well or *)
(* of which the first that did not ended short (handle_bulk_completion(),  *)
(* handle_iso_completion(), handle_control_completion()).  The second      *)
(* assumption leaves out a URB that fails before all are submitted: then   *)
(* submit_bulk_transfer() takes the kernel's refusal of the next one for   *)
(* the early end of a transfer that went well.                             *)
THEOREM DataIsKept ==
  ASSUME "lone_stall" \notin UrbFaults, "early_error" \notin UrbFaults
  PROVE  UrbsSpec => []DataKept
<1>1. NoEarlyError
  BY DEF NoEarlyError
<1>2. UrbsInit => UrbsInv /\ DataInv
  BY UrbsInitInv, DataInitial
<1>3. UrbsInv /\ DataInv /\ [UrbsNext]_urbVars => (UrbsInv /\ DataInv)'
  BY <1>1, UrbsStep, DataStep
<1>4. UrbsInv /\ DataInv => DataKept
  BY DataIsAsTold
<1> QED
  BY <1>2, <1>3, <1>4, PTL DEF UrbsSpec

-----------------------------------------------------------------------------
(* The types.  That what is counted fits into the buffer takes what the    *)
(* proofs above say of the data: no unit is counted twice.                 *)
Bounded ==
  Underway => transferred \in 0..(N * Capacity) /\ Len(bus) \in 0..(N * Capacity)

RestTypes ==
  /\ cursor \in 0..MaxUrbs /\ last \in 0..MaxUrbs
  /\ retired \in 0..N /\ reapStatus \in Statuses /\ transferred \in 0..(N * Capacity)
  /\ expired \in BOOLEAN /\ filled \in Seq(1..N) /\ Len(filled) <= retired
  /\ verdict \in {"by_action"} \union Statuses
  /\ actual \in [1..MaxUrbs -> Units \union {0}]
  /\ buffer \in [Units -> Units \union {0}] /\ bus \in Seq(Units)
  /\ device \in {"there", "gone"} /\ told \in Statuses \union {"none"}
  /\ cancelAsked \in BOOLEAN /\ sync \in {"none", "waiting", "failed", "dangling"}

LEMMA SumsBounded ==
  ASSUME UrbsInv, DataInv
  PROVE  Bounded
<1> SUFFICES ASSUME Underway
             PROVE  transferred \in 0..(N * Capacity) /\ Len(bus) \in 0..(N * Capacity)
  BY DEF Bounded
<1>1. N \in Nat \ {0}
  BY SumFacts DEF DataInv
<1>2. N * Capacity \in Nat
  BY UnitsAre DEF UrbsInv, LifeInv
<1>3. PICK b, h : Sums(b) /\ Counted(h) /\ Stored(b, h)
  BY DEF DataInv, SumInv, Summed
<1> DEFINE all == N * Capacity
<1>4. b[h] \in Nat /\ b[N + 1] \in Nat /\ b[h] <= b[N + 1] /\ b[N + 1] <= all
  <2>1. h \in 1..(N + 1) /\ N + 1 \in 1..(N + 1) /\ h <= N + 1 /\ (N + 1) - 1 = N
    BY <1>1, <1>3 DEF Counted
  <2>2. b[N + 1] <= ((N + 1) - 1) * Capacity
    BY <1>3, <2>1 DEF Sums
  <2>3. b[N + 1] <= N * Capacity
    BY <2>1, <2>2
  <2> QED
    BY <1>3, <2>1, <2>3 DEF Sums
<1>5. all \in Nat
  BY <1>2
<1>6. transferred = b[h] /\ Len(bus) = b[N + 1]
  BY <1>3 DEF Stored
<1> HIDE DEF all
<1>7. transferred \in 0..all /\ Len(bus) \in 0..all
  BY <1>4, <1>5, <1>6
<1> QED
  BY <1>7 DEF all

LEMMA CellIs ==
  ASSUME UrbsInv, NEW i \in 1..N, NEW a \in 1..Capacity
  PROVE  (i - 1) * Capacity \in Nat /\ (i - 1) * Capacity + a \in Units
<1>1. N \in Nat \ {0} /\ Capacity \in Nat \ {0}
  BY ShapeIs DEF UrbsInv, LifeInv
<1>2. N * Capacity \in Nat /\ \A o \in 1..(N * Capacity) : o \in Units
  BY UnitsAre DEF UrbsInv, LifeInv
<1>3. (i - 1) * Capacity + Capacity <= ((N + 1) - 1) * Capacity /\ (i - 1) * Capacity \in Nat
  BY <1>1, RowsApart
<1>4. (N + 1) - 1 = N
  BY <1>1
<1> DEFINE mine == (i - 1) * Capacity
           all == N * Capacity
<1>5. mine + Capacity <= all /\ mine \in Nat /\ all \in Nat /\ \A o \in 1..all : o \in Units
  BY <1>2, <1>3, <1>4
<1> HIDE DEF mine, all
<1>6. mine + a \in 1..all
  BY <1>1, <1>5
<1> QED
  BY <1>5, <1>6 DEF mine

(* Units of one URB are units.                                             *)
LEMMA FewAreUnits ==
  ASSUME UrbsInv
  PROVE  /\ 1..Capacity \subseteq Units /\ 1..(N * Capacity) \subseteq Units /\ N * Capacity \in Nat
         /\ N \in Nat \ {0} /\ Capacity \in Nat \ {0} /\ N <= MaxUrbs /\ MaxUrbs \in Nat
         /\ Units \subseteq Nat
<1>1. /\ N \in Nat \ {0} /\ Capacity \in Nat \ {0} /\ N <= MaxUrbs /\ MaxUrbs \in Nat
  BY ShapeIs DEF UrbsInv, LifeInv
<1>2. N * Capacity \in Nat /\ \A o \in 1..(N * Capacity) : o \in Units
  BY UnitsAre DEF UrbsInv, LifeInv
<1>3. ASSUME NEW a \in 1..Capacity PROVE a \in Units
  <2>1. 1 \in 1..N /\ (1 - 1) * Capacity = 0
    BY <1>1
  <2>2. (1 - 1) * Capacity + a \in Units
    BY <2>1, CellIs
  <2>3. (1 - 1) * Capacity + a = a
    BY <1>1, <2>1
  <2> QED
    BY <2>2, <2>3
<1>4. Units \subseteq Nat
  BY DEF Units
<1> QED
  BY <1>1, <1>2, <1>3, <1>4

(* The data of a step that leaves the data alone.                          *)
LEMMA RestFrame ==
  ASSUME UrbsInv, RestTypes,
         UNCHANGED <<shape, retired, reapStatus, transferred, filled, actual, buffer, bus>>,
         cursor' \in 0..MaxUrbs, last' \in 0..MaxUrbs,
         expired' \in BOOLEAN, verdict' \in {"by_action"} \union Statuses,
         device' \in {"there", "gone"}, told' \in Statuses \union {"none"},
         cancelAsked' \in BOOLEAN, sync' \in {"none", "waiting", "failed", "dangling"}
  PROVE  RestTypes'
<1>1. N' = N /\ Capacity' = Capacity
  BY DEF N, Capacity
<1> QED
  BY <1>1 DEF RestTypes

LEMMA CursorTypes ==
  ASSUME UrbsInv, RestTypes, NEW t \in UrbThreads, DiscardUrb(t)
  PROVE  cursor' \in 0..MaxUrbs /\ last' \in 0..MaxUrbs
<1>1. /\ at[t] = "discard" /\ last' = last
      /\ cursor' = cursor \/ (cursor # last /\ cursor' = IF last < cursor THEN cursor - 1 ELSE cursor + 1)
  BY DEF DiscardUrb, Leave
<1>2. last \in 1..N /\ cursor \in last..N /\ N \in Nat /\ MaxUrbs \in Nat /\ N <= MaxUrbs
  BY <1>1, FewAreUnits DEF UrbsInv, LoopInv
<1> QED
  BY <1>1, <1>2

(* Steps of the program and of the kernel that move no data.               *)
LEMMA QuietRest ==
  ASSUME UrbsInv, RestTypes,
         \/ AcceptUrb \/ RefuseFirst \/ (\E t \in UrbThreads : DiscardUrb(t)) \/ SyncReturns \/ Reap
         \/ Report \/ Disconnect \/ CancelByProgram \/ CancelByTimeout \/ WaitFails \/ RewaitFails
         \/ (\E i \in 1..MaxUrbs : CompleteUrb(i) \/ ShortUrb(i) \/ FailUrb(i)) \/ Vanish
  PROVE  RestTypes'
<1> USE DEF transferVars, queueVars, dataVars, programVars, threadVars, Goto
<1>1. /\ N \in Nat \ {0} /\ N <= MaxUrbs /\ MaxUrbs \in Nat
      /\ 1 \in 0..MaxUrbs /\ N \in 0..MaxUrbs
  BY FewAreUnits
<1>2. CASE AcceptUrb
  <2>1. cursor \in 1..N /\ last = N
    BY <1>2 DEF AcceptUrb, UrbsInv, LoopInv
  <2>2. cursor' \in 0..MaxUrbs /\ last' \in 0..MaxUrbs
    <3>1. last' = last /\ (cursor' = cursor \/ (cursor # last /\ cursor' = cursor + 1))
      BY <1>2 DEF AcceptUrb, Leave
    <3> QED
      BY <1>1, <2>1, <3>1
  <2> QED
    BY <1>2, <2>2, RestFrame DEF AcceptUrb, RestTypes
<1>3. CASE RefuseFirst \/ SyncReturns \/ Reap \/ RewaitFails
  BY <1>3, RestFrame DEF RefuseFirst, SyncReturns, Reap, RewaitFails, RestTypes
<1>4. ASSUME NEW t \in UrbThreads, DiscardUrb(t) PROVE RestTypes'
  BY <1>4, CursorTypes, RestFrame DEF DiscardUrb, RestTypes
<1>5. CASE Report
  <2>1. Answer \in Statuses
    BY DEF Answer, Statuses, RestTypes
  <2> QED
    BY <1>5, <2>1, RestFrame DEF Report, RestTypes
<1>6. CASE Disconnect
  BY <1>6, RestFrame DEF Disconnect, RestTypes, Statuses
<1>7. CASE CancelByProgram \/ CancelByTimeout \/ WaitFails
  <2>1. cursor' \in 0..MaxUrbs /\ last' \in 0..MaxUrbs
    BY <1>1, <1>7 DEF CancelByProgram, CancelByTimeout, WaitFails, Cancel, DiscardUrbs, RestTypes
  <2> QED
    BY <1>7, <2>1, RestFrame DEF CancelByProgram, CancelByTimeout, WaitFails, Cancel, RestTypes
<1>8. CASE (\E i \in 1..MaxUrbs : CompleteUrb(i) \/ ShortUrb(i) \/ FailUrb(i)) \/ Vanish
  <2>1. /\ UNCHANGED <<shape, retired, reapStatus, transferred, filled, actual, buffer, bus, cursor, last,
                      expired, verdict, told, cancelAsked, sync>>
        /\ device' \in {"there", "gone"}
    <3>1. ASSUME NEW i \in 1..MaxUrbs, NEW how, End(i, how)
          PROVE  KernelLeaves /\ UNCHANGED <<actual, buffer, bus, device>>
      BY <3>1 DEF End
    <3>2. KernelLeaves /\ UNCHANGED <<actual, buffer, bus>> /\ device' \in {device, "gone"}
      <4>1. CASE Vanish
        BY <4>1 DEF Vanish
      <4>2. CASE \E i \in 1..MaxUrbs : CompleteUrb(i) \/ ShortUrb(i) \/ FailUrb(i)
        BY <3>1, <4>2 DEF CompleteUrb, ShortUrb, FailUrb
      <4> QED
        BY <1>8, <4>1, <4>2
    <3> QED
      BY <3>2 DEF KernelLeaves, RestTypes
  <2> QED
    BY <2>1, RestFrame DEF RestTypes
<1> QED
  BY <1>2, <1>3, <1>4, <1>5, <1>6, <1>7, <1>8

LEMMA RefuseRest ==
  ASSUME UrbsInv, RestTypes, RefuseNeedless \/ RefuseLater
  PROVE  RestTypes'
<1>1. /\ N \in Nat \ {0} /\ N <= MaxUrbs /\ MaxUrbs \in Nat /\ cursor > 1
      /\ retired = 0 /\ cursor \in 1..N /\ last = N /\ N' = N /\ Capacity' = Capacity
  BY FewAreUnits DEF UrbsInv, LoopInv, RefuseNeedless, RefuseLater, N, Capacity
<1>2. /\ retired' = retired + (N - cursor + 1)
      /\ (cursor' = cursor /\ last' = last) \/ (cursor' = cursor - 1 /\ last' = 1)
      /\ UNCHANGED <<shape, reapStatus, transferred, expired, filled, verdict, actual, buffer, bus,
                     device, told, cancelAsked, sync>>
  BY DEF RefuseNeedless, RefuseLater, RetireUnsubmitted, Leave, DiscardUrbs, dataVars
<1>3. retired' \in 0..N /\ retired <= retired' /\ cursor' \in 0..MaxUrbs /\ last' \in 0..MaxUrbs
  BY <1>1, <1>2
<1>4. Len(filled) \in Nat /\ Len(filled) <= retired'
  <2>1. filled \in Seq(1..N) /\ Len(filled) <= retired
    BY DEF RestTypes
  <2>2. Len(filled) \in Nat
    BY <2>1, LenProperties
  <2> QED
    BY <1>1, <1>3, <2>1, <2>2
<1> QED
  BY <1>1, <1>2, <1>3, <1>4 DEF RestTypes

LEMMA SubmitRest ==
  ASSUME UrbsInv, RestTypes, NEW s \in Shapes, NEW by \in {"none", "waiting"}, Submit(s, by)
  PROVE  RestTypes'
<1>1. /\ N' \in Nat \ {0} /\ 1..N' \subseteq 1..MaxUrbs /\ transferred' = 0 /\ retired' = 0
      /\ filled' = <<>> /\ bus' = <<>> /\ reapStatus' = "completed" /\ shape' \in Shapes
      /\ cursor' = 1
  BY SubmitStarts
<1>2. /\ last' = s.urbs /\ N' = s.urbs /\ expired' = FALSE /\ cancelAsked' = FALSE /\ told' = "none"
      /\ sync' = by /\ actual' = [i \in 1..MaxUrbs |-> 0] /\ buffer' = [o \in Units |-> 0]
      /\ UNCHANGED <<verdict, device>>
  BY DEF Submit, N
<1>3. cursor' \in 0..MaxUrbs /\ last' \in 0..MaxUrbs
  BY <1>1, <1>2, ShapeIs DEF UrbsInv, LifeInv
<1>4. 0 \in 0..(N' * Capacity')
  <2>1. N' * Capacity' \in Nat
    <3>1. Capacity' \in Nat
      BY SubmitStarts
    <3>2. \A m, n \in Nat : m * n \in Nat
      OBVIOUS
    <3> QED
      BY <1>1, <3>1, <3>2
  <2> QED
    BY <2>1
<1>5. /\ filled' \in Seq(1..N') /\ Len(filled') = 0 /\ bus' \in Seq(Units) /\ 0 \in 0..N'
      /\ 0 <= 0
  BY <1>1
<1> QED
  BY <1>1, <1>2, <1>3, <1>4, <1>5 DEF RestTypes, Statuses

LEMMA UnitRest ==
  ASSUME UrbsInv, DataInv, RestTypes, Bounded', NEW i \in 1..MaxUrbs, TransferUnit(i)
  PROVE  RestTypes'
<1>1. /\ i \in 1..N /\ allocated /\ actual[i] < Capacity /\ N' = N /\ Capacity' = Capacity
      /\ UNCHANGED <<shape, transferred, allocated>>
  BY UnitIs DEF DataInv
<1> PICK offset : offset = (i - 1) * Capacity + actual[i] + 1
  OBVIOUS
<1>2. /\ bus' = Append(bus, IF shape.in THEN Len(bus) + 1 ELSE offset)
      /\ buffer' = IF shape.in THEN [buffer EXCEPT ![offset] = Len(bus) + 1] ELSE buffer
      /\ actual' = [actual EXCEPT ![i] = @ + 1]
      /\ UNCHANGED <<cursor, last, retired, reapStatus, expired, filled, verdict, device, told,
                     cancelAsked, sync>>
  BY DEF TransferUnit, KernelLeaves, threadVars, transferVars, programVars
<1>3. /\ actual[i] \in Nat /\ Capacity \in Nat /\ N * Capacity \in Nat
      /\ 1..Capacity \subseteq Units /\ 1..(N * Capacity) \subseteq Units
      /\ bus \in Seq(Units) /\ Len(bus) \in Nat
  BY <1>1, FewAreUnits, SumFacts, LenProperties DEF DataInv, RestTypes
<1>4. actual[i] + 1 \in Units
  BY <1>1, <1>3
<1>5. offset \in Units
  <2>1. actual[i] + 1 \in 1..Capacity
    BY <1>1, <1>3
  <2>2. (i - 1) * Capacity \in Nat /\ (i - 1) * Capacity + (actual[i] + 1) \in Units
    BY <1>1, <2>1, CellIs
  <2>3. offset = (i - 1) * Capacity + (actual[i] + 1)
    <3> DEFINE mine == (i - 1) * Capacity
    <3>1. mine \in Nat /\ offset = mine + actual[i] + 1
      BY <2>2
    <3> HIDE DEF mine
    <3>2. offset = mine + (actual[i] + 1)
      BY <1>3, <3>1
    <3> QED
      BY <3>2 DEF mine
  <2> QED
    BY <2>2, <2>3
<1>6. Len(bus) + 1 \in Units
  <2>1. Len(bus') \in 0..(N * Capacity)
    BY <1>1 DEF Bounded, Underway
  <2>2. Len(bus') = Len(bus) + 1
    <3>1. ASSUME NEW e PROVE Len(Append(bus, e)) = Len(bus) + 1
      BY <1>3
    <3> QED
      BY <1>2, <3>1
  <2> DEFINE all == N * Capacity
  <2>3. Len(bus) + 1 \in 0..all /\ all \in Nat
    BY <1>3, <2>1, <2>2
  <2> HIDE DEF all
  <2>4. Len(bus) + 1 \in 1..all
    BY <1>3, <2>3
  <2> QED
    BY <1>3, <2>4 DEF all
<1>7. bus' \in Seq(Units)
  <2>1. (IF shape.in THEN Len(bus) + 1 ELSE offset) \in Units
    BY <1>5, <1>6
  <2> QED
    BY <1>2, <1>3, <2>1, AppendProperties
<1>8. buffer' \in [Units -> Units \union {0}] /\ actual' \in [1..MaxUrbs -> Units \union {0}]
  BY <1>2, <1>4, <1>5, <1>6 DEF RestTypes
<1> QED
  BY <1>1, <1>2, <1>7, <1>8 DEF RestTypes

LEMMA ClosedTypes ==
  ASSUME UrbsInv, DataInv, RestTypes, NEW i \in 1..N
  PROVE  Closed(i) \in [Units -> Units \union {0}]
<1>1. /\ actual[i] \in Nat /\ actual[i] <= Capacity /\ transferred \in Nat /\ Units \subseteq Nat
      /\ Capacity \in Nat /\ buffer \in [Units -> Units \union {0}]
  BY SumFacts, FewAreUnits DEF DataInv, RestTypes
<1>2. ASSUME NEW o \in Units, o - transferred \in 1..actual[i]
      PROVE  buffer[(i - 1) * Capacity + o - transferred] \in Units \union {0}
  <2>1. o - transferred \in 1..Capacity /\ o \in Nat
    BY <1>1, <1>2
  <2>2. (i - 1) * Capacity \in Nat /\ (i - 1) * Capacity + (o - transferred) \in Units
    BY <2>1, CellIs
  <2>3. (i - 1) * Capacity + o - transferred = (i - 1) * Capacity + (o - transferred)
    <3> DEFINE mine == (i - 1) * Capacity
    <3>1. mine \in Nat
      BY <2>2
    <3> HIDE DEF mine
    <3>2. mine + o - transferred = mine + (o - transferred)
      BY <1>1, <2>1, <3>1
    <3> QED
      BY <3>2 DEF mine
  <2> QED
    BY <1>1, <2>2, <2>3
<1> QED
  BY <1>1, <1>2 DEF Closed

LEMMA HandledRest ==
  ASSUME UrbsInv, DataInv, RestTypes, Bounded', UrbHandled
  PROVE  RestTypes'
<1>1. /\ at["handler"] = "reaped" /\ xlock = "none"
      /\ UNCHANGED <<shape, expired, actual, bus, device, told, cancelAsked, sync>>
  BY DEF UrbHandled, HandleBulkAbnormal, HandleBulkNormal, HandleIso, HandleControl, Handles, programVars
<1>2. /\ holding \in 1..N /\ urbs[holding] \in Ends /\ N \in Nat \ {0} /\ retired \in Nat
      /\ retired + 1 <= N
  BY <1>1, Handling
<1>3. N' = N /\ Capacity' = Capacity
  BY <1>1 DEF N, Capacity
<1>4. transferred' \in 0..(N' * Capacity')
  <2>1. CASE HandleIso
    BY <2>1, <1>3 DEF HandleIso, RestTypes
  <2>2. CASE ~HandleIso
    <3>1. Underway'
      <4>1. allocated
        BY <1>1, Handling
      <4>2. allocated' = allocated \/ at'["handler"] = "report"
        BY <1>1, <2>2 DEF UrbHandled, HandleBulkAbnormal, HandleBulkNormal, HandleControl, Complete, Retain, Goto,
           UrbsInv, LockInv, UrbThreads
      <4> QED
        BY <4>1, <4>2 DEF Underway
    <3> QED
      BY <3>1 DEF Bounded
  <2> QED
    BY <2>1, <2>2
<1>5. buffer' \in [Units -> Units \union {0}]
  <2>1. buffer' = buffer \/ buffer' = Closed(holding)
    BY DEF UrbHandled, HandleBulkAbnormal, HandleBulkNormal, HandleIso, HandleControl
  <2> QED
    BY <1>2, <2>1, ClosedTypes DEF RestTypes
<1>6. retired' \in 0..N /\ filled' \in Seq(1..N) /\ Len(filled') <= retired'
  <2>1. filled \in Seq(1..N) /\ Len(filled) \in Nat /\ Len(filled) <= retired
    BY LenProperties DEF RestTypes
  <2>2. CASE HandleIso
    <3>1. filled' = Append(filled, holding) /\ retired' = retired + 1
      BY <2>2 DEF HandleIso
    <3>2. Append(filled, holding) \in Seq(1..N) /\ Len(Append(filled, holding)) = Len(filled) + 1
      BY <1>2, <2>1, AppendProperties
    <3> QED
      BY <1>2, <2>1, <3>1, <3>2
  <2>3. CASE ~HandleIso
    <3>1. filled' = filled /\ (retired' = retired \/ retired' = retired + 1)
      BY <2>3 DEF UrbHandled, HandleBulkAbnormal, HandleBulkNormal, HandleControl
    <3> QED
      BY <1>2, <2>1, <3>1
  <2> QED
    BY <2>2, <2>3
<1>7. cursor' \in 0..MaxUrbs /\ last' \in 0..MaxUrbs
  <2>1. \/ cursor' = cursor /\ last' = last
        \/ cursor' = N /\ last' = holding + 1 /\ ~(holding = N)
    <3>1. CASE HandleBulkAbnormal \/ HandleIso \/ HandleControl
      BY <3>1 DEF HandleBulkAbnormal, HandleIso, HandleControl, Complete, Retain
    <3>2. CASE HandleBulkNormal
      <4>1. \/ Complete("by_action") \/ Retain("idle")
            \/ DiscardUrbs("handler", holding + 1, N) /\ ~(holding = N)
        <5>1. holding = N => retired + 1 = N
          <6>1. action = "NORMAL" /\ allocated /\ holding # 0
            BY <1>1, <1>2, <3>2, Handling DEF HandleBulkNormal
          <6> QED
            BY <6>1, RetiredFew
        <5> QED
          BY <3>2, <5>1 DEF HandleBulkNormal
      <4> QED
        BY <4>1 DEF Complete, Retain, DiscardUrbs
    <3> QED
      BY <3>1, <3>2 DEF UrbHandled
  <2> QED
    BY <1>2, <2>1, FewAreUnits DEF RestTypes
<1>8. reapStatus' \in Statuses
  <2>1. \/ reapStatus' \in {reapStatus, "error"} \/ reapStatus' = StatusAfter(urbs[holding])
    BY DEF UrbHandled, HandleBulkAbnormal, HandleBulkNormal, HandleIso, HandleControl
  <2> QED
    BY <2>1 DEF StatusAfter, Statuses, RestTypes
<1>9. verdict' \in {"by_action"} \union Statuses
  <2>1. CASE HandleBulkAbnormal \/ HandleBulkNormal
    BY <2>1 DEF HandleBulkAbnormal, HandleBulkNormal, Complete, Retain, DiscardUrbs, RestTypes
  <2>2. CASE HandleIso
    BY <2>2 DEF HandleIso, Complete, Retain, RestTypes, Statuses
  <2>3. CASE HandleControl
    <3>1. holding = 1 /\ urbs[1] \in Ends
      <4>1. N = 1
        BY <2>3, ShapeIs DEF HandleControl, Handles, UrbsInv, LifeInv
      <4> QED
        BY <1>2, <4>1
    <3>2. verdict' = IF action = "CANCELLED" THEN "cancelled"
                     ELSE CASE urbs[1] \in {"ok", "short"} -> "completed"
                            [] urbs[1] = "killed" -> "cancelled"
                            [] urbs[1] = "nodev" -> "no_device"
                            [] OTHER -> urbs[1]
      BY <2>3 DEF HandleControl, Complete
    <3> QED
      BY <3>1, <3>2 DEF Statuses, Ends
  <2> QED
    BY <2>1, <2>2, <2>3 DEF UrbHandled
<1> QED
  BY <1>1, <1>3, <1>4, <1>5, <1>6, <1>7, <1>8, <1>9 DEF RestTypes

LEMMA RangeWithin ==
  ASSUME NEW S, NEW s \in Seq(S)
  PROVE  Range(s) \subseteq S
<1>1. DOMAIN s = 1..Len(s) /\ \A i \in 1..Len(s) : s[i] \in S
  OBVIOUS
<1> QED
  BY <1>1 DEF Range

(* They hold whatever is scheduled: fairness has no part in it.            *)
LEMMA UrbsTypesLast ==
  ASSUME "lone_stall" \notin UrbFaults, "early_error" \notin UrbFaults
  PROVE  UrbsInit /\ [][UrbsNext]_urbVars => []UrbsTypeOK
<1>1. NoEarlyError
  BY DEF NoEarlyError
<1>2. UrbsInit => UrbsInv /\ DataInv
  BY UrbsInitInv, DataInitial
<1>3. UrbsInv /\ DataInv /\ [UrbsNext]_urbVars => (UrbsInv /\ DataInv)'
  BY <1>1, UrbsStep, DataStep
<1>4. UrbsInv /\ DataInv => Bounded
  BY SumsBounded
<1>5. UrbsInit => RestTypes
  <2> SUFFICES ASSUME UrbsInit PROVE RestTypes
    OBVIOUS
  <2>1. shape \in Shapes
    BY DEF UrbsInit
  <2>2. N \in Nat /\ MaxUrbs \in Nat /\ N * Capacity \in Nat
    BY <2>1, ShapeIs, UnitsAre
  <2>3. 0 \in 0..N /\ 0 \in 0..MaxUrbs /\ 0 \in 0..(N * Capacity)
    BY <2>2
  <2>4. /\ filled \in Seq(1..N) /\ Len(filled) = 0 /\ bus \in Seq(Units)
    BY DEF UrbsInit
  <2> QED
    <3>1. /\ actual \in [1..MaxUrbs -> Units \union {0}] /\ buffer \in [Units -> Units \union {0}]
          /\ expired \in BOOLEAN /\ cancelAsked \in BOOLEAN
      BY Zenon DEF UrbsInit
    <3>2. /\ cursor = 0 /\ last = 0 /\ retired = 0 /\ transferred = 0 /\ Len(filled) <= retired
          /\ reapStatus = "completed" /\ verdict = "by_action" /\ device = "there" /\ told = "none"
          /\ sync = "none"
      BY <2>4 DEF UrbsInit
    <3> QED
      BY <2>3, <2>4, <3>1, <3>2 DEF RestTypes, Statuses
<1>6. UrbsInv /\ DataInv /\ RestTypes /\ Bounded' /\ [UrbsNext]_urbVars => RestTypes'
  <2> SUFFICES ASSUME UrbsInv, DataInv, RestTypes, Bounded', [UrbsNext]_urbVars
               PROVE  RestTypes'
    OBVIOUS
  <2>1. CASE UNCHANGED urbVars
    BY <2>1 DEF urbVars, threadVars, transferVars, queueVars, dataVars, programVars, RestTypes, N, Capacity
  <2>2. CASE UrbsNext
    <3>1. \/ AcceptUrb \/ RefuseFirst \/ (\E t \in UrbThreads : DiscardUrb(t)) \/ SyncReturns \/ Reap
          \/ Report \/ Disconnect \/ CancelByProgram \/ CancelByTimeout \/ WaitFails \/ RewaitFails
          \/ (\E i \in 1..MaxUrbs : CompleteUrb(i) \/ ShortUrb(i) \/ FailUrb(i)) \/ Vanish
          \/ RefuseNeedless \/ RefuseLater \/ UrbHandled
          \/ (\E s \in Shapes, by \in {"none", "waiting"} : Submit(s, by))
          \/ \E i \in 1..MaxUrbs : TransferUnit(i)
      BY <2>2 DEF UrbsNext, UserSteps, HandlerSteps, ProgramSteps, KernelSteps, UrbHandled, UrbThreads
    <3> QED
      BY <3>1, QuietRest, RefuseRest, SubmitRest, UnitRest, HandledRest
  <2> QED
    BY <2>1, <2>2
<1>7. UrbsInv /\ DataInv /\ RestTypes => UrbsTypeOK
  <2> SUFFICES ASSUME UrbsInv, DataInv, RestTypes PROVE UrbsTypeOK
    OBVIOUS
  <2>1. reapable \in Seq(1..N) /\ filled \in Seq(1..N) /\ bus \in Seq(Units)
    BY DEF UrbsInv, QueueInv, RestTypes
  <2>2. Range(reapable) \subseteq 1..N /\ Range(filled) \subseteq 1..N /\ Range(bus) \subseteq Units
    BY <2>1, RangeWithin
  <2>3. Len(filled) <= N
    <3>1. Len(filled) \in Nat /\ Len(filled) <= retired /\ retired \in 0..N /\ N \in Nat
      BY <2>1, LenProperties, FewAreUnits DEF RestTypes
    <3> QED
      BY <3>1
  <2> QED
    BY <2>2, <2>3 DEF UrbsTypeOK, UrbsInv, LockInv, LifeInv, QueueInv, DataInv, EndsInv, RestTypes
<1> QED
  BY <1>2, <1>3, <1>4, <1>5, <1>6, <1>7, PTL

(* The types of a transfer of any shape: nothing is counted beyond the     *)
(* URBs and the buffer, whatever is refused, ends short, fails or is       *)
(* cancelled on the way (usbfs counts transferred and num_retired).        *)
THEOREM UrbsTyped ==
  ASSUME "lone_stall" \notin UrbFaults, "early_error" \notin UrbFaults
  PROVE  UrbsSpec => []UrbsTypeOK
<1>1. UrbsInit /\ [][UrbsNext]_urbVars => []UrbsTypeOK
  BY UrbsTypesLast
<1> QED
  BY <1>1, PTL DEF UrbsSpec
=============================================================================
