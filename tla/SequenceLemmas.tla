--------------------------- MODULE SequenceLemmas ---------------------------
(***************************************************************************)
(* Facts about the operators on sequences and sets of numbers that the     *)
(* models are built from, for the proofs about several of them.            *)
(***************************************************************************)
EXTENDS Integers, Sequences, SequencesExt, FiniteSetsExt, Functions, SequenceTheorems,
        WellFoundedInduction, FiniteSetTheorems, TLAPS

(* A set of naturals that is not empty has a least element.                *)
LEMMA LeastElement ==
  ASSUME NEW S \in SUBSET Nat, S # {}
  PROVE  Min(S) \in S /\ \A y \in S : Min(S) <= y
<1> DEFINE R == OpToRel(<, Nat)
<1>1. IsWellFoundedOn(R, Nat)
  BY NatLessThanWellFounded
<1>2. \A x, y \in Nat : <<x, y>> \in R <=> x < y
  BY DEF OpToRel
<1> HIDE DEF R
<1>3. PICK x \in S : \A y \in S : ~(<<y, x>> \in R)
  BY <1>1, WFMin
<1>4. \A y \in S : x <= y
  <2> SUFFICES ASSUME NEW y \in S PROVE x <= y
    OBVIOUS
  <2>1. x \in Nat /\ y \in Nat
    OBVIOUS
  <2>2. ~(y < x)
    BY <1>2, <1>3, <2>1
  <2> QED
    BY <2>1, <2>2
<1> QED
  BY <1>4 DEF Min

(* Induction: a set with 0 and with the successor of each of its naturals. *)
LEMMA NaturalsInduct ==
  ASSUME NEW S, 0 \in S, \A n \in Nat : n \in S => n + 1 \in S
  PROVE  \A n \in Nat : n \in S
<1> DEFINE T == Nat \ S
<1>1. SUFFICES ASSUME T # {} PROVE FALSE
  OBVIOUS
<1>2. PICK m \in T : \A y \in T : m <= y
  BY <1>1, LeastElement
<1>3. m \in Nat /\ m \notin S /\ m # 0
  BY <1>2
<1>4. m - 1 \in Nat /\ m - 1 \notin T /\ (m - 1) + 1 = m
  BY <1>2, <1>3
<1> QED
  BY <1>3, <1>4

(* The greatest of naturals that do not go beyond n.                       *)
LEMMA GreatestElement ==
  ASSUME NEW S \in SUBSET Nat, S # {}, NEW n \in Nat, \A y \in S : y <= n
  PROVE  Max(S) \in S /\ \A y \in S : y <= Max(S)
<1> DEFINE T == {m \in Nat : n - m \in S}
<1>1. \A y \in S : n - y \in T
  <2> SUFFICES ASSUME NEW y \in S PROVE n - y \in T
    OBVIOUS
  <2>1. n - y \in Nat /\ n - (n - y) = y
    OBVIOUS
  <2> QED
    BY <2>1
<1>2. T \in SUBSET Nat /\ T # {}
  BY <1>1
<1>3. PICK m \in T : \A x \in T : m <= x
  <2> HIDE DEF T
  <2> QED
    BY <1>2, LeastElement
<1>4. n - m \in S /\ \A y \in S : y <= n - m
  BY <1>1, <1>3
<1>5. \E x \in S : \A y \in S : x >= y
  BY <1>4
<1>6. PICK x \in S : x = Max(S) /\ \A y \in S : x >= y
  BY <1>5 DEF Max
<1> QED
  BY <1>6

-----------------------------------------------------------------------------
(* Elements put into a sequence, and taken out of it.                      *)
LEMMA InsertAtProperties ==
  ASSUME NEW S, NEW s \in Seq(S), NEW i \in 1..(Len(s) + 1), NEW e \in S
  PROVE  /\ InsertAt(s, i, e) \in Seq(S)
         /\ Len(InsertAt(s, i, e)) = Len(s) + 1
         /\ \A j \in 1..(Len(s) + 1) :
              InsertAt(s, i, e)[j] = IF j < i THEN s[j] ELSE IF j = i THEN e ELSE s[j - 1]
<1> DEFINE front == SubSeq(s, 1, i - 1)
           ahead == front \o <<e>>
           back  == SubSeq(s, i, Len(s))
<1>1. /\ front \in Seq(S) /\ Len(front) = i - 1
      /\ \A j \in 1..(i - 1) : front[j] = s[j]
  BY SubSeqProperties
<1>2. /\ back \in Seq(S) /\ Len(back) = Len(s) - i + 1
      /\ \A j \in 1..(Len(s) - i + 1) : back[j] = s[i + j - 1]
  BY SubSeqProperties
<1>3. <<e>> \in Seq(S) /\ Len(<<e>>) = 1 /\ <<e>>[1] = e
  OBVIOUS
<1>4. /\ ahead \in Seq(S) /\ Len(ahead) = i
      /\ \A j \in 1..i : ahead[j] = IF j < i THEN s[j] ELSE e
  BY <1>1, <1>3, ConcatProperties
<1>5. InsertAt(s, i, e) = ahead \o back
  BY DEF InsertAt
<1> HIDE DEF ahead, back
<1>6. /\ ahead \o back \in Seq(S)
      /\ Len(ahead \o back) = Len(s) + 1
      /\ \A j \in 1..(Len(s) + 1) :
           (ahead \o back)[j] = IF j <= i THEN ahead[j] ELSE back[j - i]
  <2>1. Len(ahead) + Len(back) = Len(s) + 1
    BY <1>2, <1>4, LenProperties
  <2>2. /\ ahead \o back \in Seq(S)
        /\ Len(ahead \o back) = Len(ahead) + Len(back)
        /\ \A j \in 1..(Len(ahead) + Len(back)) :
             (ahead \o back)[j] = IF j <= Len(ahead) THEN ahead[j] ELSE back[j - Len(ahead)]
    BY <1>2, <1>4, ConcatProperties
  <2> QED
    BY <1>4, <2>1, <2>2
<1> SUFFICES ASSUME NEW j \in 1..(Len(s) + 1)
    PROVE InsertAt(s, i, e)[j] = IF j < i THEN s[j] ELSE IF j = i THEN e ELSE s[j - 1]
  BY <1>5, <1>6
<1>7. CASE j <= i
  BY <1>4, <1>5, <1>6, <1>7
<1>8. CASE j > i
  <2>1. InsertAt(s, i, e)[j] = back[j - i] /\ j - i \in 1..(Len(s) - i + 1)
    BY <1>5, <1>6, <1>8
  <2> QED
    BY <1>2, <1>8, <2>1
<1> QED
  BY <1>7, <1>8

LEMMA RemoveAtProperties ==
  ASSUME NEW S, NEW s \in Seq(S), NEW i \in 1..Len(s)
  PROVE  /\ RemoveAt(s, i) \in Seq(S)
         /\ Len(RemoveAt(s, i)) = Len(s) - 1
         /\ \A j \in 1..(Len(s) - 1) :
              RemoveAt(s, i)[j] = IF j < i THEN s[j] ELSE s[j + 1]
<1> DEFINE front == SubSeq(s, 1, i - 1)
           back  == SubSeq(s, i + 1, Len(s))
<1>1. /\ front \in Seq(S) /\ Len(front) = i - 1
      /\ \A j \in 1..(i - 1) : front[j] = s[j]
  BY SubSeqProperties
<1>2. /\ back \in Seq(S) /\ Len(back) = Len(s) - i
      /\ \A j \in 1..(Len(s) - i) : back[j] = s[i + j]
  BY SubSeqProperties
<1> HIDE DEF front, back
<1>3. /\ front \o back \in Seq(S)
      /\ Len(front \o back) = Len(s) - 1
      /\ \A j \in 1..(Len(s) - 1) : (front \o back)[j] =
           IF j <= i - 1 THEN front[j] ELSE back[j - (i - 1)]
  BY <1>1, <1>2, ConcatProperties
<1>4. RemoveAt(s, i) = front \o back
  BY DEF RemoveAt, front, back
<1> SUFFICES ASSUME NEW j \in 1..(Len(s) - 1)
    PROVE RemoveAt(s, i)[j] = IF j < i THEN s[j] ELSE s[j + 1]
  BY <1>3, <1>4
<1>5. CASE j < i
  BY <1>1, <1>3, <1>4, <1>5
<1>6. CASE j >= i
  <2>1. RemoveAt(s, i)[j] = back[j - (i - 1)] /\ j - (i - 1) \in 1..(Len(s) - i)
    BY <1>3, <1>4, <1>6
  <2> QED
    BY <1>2, <1>6, <2>1
<1> QED
  BY <1>5, <1>6

(* The same, of indices in the domain.                                     *)
LEMMA TakeOut ==
  ASSUME NEW S, NEW s \in Seq(S), NEW i \in DOMAIN s
  PROVE  /\ RemoveAt(s, i) \in Seq(S)
         /\ DOMAIN RemoveAt(s, i) \subseteq Nat /\ i \in Nat
         /\ \A j \in DOMAIN RemoveAt(s, i) :
              /\ j < i => j \in DOMAIN s /\ RemoveAt(s, i)[j] = s[j]
              /\ ~(j < i) => j + 1 \in DOMAIN s /\ j + 1 # i /\ RemoveAt(s, i)[j] = s[j + 1]
<1>1. Len(s) \in Nat /\ DOMAIN s = 1..Len(s)
  BY LenProperties
<1>2. /\ RemoveAt(s, i) \in Seq(S) /\ Len(RemoveAt(s, i)) = Len(s) - 1
      /\ \A j \in 1..(Len(s) - 1) :
           RemoveAt(s, i)[j] = IF j < i THEN s[j] ELSE s[j + 1]
  BY <1>1, RemoveAtProperties
<1>3. DOMAIN RemoveAt(s, i) = 1..(Len(s) - 1)
  BY <1>2, LenProperties
<1>4. DOMAIN RemoveAt(s, i) \subseteq Nat
  <2>1. \A j \in 1..(Len(s) - 1) : j \in Nat
    OBVIOUS
  <2> QED
    BY <1>3, <2>1
<1> QED
  BY <1>1, <1>2, <1>3, <1>4

LEMMA PutFirst ==
  ASSUME NEW S, NEW s \in Seq(S), NEW o \in S
  PROVE  /\ <<o>> \o s \in Seq(S) /\ Range(<<o>> \o s) = {o} \union Range(s)
         /\ DOMAIN (<<o>> \o s) = 1..(Len(s) + 1) /\ (<<o>> \o s)[1] = o
         /\ \A i \in DOMAIN (<<o>> \o s) \ {1} :
              i - 1 \in DOMAIN s /\ (<<o>> \o s)[i] = s[i - 1]
<1> DEFINE p == <<o>> \o s
<1>1. p \in Seq(S) /\ Len(p) = Len(s) + 1 /\ Len(s) \in Nat
  BY ConcatProperties, LenProperties
<1>2. DOMAIN p = 1..(Len(s) + 1) /\ DOMAIN s = 1..Len(s)
  BY <1>1, LenProperties
<1>3. \A i \in 1..(Len(s) + 1) : p[i] = IF i <= 1 THEN o ELSE s[i - 1]
  BY ConcatProperties, <1>1
<1>4. p[1] = o /\ \A i \in DOMAIN p \ {1} : i - 1 \in DOMAIN s /\ p[i] = s[i - 1]
  BY <1>1, <1>2, <1>3
<1>5. \A i \in DOMAIN s : i + 1 \in DOMAIN p /\ p[i + 1] = s[i]
  BY <1>1, <1>2, <1>3
<1>6. 1 \in DOMAIN p
  BY <1>1, <1>2
<1> HIDE DEF p
<1>7. Range(p) = {o} \union Range(s)
  <2>1. ASSUME NEW x \in Range(p) PROVE x \in {o} \union Range(s)
    BY <1>4 DEF Range
  <2>2. ASSUME NEW x \in Range(s) PROVE x \in Range(p)
    <3>1. PICK j \in DOMAIN s : x = s[j]
      BY DEF Range
    <3> QED
      BY <1>5, <3>1 DEF Range
  <2>3. o \in Range(p)
    BY <1>4, <1>6 DEF Range
  <2> QED
    BY <2>1, <2>2, <2>3
<1> QED
  BY <1>1, <1>2, <1>4, <1>7 DEF p

-----------------------------------------------------------------------------
(* Sequences that hold nothing twice.                                      *)
LEMMA AppendOnce ==
  ASSUME NEW S, NEW s \in Seq(S), NEW n \in S, n \notin Range(s), IsInjective(s)
  PROVE  /\ Append(s, n) \in Seq(S) /\ Range(Append(s, n)) = Range(s) \union {n}
         /\ IsInjective(Append(s, n))
<1> DEFINE t == Append(s, n)
<1>1. /\ t \in Seq(S) /\ Len(t) = Len(s) + 1 /\ t[Len(s) + 1] = n
      /\ \A i \in 1..Len(s) : t[i] = s[i]
  BY AppendProperties
<1>2. Len(s) \in Nat /\ DOMAIN s = 1..Len(s) /\ DOMAIN t = 1..Len(t)
  BY <1>1, LenProperties
<1> HIDE DEF t
<1>3. DOMAIN t = DOMAIN s \union {Len(s) + 1} /\ Len(s) + 1 \notin DOMAIN s
  BY <1>1, <1>2
<1>4. \A i \in DOMAIN s : t[i] = s[i]
  BY <1>1, <1>2
<1>5. Range(t) = Range(s) \union {n}
  BY <1>1, <1>3, <1>4 DEF Range
<1>6. IsInjective(t)
  BY <1>1, <1>3, <1>4 DEF IsInjective, Range
<1> QED
  BY <1>1, <1>5, <1>6 DEF t

LEMMA TailOnce ==
  ASSUME NEW S, NEW s \in Seq(S), s # <<>>, IsInjective(s)
  PROVE  /\ Tail(s) \in Seq(S) /\ Range(Tail(s)) = Range(s) \ {Head(s)}
         /\ IsInjective(Tail(s))
<1> DEFINE t == Tail(s)
<1>1. /\ t \in Seq(S) /\ Len(t) = Len(s) - 1
      /\ \A i \in 1..Len(t) : t[i] = s[i + 1]
  BY HeadTailProperties
<1>2. Len(s) \in Nat /\ DOMAIN s = 1..Len(s) /\ DOMAIN t = 1..Len(t) /\ Len(s) # 0
  BY <1>1, LenProperties, EmptySeq
<1>3. Head(s) = s[1]
  BY DEF Head
<1> HIDE DEF t
<1>4. \A i \in DOMAIN t : i \in Nat /\ i + 1 \in DOMAIN s /\ i + 1 # 1 /\ t[i] = s[i + 1]
  BY <1>1, <1>2
<1>5. \A j \in DOMAIN s : j # 1 => j - 1 \in DOMAIN t /\ t[j - 1] = s[j]
  <2> SUFFICES ASSUME NEW j \in DOMAIN s, j # 1 PROVE j - 1 \in DOMAIN t /\ t[j - 1] = s[j]
    OBVIOUS
  <2>1. j - 1 \in 1..Len(t) /\ (j - 1) + 1 = j
    BY <1>1, <1>2
  <2> QED
    BY <1>1, <1>2, <2>1
<1>6. 1 \in DOMAIN s
  BY <1>2
<1>7. IsInjective(t)
  <2> SUFFICES ASSUME NEW a \in DOMAIN t, NEW b \in DOMAIN t, t[a] = t[b] PROVE a = b
    BY DEF IsInjective
  <2>1. a + 1 = b + 1
    BY <1>4 DEF IsInjective
  <2> QED
    BY <1>4, <2>1
<1>8. Range(t) \subseteq Range(s) \ {Head(s)}
  <2> SUFFICES ASSUME NEW i \in DOMAIN t PROVE t[i] \in Range(s) \ {Head(s)}
    BY DEF Range
  <2>1. i + 1 \in DOMAIN s /\ i + 1 # 1 /\ t[i] = s[i + 1]
    BY <1>4
  <2>2. s[i + 1] # s[1]
    BY <1>6, <2>1 DEF IsInjective
  <2> QED
    BY <1>3, <2>1, <2>2 DEF Range
<1>9. Range(s) \ {Head(s)} \subseteq Range(t)
  BY <1>3, <1>5 DEF Range
<1> QED
  BY <1>1, <1>7, <1>8, <1>9 DEF t

LEMMA RemoveOnce ==
  ASSUME NEW S, NEW s \in Seq(S), NEW i \in DOMAIN s, IsInjective(s)
  PROVE  /\ RemoveAt(s, i) \in Seq(S) /\ Range(RemoveAt(s, i)) = Range(s) \ {s[i]}
         /\ IsInjective(RemoveAt(s, i))
<1> DEFINE t == RemoveAt(s, i)
<1>1. /\ t \in Seq(S) /\ Len(t) = Len(s) - 1
      /\ \A j \in 1..(Len(s) - 1) : t[j] = IF j < i THEN s[j] ELSE s[j + 1]
  BY LenProperties, RemoveAtProperties
<1>2. Len(s) \in Nat /\ DOMAIN s = 1..Len(s) /\ DOMAIN t = 1..(Len(s) - 1) /\ i \in 1..Len(s)
  BY <1>1, LenProperties
<1> HIDE DEF t
<1>3. ASSUME NEW j \in DOMAIN t
      PROVE  j \in Nat /\ IF j < i THEN j \in DOMAIN s /\ t[j] = s[j]
                                   ELSE j + 1 \in DOMAIN s /\ j + 1 # i /\ t[j] = s[j + 1]
  BY <1>1, <1>2
<1>4. ASSUME NEW j \in DOMAIN s, j # i
      PROVE  \E k \in DOMAIN t : t[k] = s[j]
  <2>1. CASE j < i
    BY <1>1, <1>2, <2>1
  <2>2. CASE j > i
    <3>1. j - 1 \in DOMAIN t /\ ~(j - 1 < i) /\ (j - 1) + 1 = j
      BY <1>2, <2>2
    <3>2. t[j - 1] = s[j]
      BY <1>1, <1>2, <3>1
    <3> QED
      BY <3>1, <3>2
  <2> QED
    BY <1>2, <1>4, <2>1, <2>2
<1>5. IsInjective(t)
  <2> SUFFICES ASSUME NEW a \in DOMAIN t, NEW b \in DOMAIN t, t[a] = t[b] PROVE a = b
    BY DEF IsInjective
  <2>1. CASE a < i /\ b < i
    BY <1>3, <2>1 DEF IsInjective
  <2>2. CASE ~(a < i) /\ ~(b < i)
    <3>1. a + 1 = b + 1
      BY <1>3, <2>2 DEF IsInjective
    <3> QED
      BY <1>3, <3>1
  <2>3. CASE a < i /\ ~(b < i)
    <3>1. a = b + 1
      BY <1>3, <2>3 DEF IsInjective
    <3> QED
      BY <1>2, <1>3, <2>3, <3>1
  <2>4. CASE ~(a < i) /\ b < i
    <3>1. a + 1 = b
      BY <1>3, <2>4 DEF IsInjective
    <3> QED
      BY <1>2, <1>3, <2>4, <3>1
  <2> QED
    BY <2>1, <2>2, <2>3, <2>4
<1>6. Range(t) \subseteq Range(s) \ {s[i]}
  <2> SUFFICES ASSUME NEW j \in DOMAIN t PROVE t[j] \in Range(s) /\ t[j] # s[i]
    BY DEF Range
  <2>1. PICK k \in DOMAIN s : k # i /\ t[j] = s[k]
    BY <1>2, <1>3
  <2> QED
    BY <2>1 DEF Range, IsInjective
<1>7. Range(s) \ {s[i]} \subseteq Range(t)
  BY <1>4 DEF Range
<1> QED
  BY <1>1, <1>5, <1>6, <1>7 DEF t

(* An element is in such a sequence at one place only.                     *)
LEMMA OnePlace ==
  ASSUME NEW S, NEW s \in Seq(S), IsInjective(s), NEW e \in Range(s)
  PROVE  Cardinality({n \in 1..Len(s) : s[n] = e}) = 1
<1>1. DOMAIN s = 1..Len(s)
  BY LenProperties
<1>2. PICK n \in DOMAIN s : s[n] = e
  BY DEF Range
<1>3. {m \in 1..Len(s) : s[m] = e} = {n}
  BY <1>1, <1>2 DEF IsInjective
<1> QED
  BY <1>3, FS_Singleton
=============================================================================
