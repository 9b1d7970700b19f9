-------------------------- MODULE TransfersProofs --------------------------
(* Proofs of the safety properties of Transfers for any number of threads,  *)
(* transfers and timeouts, as long as the device does not go while a        *)
(* transfer is being submitted; and that it implements TransferLifecycle if, *)
(* besides, no transfer is submitted now with a timeout and now without (see *)
(* ZeroMeansNoTimeout for what happens then).                               *)
EXTENDS Transfers, SequenceLemmas

(* Labels at which a thread submits a transfer; the transfer is listed.     *)
Submitting == {"add", "urb", "delist", "arm", "submitted"}
HasListed  == {"urb", "delist", "arm", "submitted"}

(* Labels at which a thread has locked its transfer, or the list.           *)
LocksTransfer == Submitting \union {"cancelled", "expired"}
LocksList     == {"scan", "expire", "expired"}

(* Labels at which the handler ends a transfer: still listed, or not.       *)
Ending  == {"reap", "flags", "clear", "complete"}
Unlisted == {"disarm", "call"}

LockInv ==
  /\ \A t \in Threads : pc[t] \in LocksTransfer =>
       target[t] \in Transfers /\ lock[target[t]] = t
  /\ \A t \in Threads : pc[t] = "expire" => target[t] \in Transfers
  /\ \A T \in Transfers : lock[T] # None =>
       pc[lock[T]] \in LocksTransfer /\ target[lock[T]] = T
  /\ \A t \in Threads : flyingOwner = t <=> pc[t] \in LocksList
  /\ \A t \in Threads : pc[t] \in Ending \union Unlisted \union {"poll", "callback", "pick"}
       => t = handler

(* Which thread submits a transfer, and who has ended it.                   *)
PhaseInv ==
  /\ \A t \in Threads : pc[t] \in Submitting => phase[target[t]] = "submitting"
  /\ \A T \in Transfers : phase[T] = "submitting" =>
       lock[T] # None /\ pc[lock[T]] \in Submitting
  /\ pc[handler] \in Ending \union Unlisted => target[handler] \in Transfers
  /\ pc[handler] \in {"flags", "complete"} \union Unlisted => phase[target[handler]] = "flying"

(* The device does not go while a transfer is being submitted.              *)
GoneInv ==
  /\ gone => Unplugging = "quietly" /\ \A T \in Transfers : phase[T] # "submitting"
  /\ ~watched \/ pc[handler] \in {"pick", "clear"} => gone

(* A transfer is in the library's hands.                                    *)
Held(T) ==
  \/ phase[T] = "submitting" /\ pc[lock[T]] \in HasListed
  \/ phase[T] = "flying" /\ ~(pc[handler] \in Unlisted /\ target[handler] = T)

ListInv ==
  /\ \A T \in Transfers : T \in Listed <=> Held(T)
  /\ pc[handler] \in Ending => target[handler] \in Listed
  /\ \A t \in Threads : pc[t] \in {"expire", "expired"} => target[t] \in Listed

UrbInv ==
  /\ \A T \in Transfers : urb[T] # "none" =>
       /\ T \in Listed
       /\ phase[T] = "submitting" => pc[lock[T]] \in {"arm", "submitted"}
       /\ ~(target[handler] = T /\ pc[handler] \in {"flags", "complete"})
  /\ pc[handler] = "reap" => urb[target[handler]] \in {"done", "killed"}

IInv == TypeOK /\ LockInv /\ PhaseInv /\ GoneInv /\ ListInv /\ UrbInv /\ FlyingSorted

-----------------------------------------------------------------------------
(* Position() finds a place in the list; what is before it times out no    *)
(* later than T, what comes after it later or never.                       *)
LEMMA PositionProperties ==
  ASSUME TypeOK, FlyingSorted, NEW T \in Transfers
  PROVE  /\ Position(T) \in 1..(Len(flying) + 1)
         /\ \A i \in 1..Len(flying) : i < Position(T) /\ timeout[T] # 0 =>
              timeout[flying[i]] # 0 /\ timeout[flying[i]] <= timeout[T]
         /\ \A i \in 1..Len(flying) : i >= Position(T) =>
              timeout[T] # 0 /\ (timeout[flying[i]] = 0 \/ timeout[flying[i]] > timeout[T])
<1> /\ flying \in Seq(Transfers) /\ timeout \in [Transfers -> Nat] /\ Len(flying) \in Nat
  BY LenProperties DEF TypeOK
<1>1. \A i \in 1..Len(flying) : flying[i] \in Transfers
  BY ElementOfSeq
<1> DEFINE later == {i \in 1..Len(flying) :
                      timeout[T] # 0 /\ (timeout[flying[i]] = 0 \/ timeout[flying[i]] > timeout[T])}
           least(i) == i \in later \union {Len(flying) + 1} /\ \A j \in later : i <= j
<1>2. \E i : least(i)
  <2>1. CASE later = {}
    BY <2>1
  <2>2. CASE later # {}
    <3>1. later \subseteq Nat
      OBVIOUS
    <3> HIDE DEF later
    <3>2. PICK m : m \in later /\ \A j \in later : m <= j
      BY <2>2, <3>1, LeastElement
    <3>3. least(m)
      BY <3>2
    <3> QED
      BY <3>3
  <2> QED
    BY <2>1, <2>2
<1>3. least(Position(T))
  BY <1>2 DEF Position
<1>4. \A i \in later : i >= Position(T)
  BY <1>3
<1>5. Position(T) \in 1..(Len(flying) + 1)
  BY <1>3
<1>6. ASSUME NEW i \in 1..Len(flying), i >= Position(T)
      PROVE  i \in later
  BY <1>1, <1>3, <1>5, <1>6 DEF FlyingSorted
<1> QED
  BY <1>1, <1>4, <1>5, <1>6

(* add_to_flying_list() adds T and keeps the list sorted.                  *)
LEMMA Inserted ==
  ASSUME TypeOK, FlyingSorted, NEW T \in Transfers, T \notin Listed,
         flying' = InsertAt(flying, Position(T), T)
  PROVE  /\ flying' \in Seq(Transfers)
         /\ Listed' = Listed \union {T}
         /\ timeout' = timeout => FlyingSorted'
<1> DEFINE p == Position(T)
<1>1. flying \in Seq(Transfers) /\ timeout \in [Transfers -> Nat]
  BY DEF TypeOK
<1>2. Len(flying) \in Nat /\ \A i \in 1..Len(flying) : flying[i] \in Transfers
  BY <1>1, LenProperties, ElementOfSeq
<1>3. p \in 1..(Len(flying) + 1)
  BY PositionProperties
<1>4. \A i \in 1..Len(flying) : flying[i] # T
  BY <1>1, LenProperties DEF Listed, ToSet
<1>5. /\ \A i \in 1..Len(flying) : i < p /\ timeout[T] # 0 =>
           timeout[flying[i]] # 0 /\ timeout[flying[i]] <= timeout[T]
      /\ \A i \in 1..Len(flying) : i >= p =>
           timeout[T] # 0 /\ (timeout[flying[i]] = 0 \/ timeout[flying[i]] > timeout[T])
  BY PositionProperties
<1>9. flying' = InsertAt(flying, p, T)
  OBVIOUS
<1> HIDE DEF p
<1>6. /\ flying' \in Seq(Transfers) /\ Len(flying') = Len(flying) + 1
      /\ \A j \in 1..(Len(flying) + 1) :
           flying'[j] = IF j < p THEN flying[j] ELSE IF j = p THEN T ELSE flying[j - 1]
  <2>1. /\ InsertAt(flying, p, T) \in Seq(Transfers)
        /\ Len(InsertAt(flying, p, T)) = Len(flying) + 1
        /\ \A j \in 1..(Len(flying) + 1) : InsertAt(flying, p, T)[j] =
             IF j < p THEN flying[j] ELSE IF j = p THEN T ELSE flying[j - 1]
    BY ONLY <1>1, <1>3, T \in Transfers, InsertAtProperties, SMTT(60)
  <2> QED
    BY <1>9, <2>1
<1>7. Listed' = Listed \union {T}
  <2>1. Listed' = {flying'[j] : j \in 1..(Len(flying) + 1)}
    BY <1>6, LenProperties DEF Listed, ToSet
  <2>2. Listed = {flying[j] : j \in 1..Len(flying)}
    BY <1>1, LenProperties DEF Listed, ToSet
  <2>3. ASSUME NEW i \in 1..Len(flying)
        PROVE  \E j \in 1..(Len(flying) + 1) : flying'[j] = flying[i]
    <3>1. CASE i < p
      BY <1>2, <1>6, <3>1
    <3>2. CASE i >= p
      <4>1. i + 1 \in 1..(Len(flying) + 1) /\ ~(i + 1 < p) /\ i + 1 # p /\ (i + 1) - 1 = i
        BY <1>2, <1>3, <3>2
      <4>2. flying'[i + 1] = flying[i]
        BY <1>6, <4>1
      <4> QED
        BY <4>1, <4>2
    <3> QED
      BY <1>3, <3>1, <3>2
  <2>4. flying'[p] = T
    BY <1>3, <1>6
  <2>5. ASSUME NEW j \in 1..(Len(flying) + 1)
        PROVE  flying'[j] \in Listed \union {T}
    BY <1>2, <1>3, <1>6, <2>2
  <2> QED
    BY <1>3, <2>1, <2>2, <2>3, <2>4, <2>5
<1>8. ASSUME timeout' = timeout PROVE FlyingSorted'
  <2> SUFFICES ASSUME NEW i \in 1..(Len(flying) + 1), NEW j \in 1..(Len(flying) + 1), i < j
      PROVE /\ flying'[i] # flying'[j]
            /\ timeout[flying'[j]] # 0 =>
                 timeout[flying'[i]] # 0 /\ timeout[flying'[i]] <= timeout[flying'[j]]
    BY <1>6, <1>8 DEF FlyingSorted
  <2>1. \A k, l \in 1..Len(flying) : k < l =>
          /\ flying[k] # flying[l]
          /\ timeout[flying[l]] # 0 =>
               timeout[flying[k]] # 0 /\ timeout[flying[k]] <= timeout[flying[l]]
    BY DEF FlyingSorted
  <2>2. CASE j < p
    BY <1>2, <1>3, <1>6, <2>1, <2>2
  <2>3. CASE j = p
    <3>1. i \in 1..Len(flying) /\ i < p /\ flying'[i] = flying[i] /\ flying'[j] = T
      BY <1>2, <1>3, <1>6, <2>3
    <3> QED
      BY <1>1, <1>4, <1>5, <3>1
  <2>4. CASE j > p /\ i < p
    <3>1. i \in 1..Len(flying) /\ i < p /\ flying'[i] = flying[i]
      BY <1>2, <1>3, <1>6, <2>4
    <3>2. j - 1 \in 1..Len(flying) /\ j - 1 >= p /\ flying'[j] = flying[j - 1]
      BY <1>2, <1>3, <1>6, <2>4
    <3>3. i < j - 1
      BY <1>3, <3>1, <3>2
    <3> QED
      BY <2>1, <3>1, <3>2, <3>3
  <2>5. CASE j > p /\ i = p
    <3>1. flying'[i] = T /\ flying'[j] = flying[j - 1] /\ j - 1 \in 1..Len(flying) /\ j - 1 >= p
      BY <1>2, <1>3, <1>6, <2>5
    <3> QED
      BY <1>1, <1>2, <1>4, <1>5, <3>1
  <2>6. CASE i > p
    <3>1. flying'[i] = flying[i - 1] /\ flying'[j] = flying[j - 1]
          /\ i - 1 \in 1..Len(flying) /\ j - 1 \in 1..Len(flying) /\ i - 1 < j - 1
      BY <1>2, <1>3, <1>6, <2>6
    <3> QED
      BY <2>1, <3>1
  <2> QED
    BY <1>3, <2>2, <2>3, <2>4, <2>5, <2>6
<1> QED
  BY <1>6, <1>7, <1>8

(* list_del() takes out T and nothing else, and keeps the list sorted.     *)
LEMMA Removed ==
  ASSUME TypeOK, FlyingSorted, NEW T \in Listed, flying' = Without(T)
  PROVE  /\ flying' \in Seq(Transfers)
         /\ Listed' = Listed \ {T}
         /\ timeout' = timeout => FlyingSorted'
<1> DEFINE p == CHOOSE i \in 1..Len(flying) : flying[i] = T
<1>1. flying \in Seq(Transfers) /\ timeout \in [Transfers -> Nat]
  BY DEF TypeOK
<1>2. Len(flying) \in Nat /\ \A i \in 1..Len(flying) : flying[i] \in Transfers
  BY <1>1, LenProperties, ElementOfSeq
<1>3. Listed = {flying[j] : j \in 1..Len(flying)}
  BY <1>1, LenProperties DEF Listed, ToSet
<1>4. p \in 1..Len(flying) /\ flying[p] = T
  BY <1>3
<1>5. flying' = RemoveAt(flying, p)
  BY DEF Without
<1> HIDE DEF p
<1>6. /\ flying' \in Seq(Transfers) /\ Len(flying') = Len(flying) - 1
      /\ \A j \in 1..(Len(flying) - 1) :
           flying'[j] = IF j < p THEN flying[j] ELSE flying[j + 1]
  BY <1>1, <1>4, <1>5, RemoveAtProperties
<1>7. \A k, l \in 1..Len(flying) : k < l =>
        /\ flying[k] # flying[l]
        /\ timeout[flying[l]] # 0 =>
             timeout[flying[k]] # 0 /\ timeout[flying[k]] <= timeout[flying[l]]
  BY DEF FlyingSorted
<1>8. Listed' = Listed \ {T}
  <2>1. Listed' = {flying'[j] : j \in 1..(Len(flying) - 1)}
    BY <1>6, LenProperties DEF Listed, ToSet
  <2>2. ASSUME NEW i \in 1..Len(flying), flying[i] # T
        PROVE  \E j \in 1..(Len(flying) - 1) : flying'[j] = flying[i]
    <3>1. CASE i < p
      BY <1>2, <1>4, <1>6, <3>1
    <3>2. CASE i > p
      <4>1. i - 1 \in 1..(Len(flying) - 1) /\ ~(i - 1 < p) /\ (i - 1) + 1 = i
        BY <1>2, <1>4, <3>2
      <4>2. flying'[i - 1] = flying[i]
        BY <1>6, <4>1
      <4> QED
        BY <4>1, <4>2
    <3> QED
      BY <1>2, <1>4, <2>2, <3>1, <3>2
  <2>3. ASSUME NEW j \in 1..(Len(flying) - 1)
        PROVE  flying'[j] \in Listed \ {T}
    <3>1. CASE j < p
      BY <1>2, <1>3, <1>4, <1>6, <1>7, <3>1
    <3>2. CASE j >= p
      <4>1. j + 1 \in 1..Len(flying) /\ p < j + 1 /\ flying'[j] = flying[j + 1]
        BY <1>2, <1>4, <1>6, <3>2
      <4> QED
        BY <1>3, <1>4, <1>7, <4>1
    <3> QED
      BY <1>4, <3>1, <3>2
  <2>4. Listed \ {T} \subseteq Listed'
    BY <1>3, <2>1, <2>2
  <2>5. Listed' \subseteq Listed \ {T}
    BY <2>1, <2>3
  <2> QED
    BY <2>4, <2>5
<1>9. ASSUME timeout' = timeout PROVE FlyingSorted'
  <2> SUFFICES ASSUME NEW i \in 1..(Len(flying) - 1), NEW j \in 1..(Len(flying) - 1), i < j
      PROVE /\ flying'[i] # flying'[j]
            /\ timeout[flying'[j]] # 0 =>
                 timeout[flying'[i]] # 0 /\ timeout[flying'[i]] <= timeout[flying'[j]]
    BY <1>6, <1>9 DEF FlyingSorted
  <2>1. PICK k \in 1..Len(flying), l \in 1..Len(flying) :
          k < l /\ flying'[i] = flying[k] /\ flying'[j] = flying[l]
    <3>1. CASE j < p
      BY <1>2, <1>4, <1>6, <3>1
    <3>2. CASE j >= p /\ i < p
      <4>1. j + 1 \in 1..Len(flying) /\ i < j + 1 /\ flying'[j] = flying[j + 1]
        BY <1>2, <1>4, <1>6, <3>2
      <4> QED
        BY <1>2, <1>4, <1>6, <3>2, <4>1
    <3>3. CASE i >= p
      <4>1. /\ j + 1 \in 1..Len(flying) /\ flying'[j] = flying[j + 1]
            /\ i + 1 \in 1..Len(flying) /\ flying'[i] = flying[i + 1] /\ i + 1 < j + 1
        BY <1>2, <1>4, <1>6, <3>3
      <4> QED
        BY <4>1
    <3> QED
      BY <1>4, <3>1, <3>2, <3>3
  <2> QED
    BY <1>7, <2>1
<1> QED
  BY <1>6, <1>8, <1>9

(* A pass over the timeouts finds what is listed and has expired.          *)
LEMMA DueListed ==
  ASSUME TypeOK, NEW t \in Threads, NEW i \in Due(t)
  PROVE  /\ i \in Nat /\ flying[i] \in Transfers /\ flying[i] \in Listed
         /\ timeout[flying[i]] # 0 /\ timeout[flying[i]] <= systime[t]
<1>1. flying \in Seq(Transfers) /\ cursor[t] \in Nat \ {0}
  BY DEF TypeOK
<1>2. /\ i \in cursor[t]..Len(flying)
      /\ timeout[flying[i]] # 0 /\ timeout[flying[i]] <= systime[t]
  BY <1>1, LenProperties DEF Due
<1>3. i \in 1..Len(flying)
  BY <1>1, <1>2, LenProperties
<1> QED
  BY <1>1, <1>2, <1>3, LenProperties, ElementOfSeq DEF Listed, ToSet

-----------------------------------------------------------------------------
(* A transfer is locked at the labels of LocksTransfer, the list at those  *)
(* of LocksList.                                                           *)
LEMMA LockStep ==
  ASSUME TypeOK, LockInv, Next
  PROVE  LockInv'
<1> /\ pc \in [Threads -> Labels] /\ target \in [Threads -> Transfers \union {None}]
    /\ lock \in [Transfers -> Threads \union {None}]
    /\ handler \in Threads /\ None \notin Threads /\ None \notin Transfers
  BY ThreadsAssumption, TransfersAssumption DEF TypeOK, Threads
<1> USE DEF LockInv, LocksTransfer, Submitting, LocksList, Ending, Unlisted, Goto, Step, Home,
      PassOver
<1>1. ASSUME NEW t \in Threads, Call(t) PROVE LockInv'
  BY <1>1 DEF Call, Submit, Cancel, WaitTimesOut, threads
<1>2. ASSUME NEW t \in Threads, Submission(t) PROVE LockInv'
  BY <1>2 DEF Submission, AddToFlyingList, SubmitUrb, SubmitFails, Refuse, Arm, Accept
<1>3. ASSUME NEW t \in Threads, SetCancelling(t) PROVE LockInv'
  BY <1>3 DEF SetCancelling
<1>4. ASSUME NEW t \in Threads, Pass(t) PROVE LockInv'
  <2>1. CASE Expire(t)
    <3>1. \A i \in Due(t) : flying[i] \in Transfers
      BY DueListed
    <3> QED
      BY <2>1, <3>1 DEF Expire
  <2> QED
    BY <1>4, <2>1 DEF Pass, BeginPass, CancelExpired, EndPass
<1>5. ASSUME Events PROVE LockInv'
  BY <1>5 DEF Events, PollTimer, PollTimesOut, ReapUrb, HandleCompletion, HandleCancellation,
     Complete, Disarm, Callback, CallbackReturns, PollError, PickToCancel, NoneToCancel,
     ClearTransferPriv
<1>6. ASSUME Environment PROVE LockInv'
  BY <1>6 DEF Environment, Tick, UrbDone, Unplug
<1> QED
  BY <1>1, <1>2, <1>3, <1>4, <1>5, <1>6 DEF Next, Progress

-----------------------------------------------------------------------------
(* The three actions that change the list.                                 *)
LEMMA AddStep ==
  ASSUME IInv, NEW t \in Threads, AddToFlyingList(t)
  PROVE  /\ target[t] \in Transfers
         /\ flying' \in Seq(Transfers) /\ FlyingSorted'
         /\ Listed' = Listed \union {target[t]}
<1> DEFINE T == target[t]
<1>1. T \in Transfers /\ lock[T] = t /\ pc[t] = "add" /\ phase[T] = "submitting"
  BY DEF IInv, LockInv, PhaseInv, LocksTransfer, Submitting, AddToFlyingList, Step
<1>2. T \notin Listed
  BY <1>1 DEF IInv, ListInv, Held, HasListed
<1>3. flying' = InsertAt(flying, Position(T), T) /\ timeout' = timeout
  BY DEF AddToFlyingList, fields
<1> HIDE DEF T
<1>4. flying' \in Seq(Transfers) /\ Listed' = Listed \union {T} /\ FlyingSorted'
  BY <1>1, <1>2, <1>3, Inserted DEF IInv
<1> QED
  BY <1>1, <1>4 DEF T

LEMMA RefuseStep ==
  ASSUME IInv, NEW t \in Threads, Refuse(t)
  PROVE  /\ target[t] \in Transfers
         /\ flying' \in Seq(Transfers) /\ FlyingSorted'
         /\ Listed' = Listed \ {target[t]}
<1> DEFINE T == target[t]
<1>1. T \in Transfers /\ lock[T] = t /\ pc[t] = "delist" /\ phase[T] = "submitting"
  BY DEF IInv, LockInv, PhaseInv, LocksTransfer, Submitting, Refuse
<1>2. T \in Listed
  BY <1>1 DEF IInv, ListInv, Held, HasListed
<1>3. flying' = Without(T) /\ timeout' = timeout
  BY DEF Refuse, fields
<1> HIDE DEF T
<1>4. flying' \in Seq(Transfers) /\ Listed' = Listed \ {T} /\ FlyingSorted'
  BY <1>2, <1>3, Removed DEF IInv
<1> QED
  BY <1>1, <1>4 DEF T

LEMMA CompleteStep ==
  ASSUME IInv, Complete
  PROVE  /\ target[handler] \in Transfers
         /\ flying' \in Seq(Transfers) /\ FlyingSorted'
         /\ Listed' = Listed \ {target[handler]}
<1> DEFINE T == target[handler]
<1>1. T \in Transfers /\ T \in Listed
  BY DEF IInv, PhaseInv, ListInv, Ending, Complete, Step
<1>2. flying' = Without(T) /\ timeout' = timeout
  BY DEF Complete, fields
<1> HIDE DEF T
<1>3. flying' \in Seq(Transfers) /\ Listed' = Listed \ {T} /\ FlyingSorted'
  BY <1>1, <1>2, Removed DEF IInv
<1> QED
  BY <1>1, <1>3 DEF T

(* In every other step the list stays as it is.                            *)
LEMMA SameList ==
  ASSUME flying' = flying
  PROVE  Listed' = Listed
BY DEF Listed

LEMMA SortedStep ==
  ASSUME IInv, Next
  PROVE  FlyingSorted' /\ flying' \in Seq(Transfers)
<1>1. flying \in Seq(Transfers) /\ FlyingSorted
  BY DEF IInv, TypeOK
<1>2. CASE UNCHANGED <<flying, timeout>>
  BY <1>1, <1>2 DEF FlyingSorted
<1>3. ASSUME NEW t \in Threads, NEW T \in Transfers, Submit(t, T)
      PROVE  FlyingSorted' /\ flying' \in Seq(Transfers)
  <2>1. T \notin Listed /\ timeout \in [Transfers -> Nat]
    BY <1>3 DEF Submit, IInv, TypeOK, ListInv, Held
  <2>2. flying' = flying /\ \A U \in Transfers \ {T} : timeout'[U] = timeout[U]
    BY <1>3, <2>1 DEF Submit
  <2>3. \A i \in 1..Len(flying) : flying[i] \in Transfers \ {T}
    BY <1>1, <2>1, LenProperties, ElementOfSeq DEF Listed, ToSet
  <2> QED
    BY <1>1, <2>2, <2>3 DEF FlyingSorted
<1>4. ASSUME NEW t \in Threads, Call(t) \/ Submission(t) \/ SetCancelling(t) \/ Pass(t)
      PROVE  FlyingSorted' /\ flying' \in Seq(Transfers)
  BY <1>2, <1>3, <1>4, AddStep, RefuseStep DEF Call, Cancel, WaitTimesOut, Submission, SubmitUrb,
     SubmitFails, Arm, Accept, SetCancelling, Pass, BeginPass, Expire, CancelExpired, EndPass,
     fields
<1>5. ASSUME Events
      PROVE  FlyingSorted' /\ flying' \in Seq(Transfers)
  BY <1>2, <1>5, CompleteStep DEF Events, PollTimer, PollTimesOut, ReapUrb, HandleCompletion,
     HandleCancellation, Disarm, Callback, CallbackReturns, PollError, PickToCancel,
     NoneToCancel, ClearTransferPriv, fields
<1>6. ASSUME Environment
      PROVE  FlyingSorted' /\ flying' \in Seq(Transfers)
  BY <1>2, <1>6 DEF Environment, Tick, UrbDone, Unplug, fields
<1> QED
  BY <1>3, <1>4, <1>5, <1>6 DEF Next, Progress

(* The phase of a transfer follows the thread that works on it.            *)
LEMMA PhaseStep ==
  ASSUME IInv, Next
  PROVE  PhaseInv'
<1> /\ pc \in [Threads -> Labels] /\ target \in [Threads -> Transfers \union {None}]
    /\ lock \in [Transfers -> Threads \union {None}] /\ phase \in [Transfers -> L!States]
    /\ handler \in Threads /\ None \notin Threads /\ None \notin Transfers
  BY ThreadsAssumption, TransfersAssumption DEF IInv, TypeOK, Threads
<1> LockInv /\ PhaseInv
  BY DEF IInv
<1> USE DEF LockInv, PhaseInv, LocksTransfer, Submitting, LocksList, Ending, Unlisted, Goto, Step,
      Home, PassOver, EndSubmission, L!States, device
<1>1. ASSUME NEW t \in Threads, Call(t) PROVE PhaseInv'
  BY <1>1 DEF Call, Submit, Cancel, WaitTimesOut, program
<1>2. ASSUME NEW t \in Threads, Submission(t) PROVE PhaseInv'
  BY <1>2 DEF Submission, AddToFlyingList, SubmitUrb, SubmitFails, Refuse, Arm, Accept, program
<1>3. ASSUME NEW t \in Threads, SetCancelling(t) PROVE PhaseInv'
  BY <1>3 DEF SetCancelling, program
<1>4. ASSUME NEW t \in Threads, Pass(t) PROVE PhaseInv'
  BY <1>4 DEF Pass, BeginPass, Expire, CancelExpired, EndPass, program
<1>5. ASSUME Events PROVE PhaseInv'
  <2>1. CASE PickToCancel
    <3>1. Head(flying) \in Transfers
      BY <2>1, HeadTailProperties DEF IInv, TypeOK, PickToCancel
    <3> QED
      BY <2>1, <3>1 DEF PickToCancel, program
  <2>2. CASE PollTimer \/ PollTimesOut \/ PollError \/ NoneToCancel \/ CallbackReturns
    BY <2>2 DEF PollTimer, PollTimesOut, PollError, NoneToCancel, CallbackReturns, program
  <2>a. pc[handler] \in {"reap", "clear"} /\ lock[target[handler]] = None
          => target[handler] \in Transfers /\ phase[target[handler]] = "flying"
    BY DEF IInv, ListInv, Held
  <2>3. CASE (\E T \in Transfers : ReapUrb(T)) \/ HandleCompletion \/ HandleCancellation
    BY <2>a, <2>3 DEF ReapUrb, HandleCompletion, HandleCancellation, program
  <2>4. CASE Complete \/ Disarm \/ Callback \/ ClearTransferPriv
    BY <2>a, <2>4 DEF Complete, Disarm, Callback, ClearTransferPriv, program
  <2> QED
    BY <1>5, <2>1, <2>2, <2>3, <2>4 DEF Events
<1>6. ASSUME Environment PROVE PhaseInv'
  <2> UNCHANGED <<pc, target, lock, phase>>
    BY <1>6 DEF Environment, Tick, UrbDone, Unplug, program
  <2> QED
    OBVIOUS
<1> QED
  BY <1>1, <1>2, <1>3, <1>4, <1>5, <1>6 DEF Next, Progress

(* Once the device is gone no transfer is submitted, and only then does    *)
(* usbi_handle_disconnect() run.                                           *)
LEMMA GoneStep ==
  ASSUME IInv, Unplugging # "any time", Next
  PROVE  GoneInv'
<1> /\ pc \in [Threads -> Labels] /\ phase \in [Transfers -> L!States]
    /\ handler \in Threads /\ GoneInv
  BY DEF IInv, TypeOK, Threads
<1>0. Unplugging \in {"never", "quietly"}
  BY FaultsAssumption
<1> USE DEF GoneInv, Goto, Step, Home, PassOver, EndSubmission, L!States
<1>1. ASSUME NEW t \in Threads, NEW T \in Transfers, Submit(t, T) PROVE GoneInv'
  <2>1. ~gone /\ UNCHANGED <<gone, watched>>
    BY <1>0, <1>1 DEF Submit, device
  <2>2. pc'[handler] \notin {"pick", "clear"} /\ watched
    BY <1>1, <2>1 DEF Submit
  <2> QED
    BY <2>1, <2>2
<1>2. ASSUME UNCHANGED <<gone, watched>>,
             \A T \in Transfers : phase'[T] = "submitting" => phase[T] = "submitting",
             pc'[handler] \in {"pick", "clear"} => pc[handler] \in {"pick", "clear"} \/ ~watched
      PROVE  GoneInv'
  BY <1>2
<1>3. ASSUME NEW t \in Threads, Call(t) \/ Submission(t) \/ SetCancelling(t) \/ Pass(t)
      PROVE  GoneInv'
  <2> USE DEF device, program
  <2>1. CASE Call(t)
    BY <1>1, <1>2, <2>1 DEF Call, Cancel, WaitTimesOut
  <2>2. CASE Submission(t)
    BY <1>2, <2>2 DEF Submission, AddToFlyingList, SubmitUrb, SubmitFails, Refuse, Arm, Accept
  <2>3. CASE SetCancelling(t) \/ Pass(t)
    BY <1>2, <2>3 DEF SetCancelling, Pass, BeginPass, Expire, CancelExpired, EndPass
  <2> QED
    BY <1>3, <2>1, <2>2, <2>3
<1>4. CASE Events
  <2> USE DEF device, program
  <2>1. CASE PollError
    BY <2>1 DEF PollError
  <2>2. CASE PollTimer \/ PollTimesOut \/ NoneToCancel \/ PickToCancel \/ CallbackReturns
    BY <1>2, <2>2 DEF PollTimer, PollTimesOut, NoneToCancel, PickToCancel, CallbackReturns
  <2>3. CASE (\E T \in Transfers : ReapUrb(T)) \/ HandleCompletion \/ HandleCancellation
    BY <1>2, <2>3 DEF ReapUrb, HandleCompletion, HandleCancellation
  <2>4. CASE Complete \/ Disarm \/ Callback \/ ClearTransferPriv
    BY <1>2, <2>4 DEF Complete, Disarm, Callback, ClearTransferPriv
  <2> QED
    BY <1>4, <2>1, <2>2, <2>3, <2>4 DEF Events
<1>5. CASE Tick \/ \E T \in Transfers : UrbDone(T)
  BY <1>2, <1>5 DEF Tick, UrbDone, device, program
<1>6. CASE Unplug
  BY <1>0, <1>6 DEF Unplug, program
<1> QED
  BY <1>3, <1>4, <1>5, <1>6 DEF Next, Progress, Environment

(* The list holds exactly the transfers in the library's hands, and those  *)
(* that a thread is about to end or to time out.                           *)
LEMMA ListStep ==
  ASSUME IInv, Next
  PROVE  ListInv'
<1> /\ pc \in [Threads -> Labels] /\ target \in [Threads -> Transfers \union {None}]
    /\ lock \in [Transfers -> Threads \union {None}] /\ phase \in [Transfers -> L!States]
    /\ handler \in Threads /\ None \notin Threads /\ None \notin Transfers
  BY ThreadsAssumption, TransfersAssumption DEF IInv, TypeOK, Threads
<1> LockInv /\ PhaseInv /\ ListInv /\ Listed \subseteq Transfers
  BY LenProperties DEF IInv, TypeOK, Listed, ToSet
<1> USE DEF LockInv, PhaseInv, ListInv, Held, HasListed, LocksTransfer, Submitting, LocksList,
      Ending, Unlisted, Goto, Step, Home, PassOver, EndSubmission, L!States
<1> HIDE DEF ListInv
<1>1. ASSUME NEW t \in Threads, Call(t) PROVE ListInv'
  BY <1>1, SameList DEF ListInv, Call, Submit, Cancel, WaitTimesOut, program
<1>2. ASSUME NEW t \in Threads, Submission(t) PROVE ListInv'
  <2>1. CASE AddToFlyingList(t)
    <3>1. target[t] \in Transfers /\ Listed' = Listed \union {target[t]}
      BY <2>1, AddStep
    <3>2. /\ pc[t] = "add" /\ pc' = [pc EXCEPT ![t] = "urb"]
          /\ flyingOwner = None /\ UNCHANGED <<target, lock, phase>>
      BY <2>1 DEF AddToFlyingList, program
    <3> QED
      BY <3>1, <3>2 DEF ListInv
  <2>2. CASE Refuse(t)
    <3>1. target[t] \in Transfers /\ Listed' = Listed \ {target[t]}
      BY <2>2, RefuseStep
    <3>2. /\ pc[t] = "delist" /\ pc' = [pc EXCEPT ![t] = Home(t)]
          /\ flyingOwner = None /\ target' = [target EXCEPT ![t] = None]
          /\ lock' = [lock EXCEPT ![target[t]] = None]
          /\ phase' = [phase EXCEPT ![target[t]] = "idle"]
      BY <2>2 DEF Refuse
    <3>3. /\ \A T \in Transfers : T \in Listed <=> Held(T)
          /\ pc[handler] \in Ending => target[handler] \in Listed
          /\ \A u \in Threads : pc[u] \notin {"expire", "expired"}
      BY <3>2 DEF ListInv
    <3>7. phase[target[t]] = "submitting" /\ lock[target[t]] = t
      BY <3>2
    <3>8. pc[handler] \in Ending => target[handler] # target[t]
      <4>1. pc[handler] = "clear" => gone /\ phase[target[t]] # "submitting"
        BY <3>1 DEF IInv, GoneInv
      <4>2. pc[handler] = "reap" /\ target[handler] = target[t] => pc[t] \in {"arm", "submitted"}
        BY <3>1, <3>7 DEF IInv, UrbInv
      <4> QED
        BY <3>2, <3>7, <4>1, <4>2
    <3>4. pc'[handler] \in Ending => target'[handler] \in Listed'
      BY <3>1, <3>2, <3>3, <3>8
    <3>5. \A T \in Transfers : T \in Listed' <=> Held(T)'
      BY <3>1, <3>2, <3>3
    <3>6. \A u \in Threads : pc'[u] \notin {"expire", "expired"}
      BY <3>2, <3>3
    <3> QED
      BY <3>4, <3>5, <3>6 DEF ListInv
  <2> QED
    BY <1>2, <2>1, <2>2, SameList DEF ListInv, Submission, SubmitUrb, SubmitFails, Arm, Accept,
       program
<1>3. ASSUME NEW t \in Threads, SetCancelling(t) PROVE ListInv'
  BY <1>3, SameList DEF ListInv, SetCancelling, program
<1>4. ASSUME NEW t \in Threads, Pass(t) PROVE ListInv'
  <2>1. CASE Expire(t)
    <3>1. \A i \in Due(t) : flying[i] \in Listed
      BY DueListed DEF IInv
    <3> QED
      BY <2>1, <3>1, SameList DEF ListInv, Expire, program
  <2> QED
    BY <1>4, <2>1, SameList DEF ListInv, Pass, BeginPass, CancelExpired, EndPass, program
<1>5. ASSUME Events PROVE ListInv'
  <2>1. CASE PickToCancel
    <3>1. Head(flying) \in Listed
      BY <2>1, EmptySeq, LenProperties DEF IInv, TypeOK, PickToCancel, Listed, ToSet
    <3> QED
      BY <2>1, <3>1, SameList DEF ListInv, PickToCancel, program
  <2>2. CASE PollTimer \/ PollTimesOut \/ PollError \/ NoneToCancel \/ CallbackReturns
    BY <2>2, SameList DEF ListInv, PollTimer, PollTimesOut, PollError, NoneToCancel,
       CallbackReturns, program
  <2>3. CASE \E T \in Transfers : ReapUrb(T)
    <3>1. \A T \in Transfers : urb[T] # "none" => T \in Listed
      BY DEF IInv, UrbInv
    <3> QED
      BY <2>3, <3>1, SameList DEF ListInv, ReapUrb, Reapable, program
  <2>4. CASE HandleCompletion \/ HandleCancellation \/ ClearTransferPriv
    BY <2>4, SameList DEF ListInv, HandleCompletion, HandleCancellation, ClearTransferPriv,
       program
  <2>5. CASE Complete
    BY <2>5, CompleteStep DEF ListInv, Complete, program
  <2>6. CASE Disarm \/ Callback
    BY <2>6, SameList DEF ListInv, Disarm, Callback, program
  <2> QED
    BY <1>5, <2>1, <2>2, <2>3, <2>4, <2>5, <2>6 DEF Events
<1>6. ASSUME Environment PROVE ListInv'
  <2> UNCHANGED <<pc, target, lock, phase>> /\ flying' = flying
    BY <1>6 DEF Environment, Tick, UrbDone, Unplug, program
  <2> QED
    BY SameList DEF ListInv
<1> QED
  BY <1>1, <1>2, <1>3, <1>4, <1>5, <1>6 DEF Next, Progress

(* A URB belongs to a listed transfer that nobody has begun to end.        *)
LEMMA UrbStep ==
  ASSUME IInv, Next
  PROVE  UrbInv'
<1> /\ pc \in [Threads -> Labels] /\ target \in [Threads -> Transfers \union {None}]
    /\ lock \in [Transfers -> Threads \union {None}] /\ phase \in [Transfers -> L!States]
    /\ urb \in [Transfers -> UrbStates]
    /\ handler \in Threads /\ None \notin Threads /\ None \notin Transfers
  BY ThreadsAssumption, TransfersAssumption DEF IInv, TypeOK, Threads
<1> LockInv /\ PhaseInv /\ UrbInv /\ Listed \subseteq Transfers
  BY LenProperties DEF IInv, TypeOK, Listed, ToSet
<1>0. pc[handler] \in {"reap", "clear"} /\ lock[target[handler]] = None
        => target[handler] \in Transfers /\ phase[target[handler]] = "flying"
  BY DEF IInv, ListInv, Held, PhaseInv, Ending
<1> USE DEF LockInv, PhaseInv, LocksTransfer, Submitting, LocksList, UrbStates,
      Ending, Unlisted, Goto, Step, Home, PassOver, EndSubmission, CancelUrb, L!States
<1>1. ASSUME NEW t \in Threads, Call(t) PROVE UrbInv'
  <2>1. ASSUME NEW T \in Transfers, Submit(t, T) PROVE UrbInv'
    <3>1. T \notin Listed
      BY <2>1 DEF IInv, ListInv, Held, Submit
    <3> QED
      BY <2>1, <3>1, SameList DEF UrbInv, Submit, program
  <2> QED
    BY <1>1, <2>1, SameList DEF UrbInv, Call, Cancel, WaitTimesOut, program, fields
<1>2. ASSUME NEW t \in Threads, Submission(t) PROVE UrbInv'
  <2>1. CASE AddToFlyingList(t)
    <3>1. target[t] \in Transfers /\ Listed' = Listed \union {target[t]}
      BY <2>1, AddStep
    <3>2. /\ pc[t] = "add" /\ pc' = [pc EXCEPT ![t] = "urb"]
          /\ UNCHANGED <<target, lock, phase, urb>>
      BY <2>1 DEF AddToFlyingList, program, fields
    <3> QED
      BY <3>1, <3>2 DEF UrbInv
  <2>2. CASE Refuse(t)
    <3>1. target[t] \in Transfers /\ Listed' = Listed \ {target[t]}
      BY <2>2, RefuseStep
    <3>2. /\ pc[t] = "delist" /\ pc' = [pc EXCEPT ![t] = Home(t)]
          /\ target' = [target EXCEPT ![t] = None]
          /\ lock' = [lock EXCEPT ![target[t]] = None]
          /\ phase' = [phase EXCEPT ![target[t]] = "idle"]
          /\ urb' = urb
      BY <2>2 DEF Refuse, fields
    <3>3. phase[target[t]] = "submitting" /\ lock[target[t]] = t /\ urb[target[t]] = "none"
      BY <3>1, <3>2 DEF UrbInv
    <3> QED
      BY <3>1, <3>2, <3>3 DEF UrbInv
  <2>3. CASE SubmitUrb(t)
    <3>1. target[t] \in Listed
      BY <2>3 DEF IInv, ListInv, Held, HasListed, SubmitUrb
    <3> QED
      BY <2>3, <3>1, SameList DEF UrbInv, SubmitUrb, program
  <2> QED
    BY <1>2, <2>1, <2>2, <2>3, SameList DEF UrbInv, Submission, SubmitFails, Arm, Accept,
       program, fields
<1>3. ASSUME NEW t \in Threads, SetCancelling(t) PROVE UrbInv'
  BY <1>3, SameList DEF UrbInv, SetCancelling, program
<1>4. ASSUME NEW t \in Threads, Pass(t) PROVE UrbInv'
  <2>1. CASE Expire(t)
    BY <2>1, SameList DEF UrbInv, Expire, program
  <2> QED
    BY <1>4, <2>1, SameList DEF UrbInv, Pass, BeginPass, CancelExpired, EndPass, program, fields
<1>5. ASSUME Events PROVE UrbInv'
  <2>1. CASE PickToCancel
    BY <2>1, SameList DEF UrbInv, PickToCancel, program, fields
  <2>2. CASE PollTimer \/ PollTimesOut \/ PollError \/ NoneToCancel \/ CallbackReturns
    BY <2>2, SameList DEF UrbInv, PollTimer, PollTimesOut, PollError, NoneToCancel,
       CallbackReturns, program, fields
  <2>3. CASE \E T \in Transfers : ReapUrb(T)
    BY <2>3, SameList DEF UrbInv, ReapUrb, Reapable, program, fields
  <2>4. CASE HandleCompletion \/ HandleCancellation \/ ClearTransferPriv
    BY <1>0, <2>4, SameList DEF UrbInv, HandleCompletion, HandleCancellation, ClearTransferPriv,
       program, fields
  <2>5. CASE Complete
    <3>1. target[handler] \in Transfers /\ Listed' = Listed \ {target[handler]}
      BY <2>5, CompleteStep
    <3>2. /\ pc[handler] = "complete" /\ pc' = [pc EXCEPT ![handler] = "disarm"]
          /\ UNCHANGED <<target, lock, phase, urb>>
      BY <2>5 DEF Complete, program, fields
    <3> QED
      BY <3>1, <3>2 DEF UrbInv
  <2>6. CASE Disarm \/ Callback
    <3>1. pc[handler] \in Unlisted => target[handler] \notin Listed
      BY DEF IInv, ListInv, Held
    <3> QED
      BY <2>6, <3>1, SameList DEF UrbInv, Disarm, Callback, program, fields
  <2> QED
    BY <1>5, <2>1, <2>2, <2>3, <2>4, <2>5, <2>6 DEF Events
<1>6. ASSUME Environment PROVE UrbInv'
  <2>1. /\ UNCHANGED <<pc, target, lock, phase>> /\ flying' = flying
        /\ \A T \in Transfers :
             \/ urb'[T] = urb[T]
             \/ urb[T] = "flying" /\ urb'[T] = "done"
    <3>1. CASE Tick
      BY <3>1 DEF Tick, program, fields
    <3>2. CASE \E T \in Transfers : UrbDone(T)
      BY <3>2 DEF UrbDone, program
    <3>3. CASE Unplug
      BY <3>3 DEF Unplug, program
    <3> QED
      BY <1>6, <3>1, <3>2, <3>3 DEF Environment
  <2> QED
    BY <2>1, SameList DEF UrbInv
<1> QED
  BY <1>1, <1>2, <1>3, <1>4, <1>5, <1>6 DEF Next, Progress

-----------------------------------------------------------------------------
(* The timerfd is armed with a timeout of a transfer in the list.          *)
LEMMA NextTimeoutNat ==
  ASSUME TypeOK, NEW s \in Seq(Transfers)
  PROVE  NextTimeout(s) \in Nat
<1> DEFINE pending == {i \in 1..Len(s) :
                        /\ \A j \in 1..i : timeout[s[j]] # 0
                        /\ ~timedOut[s[i]]
                        /\ \A j \in 1..(i - 1) : timedOut[s[j]]}
<1>1. \A i \in 1..Len(s) : timeout[s[i]] \in Nat
  BY ElementOfSeq DEF TypeOK
<1>2. CASE pending = {}
  BY <1>2 DEF NextTimeout
<1>3. CASE pending # {}
  <2>1. (CHOOSE i \in pending : TRUE) \in 1..Len(s)
    BY <1>3
  <2>2. NextTimeout(s) = timeout[s[CHOOSE i \in pending : TRUE]]
    BY <1>3 DEF NextTimeout
  <2> QED
    BY <1>1, <2>1, <2>2
<1> QED
  BY <1>2, <1>3

(* TypeOK in two parts, as the provers want it.                            *)
Places ==
  /\ pc \in [Threads -> Labels]
  /\ target \in [Threads -> Transfers \union {None}]
  /\ flyingOwner \in Threads \union {None}
  /\ lock \in [Transfers -> Threads \union {None}]
  /\ urb \in [Transfers -> UrbStates]
  /\ status \in L!Outcomes
  /\ phase \in [Transfers -> L!States]
  /\ outcome \in [Transfers -> L!Outcomes]

Times ==
  /\ systime \in [Threads -> Nat]
  /\ cursor \in [Threads -> Nat \ {0}]
  /\ timeout \in [Transfers -> Nat]
  /\ now \in Nat
  /\ armed \in Nat
  /\ deadline \in [Transfers -> Nat]

Flags ==
  /\ rearm \in [Threads -> BOOLEAN]
  /\ seen \in [Threads -> BOOLEAN]
  /\ timedOut \in [Transfers -> BOOLEAN]
  /\ reapCancelled \in [Transfers -> BOOLEAN]
  /\ gone \in BOOLEAN
  /\ watched \in BOOLEAN
  /\ asked \in [Transfers -> BOOLEAN]

LEMMA PlacesStep ==
  ASSUME IInv, Next
  PROVE  Places'
<1> Places /\ handler \in Threads
  BY DEF IInv, TypeOK, Places, Threads
<1>0. \A t \in Threads : pc[t] \in LocksTransfer => target[t] \in Transfers
  BY DEF IInv, LockInv
<1> USE DEF Places, Labels, UrbStates, L!Outcomes, L!Reasons, L!States, Goto, Step, Home,
      PassOver, EndSubmission, CancelUrb, fields, program
<1>1. ASSUME NEW t \in Threads, Call(t) PROVE Places'
  BY <1>1 DEF Call, Submit, Cancel, WaitTimesOut
<1>2. ASSUME NEW t \in Threads, Submission(t) PROVE Places'
  BY <1>2 DEF Submission, AddToFlyingList, SubmitUrb, SubmitFails, Refuse, Arm, Accept
<1>3. ASSUME NEW t \in Threads, SetCancelling(t) PROVE Places'
  BY <1>3 DEF SetCancelling
<1>4. ASSUME NEW t \in Threads, Pass(t) PROVE Places'
  <2>1. CASE Expire(t)
    <3>1. \A i \in Due(t) : flying[i] \in Transfers
      BY DueListed DEF IInv
    <3> QED
      BY <2>1, <3>1 DEF Expire
  <2> QED
    BY <1>4, <2>1 DEF Pass, BeginPass, CancelExpired, EndPass
<1>5. ASSUME Events PROVE Places'
  <2>1. CASE PickToCancel
    <3>1. Head(flying) \in Transfers
      BY <2>1, HeadTailProperties DEF IInv, TypeOK, PickToCancel
    <3> QED
      BY <2>1, <3>1 DEF PickToCancel
  <2>2. CASE PollTimer \/ PollTimesOut \/ PollError \/ NoneToCancel \/ CallbackReturns
    BY <2>2 DEF PollTimer, PollTimesOut, PollError, NoneToCancel, CallbackReturns
  <2>3. CASE (\E T \in Transfers : ReapUrb(T)) \/ HandleCompletion \/ HandleCancellation
    BY <2>3 DEF ReapUrb, HandleCompletion, HandleCancellation
  <2>4. CASE Complete \/ Disarm \/ Callback \/ ClearTransferPriv
    BY <2>4 DEF Complete, Disarm, Callback, ClearTransferPriv
  <2> QED
    BY <1>5, <2>1, <2>2, <2>3, <2>4 DEF Events
<1>6. ASSUME Environment PROVE Places'
  <2>1. CASE Tick
    BY <2>1 DEF Tick
  <2>2. CASE \E T \in Transfers : UrbDone(T)
    BY <2>2 DEF UrbDone
  <2>3. CASE Unplug
    BY <2>3 DEF Unplug
  <2> QED
    BY <1>6, <2>1, <2>2, <2>3 DEF Environment
<1> QED
  BY <1>1, <1>2, <1>3, <1>4, <1>5, <1>6 DEF Next, Progress

LEMMA TimesStep ==
  ASSUME IInv, Next
  PROVE  Times'
<1> Times /\ handler \in Threads
  BY DEF IInv, TypeOK, Times, Threads
<1> Timeouts \in [Transfers -> SUBSET Nat]
  BY TimeAssumption
<1> USE DEF Times, EndSubmission, threads, timer, fields, program
<1>1. ASSUME NEW t \in Threads, Call(t) PROVE Times'
  BY <1>1 DEF Call, Submit, Cancel, WaitTimesOut
<1>2. ASSUME NEW t \in Threads, Submission(t) PROVE Times'
  <2>1. CASE Arm(t)
    <3>1. target[t] \in Transfers
      BY <2>1 DEF IInv, LockInv, LocksTransfer, Submitting, Arm, Step
    <3> QED
      BY <2>1, <3>1 DEF Arm
  <2> QED
    BY <1>2, <2>1 DEF Submission, AddToFlyingList, SubmitUrb, SubmitFails, Refuse, Accept
<1>3. ASSUME NEW t \in Threads, SetCancelling(t) PROVE Times'
  BY <1>3 DEF SetCancelling
<1>4. ASSUME NEW t \in Threads, Pass(t) PROVE Times'
  <2>1. CASE Expire(t)
    <3>1. \A i \in Due(t) : i \in Nat
      BY DueListed DEF IInv
    <3> QED
      BY <2>1, <3>1 DEF Expire
  <2>2. CASE EndPass(t)
    <3>1. NextTimeout(flying) \in Nat
      BY NextTimeoutNat DEF IInv, TypeOK
    <3> QED
      BY <2>2, <3>1 DEF EndPass, ArmNext
  <2> QED
    BY <1>4, <2>1, <2>2 DEF Pass, BeginPass, CancelExpired
<1>5. ASSUME Events PROVE Times'
  <2>1. CASE Complete
    <3>1. flying' = Without(target[handler]) /\ flying' \in Seq(Transfers)
      BY <2>1, CompleteStep DEF Complete
    <3>2. NextTimeout(Without(target[handler])) \in Nat
      BY <3>1, NextTimeoutNat DEF IInv
    <3> QED
      BY <2>1, <3>2 DEF Complete, ArmNext
  <2>2. CASE PollTimer \/ PollTimesOut \/ PollError \/ NoneToCancel \/ CallbackReturns
    BY <2>2 DEF PollTimer, PollTimesOut, PollError, NoneToCancel, CallbackReturns
  <2>3. CASE (\E T \in Transfers : ReapUrb(T)) \/ HandleCompletion \/ HandleCancellation
    BY <2>3 DEF ReapUrb, HandleCompletion, HandleCancellation
  <2>4. CASE PickToCancel \/ Disarm \/ Callback \/ ClearTransferPriv
    BY <2>4 DEF PickToCancel, Disarm, Callback, ClearTransferPriv
  <2> QED
    BY <1>5, <2>1, <2>2, <2>3, <2>4 DEF Events
<1>6. ASSUME Environment PROVE Times'
  <2>1. CASE Tick
    BY <2>1 DEF Tick
  <2>2. CASE (\E T \in Transfers : UrbDone(T)) \/ Unplug
    BY <2>2 DEF UrbDone, Unplug
  <2> QED
    BY <1>6, <2>1, <2>2 DEF Environment
<1> QED
  BY <1>1, <1>2, <1>3, <1>4, <1>5, <1>6 DEF Next, Progress

LEMMA FlagsStep ==
  ASSUME IInv, Next
  PROVE  Flags'
<1> Flags /\ handler \in Threads
  BY DEF IInv, TypeOK, Flags, Threads
<1> USE DEF Flags, EndSubmission, CancelUrb, threads, fields, device, program
<1>1. ASSUME NEW t \in Threads, Call(t) PROVE Flags'
  BY <1>1 DEF Call, Submit, Cancel, WaitTimesOut
<1>2. ASSUME NEW t \in Threads, Submission(t) PROVE Flags'
  BY <1>2 DEF Submission, AddToFlyingList, SubmitUrb, SubmitFails, Refuse, Arm, Accept, IsFirst
<1>3. ASSUME NEW t \in Threads, SetCancelling(t) PROVE Flags'
  BY <1>3 DEF SetCancelling
<1>4. ASSUME NEW t \in Threads, Pass(t) PROVE Flags'
  <2>1. CASE BeginPass(t) \/ EndPass(t)
    BY <2>1 DEF BeginPass, EndPass
  <2>2. CASE Expire(t)
    BY <2>2 DEF Expire
  <2>3. CASE CancelExpired(t)
    <3>1. target[t] \in Transfers
      BY <2>3 DEF IInv, LockInv, CancelExpired, Step
    <3> QED
      BY <2>3, <3>1 DEF CancelExpired
  <2> QED
    BY <1>4, <2>1, <2>2, <2>3 DEF Pass
<1>5. ASSUME Events PROVE Flags'
  <2>1. CASE PollTimer \/ PollTimesOut \/ PollError \/ NoneToCancel \/ CallbackReturns
    BY <2>1 DEF PollTimer, PollTimesOut, PollError, NoneToCancel, CallbackReturns
  <2>2. CASE (\E T \in Transfers : ReapUrb(T)) \/ HandleCompletion \/ HandleCancellation
    BY <2>2 DEF ReapUrb, HandleCompletion, HandleCancellation
  <2>3. CASE Complete \/ PickToCancel \/ Disarm \/ Callback \/ ClearTransferPriv
    BY <2>3 DEF Complete, PickToCancel, Disarm, Callback, ClearTransferPriv
  <2> QED
    BY <1>5, <2>1, <2>2, <2>3 DEF Events
<1>6. ASSUME Environment PROVE Flags'
  BY <1>6 DEF Environment, Tick, UrbDone, Unplug
<1> QED
  BY <1>1, <1>2, <1>3, <1>4, <1>5, <1>6 DEF Next, Progress

-----------------------------------------------------------------------------
(* Passes over the timeouts.                                               *)

(* A thread is about to hand T's URB to the kernel.                        *)
AboutToFly(T) == lock[T] # None /\ pc[lock[T]] \in {"add", "urb"}

(* The thread that passes over the list is about to cancel T.              *)
BeingExpired(T) == flyingOwner # None /\ pc[flyingOwner] = "expire" /\ target[flyingOwner] = T

(* T's URB is not with the device, or will be cancelled by this pass.      *)
Settled(T) == (urb[T] # "flying" /\ ~AboutToFly(T)) \/ BeingExpired(T)

(* A transfer that is skipped because of its mark is settled, although the *)
(* mark is written without the transfer's lock and a cancellation may      *)
(* write back an old one.                                                  *)
MarkedInv ==
  /\ \A T \in Transfers : timedOut[T] => Settled(T)
  /\ \A t \in Threads : pc[t] \in {"cancelled", "expired"} => urb[target[t]] # "flying"

(* So are the transfers that a pass has left behind.                       *)
CursorInv ==
  /\ \A t \in Threads : pc[t] \notin LocksList => cursor[t] = 1
  /\ flyingOwner # None =>
       \A i \in 1..Len(flying) : i < cursor[flyingOwner] => Settled(flying[i])

LEMMA SettledStep ==
  ASSUME IInv, Next, NEW T \in Transfers, Settled(T), timedOut'[T] \/ phase[T] # "idle"
  PROVE  Settled(T)'
<1> /\ pc \in [Threads -> Labels] /\ target \in [Threads -> Transfers \union {None}]
    /\ lock \in [Transfers -> Threads \union {None}] /\ urb \in [Transfers -> UrbStates]
    /\ timedOut \in [Transfers -> BOOLEAN] /\ flyingOwner \in Threads \union {None}
    /\ handler \in Threads /\ None \notin Threads /\ None \notin Transfers
  BY ThreadsAssumption, TransfersAssumption DEF IInv, TypeOK, Threads
<1> LockInv /\ PhaseInv
  BY DEF IInv
<1>0. pc[handler] \in {"reap", "clear"} => target[handler] \in Transfers
  BY DEF PhaseInv, Ending
<1> USE DEF LockInv, LocksTransfer, Submitting, LocksList, UrbStates, Ending, Unlisted, Goto, Step,
      Home, PassOver, CancelUrb, Settled, AboutToFly, BeingExpired, fields
<1> HIDE DEF LockInv
<1>1. ASSUME NEW t \in Threads, Call(t) PROVE Settled(T)'
  <2>1. ASSUME NEW U \in Transfers, Submit(t, U) PROVE Settled(T)'
    <3>1. U # T
      BY <2>1 DEF Submit
    <3> QED
      BY <2>1, <3>1 DEF Submit, LockInv
  <2> QED
    BY <1>1, <2>1 DEF Call, Cancel, WaitTimesOut, LockInv
<1>2. ASSUME NEW t \in Threads, Submission(t) PROVE Settled(T)'
  BY <1>2 DEF Submission, AddToFlyingList, SubmitUrb, SubmitFails, Refuse, Arm, Accept, LockInv
<1>3. ASSUME NEW t \in Threads, SetCancelling(t) PROVE Settled(T)'
  BY <1>3 DEF SetCancelling, LockInv
<1>4. ASSUME NEW t \in Threads, Pass(t) PROVE Settled(T)'
  BY <1>4 DEF Pass, BeginPass, Expire, CancelExpired, EndPass, LockInv
<1>5. ASSUME Events PROVE Settled(T)'
  <2>1. CASE PickToCancel \/ PollTimer \/ PollTimesOut \/ PollError \/ NoneToCancel
             \/ CallbackReturns \/ \E U \in Transfers : ReapUrb(U)
    BY <2>1 DEF PickToCancel, PollTimer, PollTimesOut, PollError, NoneToCancel, CallbackReturns,
       ReapUrb, LockInv
  <2>2. CASE HandleCompletion \/ HandleCancellation \/ ClearTransferPriv
    BY <1>0, <2>2 DEF HandleCompletion, HandleCancellation, ClearTransferPriv, LockInv
  <2>3. CASE Complete \/ Disarm \/ Callback
    BY <2>3 DEF Complete, Disarm, Callback, LockInv
  <2> QED
    BY <1>5, <2>1, <2>2, <2>3 DEF Events
<1>6. ASSUME Environment PROVE Settled(T)'
  BY <1>6 DEF Environment, Tick, UrbDone, Unplug
<1> QED
  BY <1>1, <1>2, <1>3, <1>4, <1>5, <1>6 DEF Next, Progress

(* A transfer becomes marked in a pass, which goes on to cancel it, or by  *)
(* a cancellation that has killed its URB.                                 *)
LEMMA MarkedStep ==
  ASSUME IInv, MarkedInv, Next
  PROVE  MarkedInv'
<1> /\ pc \in [Threads -> Labels] /\ target \in [Threads -> Transfers \union {None}]
    /\ lock \in [Transfers -> Threads \union {None}] /\ urb \in [Transfers -> UrbStates]
    /\ timedOut \in [Transfers -> BOOLEAN] /\ flyingOwner \in Threads \union {None}
    /\ handler \in Threads /\ None \notin Threads /\ None \notin Transfers
  BY ThreadsAssumption, TransfersAssumption DEF IInv, TypeOK, Threads
<1> LockInv /\ PhaseInv
  BY DEF IInv
<1> USE DEF LockInv, LocksTransfer, Submitting, LocksList, UrbStates, Ending, Unlisted, Goto, Step,
      Home, PassOver, CancelUrb, fields
<1> HIDE DEF LockInv
<1>1. ASSUME NEW T \in Transfers, timedOut'[T] PROVE Settled(T)'
  <2>1. CASE timedOut[T]
    BY <1>1, <2>1, SettledStep DEF MarkedInv
  <2>2. CASE ~timedOut[T]
    <3>1. ASSUME NEW t \in Threads, SetCancelling(t) PROVE Settled(T)'
      <4>1. target[t] = T /\ urb[T] # "flying" /\ urb' = urb /\ lock'[T] = None
        BY <1>1, <2>2, <3>1 DEF SetCancelling, MarkedInv, LockInv
      <4> QED
        BY <4>1 DEF Settled, AboutToFly
    <3>2. ASSUME NEW t \in Threads, Expire(t) PROVE Settled(T)'
      <4>1. target'[t] = T /\ pc'[t] = "expire" /\ flyingOwner = t /\ flyingOwner' = flyingOwner
        BY <1>1, <2>2, <3>2 DEF Expire, LockInv
      <4> QED
        BY <4>1 DEF Settled, BeingExpired
    <3>3. ASSUME NEW t \in Threads, Call(t) \/ Submission(t) \/ Pass(t) PROVE Settled(T)'
      BY <1>1, <2>2, <3>2, <3>3 DEF Call, Submit, Cancel, WaitTimesOut, Submission,
         AddToFlyingList, SubmitUrb, SubmitFails, Refuse, Arm, Accept, Pass, BeginPass,
         CancelExpired, EndPass
    <3>4. CASE Events \/ Environment
      BY <1>1, <2>2, <3>4 DEF Events, PollTimer, PollTimesOut, ReapUrb, HandleCompletion,
         HandleCancellation, Complete, Disarm, Callback, CallbackReturns, PollError, PickToCancel,
         NoneToCancel, ClearTransferPriv, Environment, Tick, UrbDone, Unplug
    <3> QED
      BY <3>1, <3>3, <3>4 DEF Next, Progress
  <2> QED
    BY <2>1, <2>2
<1>2. ASSUME NEW t \in Threads, pc'[t] \in {"cancelled", "expired"}
      PROVE  urb'[target'[t]] # "flying"
  <2>0. pc[t] \in {"cancelled", "expired"} => urb[target[t]] # "flying"
    BY DEF MarkedInv
  <2>1. ASSUME NEW u \in Threads, Call(u) PROVE urb'[target'[t]] # "flying"
    BY <1>2, <2>0, <2>1 DEF Call, Submit, Cancel, WaitTimesOut, LockInv
  <2>2. ASSUME NEW u \in Threads, Submission(u) PROVE urb'[target'[t]] # "flying"
    BY <1>2, <2>0, <2>2 DEF Submission, AddToFlyingList, SubmitUrb, SubmitFails, Refuse, Arm,
       Accept, LockInv
  <2>3. ASSUME NEW u \in Threads, SetCancelling(u) \/ Pass(u) PROVE urb'[target'[t]] # "flying"
    BY <1>2, <2>0, <2>3 DEF SetCancelling, Pass, BeginPass, Expire, CancelExpired, EndPass, LockInv
  <2>4. CASE Events
    BY <1>2, <2>0, <2>4 DEF Events, PollTimer, PollTimesOut, ReapUrb, HandleCompletion,
       HandleCancellation, Complete, Disarm, Callback, CallbackReturns, PollError, PickToCancel,
       NoneToCancel, ClearTransferPriv, LockInv
  <2>5. CASE Environment
    <3>1. pc' = pc /\ target' = target /\ target[t] \in Transfers
      BY <1>2, <2>5 DEF Environment, Tick, UrbDone, Unplug, LockInv
    <3>2. \A T \in Transfers : urb'[T] = "flying" => urb[T] = "flying"
      BY <2>5 DEF Environment, Tick, UrbDone, Unplug
    <3> QED
      BY <1>2, <2>0, <3>1, <3>2
  <2> QED
    BY <2>1, <2>2, <2>3, <2>4, <2>5 DEF Next, Progress
<1> QED
  BY <1>1, <1>2 DEF MarkedInv

(* While a pass holds the list, what it has left behind stays settled.     *)
LEMMA CursorStep ==
  ASSUME IInv, MarkedInv, CursorInv, Next
  PROVE  CursorInv'
<1> /\ pc \in [Threads -> Labels] /\ cursor \in [Threads -> Nat \ {0}]
    /\ flyingOwner \in Threads \union {None} /\ handler \in Threads /\ None \notin Threads
    /\ flying \in Seq(Transfers)
  BY ThreadsAssumption DEF IInv, TypeOK, Threads
<1> LockInv /\ Len(flying) \in Nat
  BY LenProperties DEF IInv
<1> USE DEF LocksList, Goto, Step, Home, PassOver, threads, fields
<1>0. \A T \in Transfers : T \in Listed /\ Settled(T) => Settled(T)'
  <2>1. \A T \in Transfers : T \in Listed => phase[T] # "idle"
    BY DEF IInv, ListInv, Held
  <2> QED
    BY <2>1, SettledStep
<1>1. ASSUME NEW i \in 1..Len(flying)
      PROVE  flying[i] \in Transfers /\ flying[i] \in Listed
  BY ElementOfSeq, LenProperties DEF Listed, ToSet
<1>2. ASSUME flying' = flying, flyingOwner' = flyingOwner,
             \A t \in Threads : cursor'[t] = cursor[t],
             \A t \in Threads : pc'[t] \in LocksList <=> pc[t] \in LocksList
      PROVE  CursorInv'
  <2>1. ASSUME NEW i \in 1..Len(flying), flyingOwner # None, i < cursor'[flyingOwner]
        PROVE  \A T \in Transfers : T = flying[i] => Settled(T)'
    BY <1>0, <1>1, <1>2, <2>1 DEF CursorInv
  <2>2. \A t \in Threads : pc'[t] \notin LocksList => cursor'[t] = 1
    BY <1>2 DEF CursorInv
  <2> HIDE DEF LocksList
  <2>3. flyingOwner' # None =>
          \A i \in 1..Len(flying') : i < cursor'[flyingOwner'] => Settled(flying[i])'
    BY <1>1, <1>2, <2>1
  <2> QED
    BY <2>2, <2>3 DEF CursorInv
<1>3. ASSUME flyingOwner' = None, \A t \in Threads : cursor'[t] = cursor[t],
             \A t \in Threads : pc'[t] \in LocksList <=> pc[t] \in LocksList
      PROVE  CursorInv'
  BY <1>3 DEF CursorInv
<1>4. ASSUME NEW t \in Threads, Call(t) \/ SetCancelling(t) PROVE CursorInv'
  BY <1>2, <1>4 DEF Call, Submit, Cancel, WaitTimesOut, SetCancelling
<1>5. ASSUME NEW t \in Threads, Submission(t) PROVE CursorInv'
  <2>1. CASE AddToFlyingList(t) \/ Refuse(t)
    BY <1>3, <2>1 DEF AddToFlyingList, Refuse
  <2>2. CASE SubmitUrb(t) \/ SubmitFails(t) \/ Arm(t) \/ Accept(t)
    BY <1>2, <2>2 DEF SubmitUrb, SubmitFails, Arm, Accept
  <2> QED
    BY <1>5, <2>1, <2>2 DEF Submission
<1>6. ASSUME NEW t \in Threads, Pass(t) PROVE CursorInv'
  <2>1. CASE BeginPass(t)
    <3>1. /\ pc[t] = "pass" /\ pc' = [pc EXCEPT ![t] = "scan"] /\ cursor' = cursor
          /\ flyingOwner' = t
      BY <2>1 DEF BeginPass
    <3>2. cursor[t] = 1
      BY <3>1 DEF CursorInv
    <3>3. \A i \in 1..Len(flying') : ~(i < cursor'[flyingOwner'])
      BY <3>1, <3>2
    <3>4. \A u \in Threads : pc'[u] \notin LocksList => cursor'[u] = 1
      BY <3>1 DEF CursorInv
    <3> QED
      BY <3>3, <3>4 DEF CursorInv
  <2>2. CASE Expire(t)
    <3>1. PICK i \in Due(t) :
            /\ pc[t] = "scan" /\ pc' = [pc EXCEPT ![t] = "expire"]
            /\ target'[t] = flying[i] /\ cursor' = [cursor EXCEPT ![t] = i + 1]
            /\ flying' = flying /\ flyingOwner' = flyingOwner
      BY <2>2 DEF Expire, IInv, TypeOK
    <3>2. flyingOwner = t /\ i \in 1..Len(flying)
      BY <3>1 DEF LockInv, Due
    <3>3. ASSUME NEW j \in 1..Len(flying), j < i + 1, NEW T \in Transfers, T = flying[j]
          PROVE  Settled(T)'
      <4>1. CASE j = i
        BY <3>1, <3>2, <3>3, <4>1 DEF Settled, BeingExpired
      <4>2. CASE j < i
        <5>1. Settled(T)
          <6>1. CASE j < cursor[t]
            BY <3>2, <3>3, <6>1 DEF CursorInv
          <6>2. CASE j >= cursor[t]
            <7>1. j \in cursor[t]..(i - 1)
              BY <3>2, <4>2, <6>2
            <7>2. timedOut[T]
              BY <3>3, <7>1 DEF Due
            <7> QED
              BY <7>2 DEF MarkedInv
          <6> QED
            BY <6>1, <6>2
        <5> QED
          BY <1>0, <1>1, <3>3, <5>1
      <4> QED
        BY <3>2, <3>3, <4>1, <4>2
    <3>4. \A u \in Threads : pc'[u] \notin LocksList => cursor'[u] = 1
      BY <3>1 DEF CursorInv
    <3>5. cursor'[t] = i + 1
      BY <3>1
    <3>6. flyingOwner' # None =>
            \A j \in 1..Len(flying') : j < cursor'[flyingOwner'] => Settled(flying[j])'
      BY <1>1, <3>1, <3>2, <3>3, <3>5
    <3> QED
      BY <3>4, <3>6 DEF CursorInv
  <2>3. CASE CancelExpired(t)
    BY <1>2, <2>3 DEF CancelExpired
  <2>4. CASE EndPass(t)
    <3>1. pc' = [pc EXCEPT ![t] = PassOver(t)] /\ cursor' = [cursor EXCEPT ![t] = 1]
      BY <2>4 DEF EndPass
    <3>2. flyingOwner' = None
      BY <2>4 DEF EndPass
    <3>3. \A u \in Threads : pc'[u] \notin LocksList => cursor'[u] = 1
      BY <3>1 DEF CursorInv
    <3> QED
      BY <3>2, <3>3 DEF CursorInv
  <2> QED
    BY <1>6, <2>1, <2>2, <2>3, <2>4 DEF Pass
<1>7. ASSUME Events PROVE CursorInv'
  <2>1. CASE Complete
    BY <1>3, <2>1 DEF Complete
  <2>2. CASE PollTimer \/ PollTimesOut \/ PollError \/ NoneToCancel \/ PickToCancel
             \/ CallbackReturns \/ \E T \in Transfers : ReapUrb(T)
    BY <1>2, <2>2 DEF PollTimer, PollTimesOut, PollError, NoneToCancel, PickToCancel,
       CallbackReturns, ReapUrb
  <2>3. CASE HandleCompletion \/ HandleCancellation \/ ClearTransferPriv \/ Disarm \/ Callback
    BY <1>2, <2>3 DEF HandleCompletion, HandleCancellation, ClearTransferPriv, Disarm, Callback
  <2> QED
    BY <1>7, <2>1, <2>2, <2>3 DEF Events
<1>8. ASSUME Environment PROVE CursorInv'
  BY <1>2, <1>8 DEF Environment, Tick, UrbDone, Unplug
<1> QED
  BY <1>4, <1>5, <1>6, <1>7, <1>8 DEF Next, Progress

(* A pass that finds nothing more has settled all that was due: the list   *)
(* is sorted, so what it did not look at had not expired.                  *)
LEMMA PassedAll ==
  ASSUME IInv, MarkedInv, CursorInv
  PROVE  PassFindsAll
<1> SUFFICES ASSUME NEW t \in Threads, pc[t] = "scan", Due(t) = {}, NEW T \in Listed,
                    timeout[T] # 0, timeout[T] <= systime[t]
             PROVE  urb[T] # "flying"
  BY DEF PassFindsAll
<1>1. /\ flying \in Seq(Transfers) /\ Len(flying) \in Nat /\ cursor[t] \in Nat \ {0}
      /\ timeout \in [Transfers -> Nat] /\ systime[t] \in Nat /\ None \notin Threads
  BY LenProperties, ThreadsAssumption DEF IInv, TypeOK
<1>2. flyingOwner = t /\ T \in Transfers
  BY <1>1, LenProperties DEF IInv, LockInv, LocksList, Listed, ToSet
<1>3. PICK k \in 1..Len(flying) : flying[k] = T
  BY <1>1, LenProperties DEF Listed, ToSet
<1>4. \A U \in Transfers : Settled(U) => urb[U] # "flying"
  BY <1>2 DEF Settled, BeingExpired
<1>5. CASE k < cursor[t]
  BY <1>1, <1>2, <1>3, <1>4, <1>5 DEF CursorInv
<1>6. CASE k >= cursor[t]
  <2>1. \A j \in 1..k : /\ flying[j] \in Transfers
                        /\ timeout[flying[j]] # 0 /\ timeout[flying[j]] <= systime[t]
    <3>1. \A j \in 1..Len(flying) : flying[j] \in Transfers /\ timeout[flying[j]] \in Nat
      BY <1>1, ElementOfSeq
    <3> QED
      BY <1>1, <1>3, <3>1 DEF IInv, FlyingSorted
  <2> DEFINE unmarked == {j \in cursor[t]..k : ~timedOut[flying[j]]}
  <2>2. unmarked = {}
    <3> SUFFICES ASSUME unmarked # {} PROVE FALSE
      OBVIOUS
    <3>1. unmarked \subseteq Nat
      BY <1>1
    <3>2. PICK i \in unmarked : \A j \in unmarked : i <= j
      <4> HIDE DEF unmarked
      <4> QED
        BY <3>1, LeastElement
    <3>3. i \in cursor[t]..Len(flying) /\ i \in cursor[t]..k
      BY <1>1, <1>3
    <3>4. \A j \in cursor[t]..(i - 1) : timedOut[flying[j]]
      BY <1>1, <3>2, <3>3
    <3>5. \A j \in cursor[t]..i : timeout[flying[j]] # 0
      BY <1>1, <2>1, <3>3
    <3>6. i \in Due(t)
      BY <1>1, <2>1, <3>2, <3>3, <3>4, <3>5 DEF Due
    <3> QED
      BY <3>6
  <2>3. timedOut[T]
    BY <1>1, <1>3, <1>6, <2>2
  <2> QED
    BY <1>2, <1>4, <2>3 DEF MarkedInv
<1> QED
  BY <1>1, <1>5, <1>6

(* The inductive invariant.                                                *)
LEMMA Initial ==
  ASSUME Init
  PROVE  IInv
<1> handler \in Threads /\ None \notin Threads
  BY ThreadsAssumption DEF Threads
<1>1. flying = <<>> /\ flying \in Seq(Transfers) /\ Len(flying) = 0 /\ Listed = {}
  BY EmptySeq DEF Init, Listed, ToSet
<1>2. TypeOK
  <2>1. Places
    BY DEF Init, Places, Labels, UrbStates, L!Outcomes, L!Reasons, L!States, Threads
  <2>2. Times
    BY DEF Init, Times
  <2>3. Flags
    BY DEF Init, Flags
  <2> QED
    BY <1>1, <2>1, <2>2, <2>3 DEF TypeOK, Places, Times, Flags
<1>3. LockInv /\ PhaseInv /\ GoneInv
  BY DEF Init, LockInv, PhaseInv, GoneInv, LocksTransfer, LocksList, Submitting, Ending, Unlisted
<1>4. ListInv /\ UrbInv /\ FlyingSorted
  BY <1>1 DEF Init, ListInv, UrbInv, FlyingSorted, Held, Ending
<1> QED
  BY <1>2, <1>3, <1>4 DEF IInv

LEMMA Induction ==
  ASSUME IInv, Unplugging # "any time", [Next]_vars
  PROVE  IInv'
<1>1. CASE Next
  <2>1. TypeOK'
    BY <1>1, PlacesStep, TimesStep, FlagsStep, SortedStep DEF Places, Times, Flags, TypeOK
  <2>2. LockInv' /\ PhaseInv' /\ GoneInv' /\ ListInv' /\ UrbInv' /\ FlyingSorted'
    BY <1>1, LockStep, PhaseStep, GoneStep, ListStep, UrbStep, SortedStep DEF IInv
  <2> QED
    BY <2>1, <2>2 DEF IInv
<1>2. CASE UNCHANGED vars
  <2> USE <1>2 DEF vars, threads, fields, timer, device, program
  <2>1. TypeOK' /\ FlyingSorted'
    BY DEF IInv, TypeOK, FlyingSorted
  <2>2. LockInv' /\ PhaseInv' /\ GoneInv'
    BY DEF IInv, LockInv, PhaseInv, GoneInv
  <2>3. ListInv' /\ UrbInv'
    BY SameList DEF IInv, ListInv, UrbInv, Held
  <2> QED
    BY <2>1, <2>2, <2>3 DEF IInv
<1> QED
  BY <1>1, <1>2

(* The places, times and flags of the transfers are what they should be.   *)
THEOREM TransfersTypeCorrect == Unplugging # "any time" => (Spec => []TypeOK)
<1> SUFFICES ASSUME Unplugging # "any time" PROVE Spec => []TypeOK
  OBVIOUS
<1>1. Init => IInv
  BY Initial
<1>2. IInv /\ [Next]_vars => IInv'
  BY Induction
<1>3. IInv => TypeOK
  BY DEF IInv
<1> QED
  BY <1>1, <1>2, <1>3, PTL DEF Spec

(* The list of flying transfers is sorted by timeout and holds each once.  *)
THEOREM Sorted == Unplugging # "any time" => (Spec => []FlyingSorted)
<1> SUFFICES ASSUME Unplugging # "any time" PROVE Spec => []FlyingSorted
  OBVIOUS
<1>1. Init => IInv
  BY Initial
<1>2. IInv /\ [Next]_vars => IInv'
  BY Induction
<1>3. IInv => FlyingSorted
  BY DEF IInv
<1> QED
  BY <1>1, <1>2, <1>3, PTL DEF Spec

(* A transfer the program owns again is out of the library's reach.        *)
THEOREM IdleForgotten == Unplugging # "any time" => (Spec => []IdleIsForgotten)
<1> SUFFICES ASSUME Unplugging # "any time" PROVE Spec => []IdleIsForgotten
  OBVIOUS
<1>1. Init => IInv
  BY Initial
<1>2. IInv /\ [Next]_vars => IInv'
  BY Induction
<1>3. IInv => IdleIsForgotten
  BY DEF IInv, IdleIsForgotten, ListInv, UrbInv, Held
<1> QED
  BY <1>1, <1>2, <1>3, PTL DEF Spec

(* A pass over the timeouts ends when each transfer that had expired when  *)
(* it began has its URB back, or killed.                                   *)
THEOREM PassesFindAll == Unplugging # "any time" => (Spec => []PassFindsAll)
<1> SUFFICES ASSUME Unplugging # "any time" PROVE Spec => []PassFindsAll
  OBVIOUS
<1>1. Init => IInv /\ MarkedInv /\ CursorInv
  <2>1. ASSUME Init, NEW t \in Threads PROVE pc[t] \notin {"cancelled", "expired"}
    <3>1. pc[t] = IF t = handler THEN "poll" ELSE "idle"
      BY <2>1 DEF Init
    <3> QED
      BY <3>1
  <2>3. ASSUME Init, NEW t \in Threads PROVE cursor[t] = 1
    <3>1. cursor = [u \in Threads |-> 1]
      BY <2>3 DEF Init
    <3> QED
      BY <3>1
  <2>2. Init => flyingOwner = None /\ \A T \in Transfers : ~timedOut[T]
    BY DEF Init
  <2> QED
    BY <2>1, <2>2, <2>3, Initial DEF MarkedInv, CursorInv
<1>2. IInv /\ MarkedInv /\ CursorInv /\ [Next]_vars => (IInv /\ MarkedInv /\ CursorInv)'
  <2>1. CASE Next
    BY <2>1, Induction, MarkedStep, CursorStep
  <2>2. CASE UNCHANGED vars
    BY <2>2, Induction DEF vars, threads, fields, MarkedInv, CursorInv, Settled, AboutToFly,
       BeingExpired
  <2> QED
    BY <2>1, <2>2
<1>3. IInv /\ MarkedInv /\ CursorInv => PassFindsAll
  BY PassedAll
<1> QED
  BY <1>1, <1>2, <1>3, PTL DEF Spec

-----------------------------------------------------------------------------
(* Transfers implements TransferLifecycle: each step of it is a step of the *)
(* lifecycle of one transfer, or none of it.                                *)

TimeoutsKept == \A T \in Transfers : 0 \in Timeouts[T] => Timeouts[T] = {0}

Expired(T) == deadline[T] # 0 /\ deadline[T] <= now

(* The deadline the program asked for is the one the library works with.    *)
DeadlineInv ==
  /\ \A T \in Transfers : phase[T] = "idle" => deadline[T] = 0
  /\ \A T \in Transfers : phase[T] # "idle" => deadline[T] = timeout[T]
  /\ \A T \in Transfers : timeout[T] # 0 => 0 \notin Timeouts[T]
  /\ \A t \in Threads : pc[t] \in LocksList => systime[t] <= now

(* A transfer marked as timed out, or about to be marked again by a thread  *)
(* that read the flags before, has expired.                                 *)
MarkInv ==
  /\ \A T \in Transfers : timedOut[T] /\ phase[T] # "idle" => Expired(T)
  /\ \A t \in Threads : pc[t] \in {"cancelled", "expired"} =>
       (seen[t] /\ phase[target[t]] # "idle" => Expired(target[t]))

(* One whose URB the library kills has been marked, or the program has      *)
(* asked to cancel it: the mark is lost only to a cancellation.             *)
KillInv ==
  /\ \A T \in Transfers : asked[T] => phase[T] = "flying"
  /\ \A t \in Threads : pc[t] \in {"cancelled", "expired"} =>
       (phase[target[t]] = "flying" => seen[t] \/ asked[target[t]])
  /\ \A t \in Threads : pc[t] = "expire" => timedOut[target[t]] \/ asked[target[t]]
  /\ \A T \in Transfers : reapCancelled[T] /\ phase[T] = "flying" => timedOut[T] \/ asked[T]
  /\ \A t \in Threads : pc[t] \in {"arm", "submitted"} => ~reapCancelled[target[t]]
  /\ \A T \in Transfers : urb[T] = "killed" => reapCancelled[T]

(* The status the handler is going to report has a reason.                  *)
StatusInv ==
  /\ pc[handler] = "flags" => reapCancelled[target[handler]]
  /\ pc[handler] \in {"complete"} \union Unlisted =>
       \/ status = "completed"
       \/ status = "cancelled" /\ asked[target[handler]]
       \/ status = "timed_out" /\ Expired(target[handler])
       \/ status = "no_device" /\ gone

ReasonInv == IInv /\ DeadlineInv /\ MarkInv /\ KillInv /\ StatusInv

-----------------------------------------------------------------------------
LEMMA DeadlineStep ==
  ASSUME IInv, TimeoutsKept, DeadlineInv, Next
  PROVE  DeadlineInv'
<1> /\ pc \in [Threads -> Labels] /\ target \in [Threads -> Transfers \union {None}]
    /\ phase \in [Transfers -> L!States] /\ timeout \in [Transfers -> Nat]
    /\ deadline \in [Transfers -> Nat] /\ systime \in [Threads -> Nat] /\ now \in Nat
    /\ Timeouts \in [Transfers -> SUBSET Nat] /\ handler \in Threads
  BY TimeAssumption DEF IInv, TypeOK, Threads
<1> USE DEF DeadlineInv, LocksList, Goto, Step, Home, PassOver, EndSubmission, L!States
<1>0. ASSUME UNCHANGED <<phase, timeout, deadline, systime, now>>,
             \A t \in Threads : pc'[t] \in LocksList => pc[t] \in LocksList
      PROVE  DeadlineInv'
  BY <1>0
<1>1. ASSUME NEW t \in Threads, Call(t) PROVE DeadlineInv'
  <2>1. ASSUME NEW T \in Transfers, Submit(t, T) PROVE DeadlineInv'
    <3>1. now > 0 \/ now = 0
      OBVIOUS
    <3>2. PICK d \in Timeouts[T] :
            /\ timeout' = [timeout EXCEPT ![T] = IF d = 0 THEN @ ELSE now + d]
            /\ deadline' = [deadline EXCEPT ![T] = IF d = 0 THEN 0 ELSE now + d]
      BY <2>1 DEF Submit
    <3>3. d \in Nat /\ (d = 0 => timeout[T] = 0) /\ (d # 0 => 0 \notin Timeouts[T])
      BY <3>2 DEF TimeoutsKept
    <3>4. /\ phase' = [phase EXCEPT ![T] = "submitting"]
          /\ pc' = [pc EXCEPT ![t] = "add"]
          /\ systime' = systime /\ now' = now
      BY <2>1 DEF Submit, threads, timer
    <3> QED
      BY <3>2, <3>3, <3>4
  <2> QED
    BY <1>0, <1>1, <2>1 DEF Call, Cancel, WaitTimesOut, timer, program, fields, threads
<1>2. ASSUME NEW t \in Threads, Submission(t) PROVE DeadlineInv'
  <2> USE DEF threads, fields, timer, program
  <2>1. CASE Refuse(t) \/ Accept(t)
    <3>1. target[t] \in Transfers /\ phase[target[t]] = "submitting"
      BY <2>1 DEF IInv, LockInv, PhaseInv, LocksTransfer, Submitting, Refuse, Accept
    <3> QED
      BY <2>1, <3>1 DEF Refuse, Accept
  <2> QED
    BY <1>0, <1>2, <2>1 DEF Submission, AddToFlyingList, SubmitUrb, SubmitFails, Arm
<1>3. ASSUME NEW t \in Threads, SetCancelling(t) PROVE DeadlineInv'
  BY <1>3 DEF SetCancelling, timer, program
<1>4. ASSUME NEW t \in Threads, Pass(t) PROVE DeadlineInv'
  BY <1>4 DEF Pass, BeginPass, Expire, CancelExpired, EndPass, timer, program, fields
<1>5. ASSUME Events PROVE DeadlineInv'
  <2> USE DEF threads, fields, timer, program
  <2>1. CASE PollTimer \/ PollTimesOut \/ PollError \/ NoneToCancel \/ CallbackReturns
    BY <1>0, <2>1 DEF PollTimer, PollTimesOut, PollError, NoneToCancel, CallbackReturns
  <2>2. CASE (\E T \in Transfers : ReapUrb(T)) \/ HandleCompletion \/ HandleCancellation
    BY <1>0, <2>2 DEF ReapUrb, HandleCompletion, HandleCancellation
  <2>3. CASE Complete \/ PickToCancel \/ Disarm \/ Callback \/ ClearTransferPriv
    BY <2>3 DEF Complete, PickToCancel, Disarm, Callback, ClearTransferPriv
  <2> QED
    BY <1>5, <2>1, <2>2, <2>3 DEF Events
<1>6. ASSUME Environment PROVE DeadlineInv'
  <2> USE DEF threads, fields, timer, program
  <2>1. CASE Tick
    BY <2>1 DEF Tick
  <2>2. CASE \E T \in Transfers : UrbDone(T)
    BY <1>0, <2>2 DEF UrbDone
  <2>3. CASE Unplug
    BY <1>0, <2>3 DEF Unplug
  <2> QED
    BY <1>6, <2>1, <2>2, <2>3 DEF Environment
<1> QED
  BY <1>1, <1>2, <1>3, <1>4, <1>5, <1>6 DEF Next, Progress

(* Time passes: what has expired stays so.                                 *)
LEMMA ExpiredStays ==
  ASSUME TypeOK, UNCHANGED deadline, now' \in Nat, now' >= now
  PROVE  \A T \in Transfers : Expired(T) => Expired(T)'
BY DEF TypeOK, Expired

LEMMA MarkStep ==
  ASSUME IInv, DeadlineInv, MarkInv, Next
  PROVE  MarkInv'
<1> /\ pc \in [Threads -> Labels] /\ target \in [Threads -> Transfers \union {None}]
    /\ lock \in [Transfers -> Threads \union {None}]
    /\ phase \in [Transfers -> L!States] /\ handler \in Threads
    /\ seen \in [Threads -> BOOLEAN] /\ timedOut \in [Transfers -> BOOLEAN]
    /\ None \notin Threads /\ None \notin Transfers
  BY ThreadsAssumption, TransfersAssumption DEF IInv, TypeOK, Threads
<1>l. /\ \A t \in Threads : pc[t] \in LocksTransfer =>
           target[t] \in Transfers /\ lock[target[t]] = t
      /\ \A t \in Threads : pc[t] \in {"cancelled", "expired"} => pc[t] \in LocksTransfer
  BY DEF IInv, LockInv, LocksTransfer
<1> DEFINE marking == {"cancelled", "expired"}
<1> USE DEF MarkInv, Goto, Step, Home, PassOver, L!States
<1>0. ASSUME UNCHANGED <<timedOut, seen, deadline>>, now' \in Nat, now' >= now,
             \A T \in Transfers : phase'[T] # "idle" => phase[T] # "idle",
             \A t \in Threads : pc'[t] \in marking => pc[t] \in marking /\ target'[t] = target[t]
      PROVE  MarkInv'
  <2>1. \A T \in Transfers : Expired(T) => Expired(T)'
    BY <1>0, ExpiredStays DEF IInv
  <2>2. \A T \in Transfers : timedOut'[T] /\ phase'[T] # "idle" => Expired(T)'
    BY <1>0, <2>1
  <2>3. ASSUME NEW t \in Threads, pc'[t] \in marking, seen'[t], phase'[target'[t]] # "idle"
        PROVE  Expired(target[t])'
    BY <1>0, <1>l, <2>1, <2>3
  <2> QED
    BY <2>2, <2>3
<1>n. now \in Nat /\ now >= now
  BY DEF IInv, TypeOK
<1>e. ASSUME NEW T \in Transfers, UNCHANGED <<timedOut, seen, now>>,
             phase' = [phase EXCEPT ![T] = "idle"], deadline' = [deadline EXCEPT ![T] = 0],
             \A t \in Threads : pc'[t] \in marking => pc[t] \in marking /\ target'[t] = target[t]
      PROVE  MarkInv'
  <2>1. \A U \in Transfers \ {T} : Expired(U) => Expired(U)'
    BY <1>e DEF Expired, IInv, TypeOK
  <2>2. \A U \in Transfers : timedOut'[U] /\ phase'[U] # "idle" => Expired(U)'
    BY <1>e, <2>1
  <2>3. ASSUME NEW t \in Threads, pc'[t] \in marking, seen'[t], phase'[target'[t]] # "idle"
        PROVE  Expired(target[t])'
    <3>1. target'[t] = target[t] /\ target[t] \in Transfers \ {T} /\ pc[t] \in marking
      BY <1>e, <1>l, <2>3
    <3>2. Expired(target[t])
      BY <1>e, <2>3, <3>1
    <3> QED
      BY <2>1, <3>1, <3>2 DEF Expired
  <2> QED
    BY <2>2, <2>3
<1>1. ASSUME NEW t \in Threads, NEW T \in Transfers, Submit(t, T) PROVE MarkInv'
  <2>1. /\ timedOut' = [timedOut EXCEPT ![T] = FALSE]
        /\ pc' = [pc EXCEPT ![t] = "add"] /\ target' = [target EXCEPT ![t] = T]
        /\ phase' = [phase EXCEPT ![T] = "submitting"] /\ phase[T] = "idle"
        /\ UNCHANGED <<seen, now>> /\ lock[T] = None
    BY <1>1 DEF Submit, threads, timer
  <2>2. \A U \in Transfers \ {T} : deadline'[U] = deadline[U]
    BY <1>1 DEF Submit, IInv, TypeOK
  <2>3. \A U \in Transfers \ {T} : Expired(U) => Expired(U)'
    BY <2>1, <2>2 DEF Expired
  <2>4. \A U \in Transfers : timedOut'[U] /\ phase'[U] # "idle" => Expired(U)'
    BY <2>1, <2>3
  <2>5. ASSUME NEW u \in Threads, pc'[u] \in marking, seen'[u], phase'[target'[u]] # "idle"
        PROVE  Expired(target[u])'
    <3>1. u # t /\ target'[u] = target[u] /\ target[u] \in Transfers \ {T} /\ pc[u] \in marking
      BY <1>l, <2>1, <2>5
    <3>2. Expired(target[u])
      BY <2>1, <2>5, <3>1
    <3> QED
      BY <2>3, <3>1, <3>2 DEF Expired
  <2> QED
    BY <2>4, <2>5
<1>2. ASSUME NEW t \in Threads, NEW T \in Transfers,
             pc'[t] \in marking, \A u \in Threads \ {t} : pc'[u] = pc[u],
             target'[t] = T, \A u \in Threads \ {t} : target'[u] = target[u],
             seen'[t] = timedOut[T], \A u \in Threads \ {t} : seen'[u] = seen[u],
             UNCHANGED <<timedOut, phase, deadline, now>>
      PROVE  MarkInv'
  <2>1. \A U \in Transfers : Expired(U)' <=> Expired(U)
    BY <1>2 DEF Expired
  <2>2. \A U \in Transfers : timedOut'[U] /\ phase'[U] # "idle" => Expired(U)'
    BY <1>2, <2>1
  <2>3. ASSUME NEW u \in Threads, pc'[u] \in marking, seen'[u], phase'[target'[u]] # "idle"
        PROVE  Expired(target[u])'
    <3>1. target'[u] \in Transfers /\ Expired(target'[u])
      BY <1>l, <1>2, <2>3
    <3> QED
      BY <1>2, <3>1 DEF Expired
  <2> QED
    BY <2>2, <2>3
<1>3. ASSUME NEW t \in Threads, NEW T \in Transfers, Cancel(t, T) PROVE MarkInv'
  BY <1>2, <1>3 DEF Cancel, timer
<1>4. ASSUME NEW t \in Threads, Call(t) PROVE MarkInv'
  <2>1. CASE WaitTimesOut(t)
    BY <1>0, <1>n, <2>1 DEF WaitTimesOut, threads, fields, timer, program
  <2> QED
    BY <1>1, <1>3, <1>4, <2>1 DEF Call
<1>5. ASSUME NEW t \in Threads, Submission(t) PROVE MarkInv'
  <2> USE DEF threads, fields, timer, program
  <2>1. CASE Refuse(t)
    <3>1. target[t] \in Transfers /\ lock[target[t]] = t /\ pc[t] = "delist"
      BY <1>l, <2>1 DEF Refuse, LocksTransfer, Submitting
    <3> QED
      BY <1>e, <2>1, <3>1 DEF Refuse, EndSubmission
  <2>2. CASE Accept(t)
    <3>1. target[t] \in Transfers /\ phase[target[t]] = "submitting"
      BY <2>2 DEF IInv, LockInv, PhaseInv, LocksTransfer, Submitting, Accept
    <3> QED
      BY <1>0, <1>n, <2>2, <3>1 DEF Accept
  <2> QED
    BY <1>0, <1>n, <1>5, <2>1, <2>2 DEF Submission, AddToFlyingList, SubmitUrb, SubmitFails, Arm
<1>6. ASSUME NEW t \in Threads, SetCancelling(t) PROVE MarkInv'
  <2>1. /\ timedOut' = [timedOut EXCEPT ![target[t]] = seen[t]]
        /\ seen' = [seen EXCEPT ![t] = FALSE]
        /\ pc' = [pc EXCEPT ![t] = IF pc[t] = "expired" THEN "scan" ELSE Home(t)]
        /\ target' = [target EXCEPT ![t] = None] /\ pc[t] \in marking
        /\ UNCHANGED <<phase, deadline, now>>
    BY <1>6 DEF SetCancelling, timer, program
  <2>2. \A U \in Transfers : Expired(U)' <=> Expired(U)
    BY <2>1 DEF Expired
  <2>3. seen[t] /\ phase[target[t]] # "idle" => Expired(target[t])
    BY <2>1
  <2>4. \A U \in Transfers : timedOut'[U] /\ phase'[U] # "idle" => Expired(U)'
    BY <1>l, <2>1, <2>2, <2>3
  <2>5. ASSUME NEW u \in Threads, pc'[u] \in marking, seen'[u], phase'[target'[u]] # "idle"
        PROVE  Expired(target[u])'
    <3>1. u # t /\ target'[u] = target[u] /\ target[u] \in Transfers /\ pc[u] \in marking
      BY <1>l, <2>1, <2>5
    <3>2. Expired(target[u])
      BY <2>1, <2>5, <3>1
    <3> QED
      BY <2>1, <3>1, <3>2 DEF Expired
  <2> QED
    BY <2>4, <2>5
<1>7. ASSUME NEW t \in Threads, Pass(t) PROVE MarkInv'
  <2>1. CASE BeginPass(t) \/ EndPass(t)
    BY <1>0, <1>n, <2>1 DEF BeginPass, EndPass, fields, timer, program
  <2>2. CASE CancelExpired(t)
    <3>1. target[t] \in Transfers /\ target' = target
      BY <2>2 DEF IInv, LockInv, CancelExpired, Step
    <3> QED
      BY <1>2, <2>2, <3>1 DEF CancelExpired, timer, program
  <2>3. CASE Expire(t)
    <3>1. PICK i \in Due(t) : /\ target' = [target EXCEPT ![t] = flying[i]]
                              /\ timedOut' = [timedOut EXCEPT ![flying[i]] = TRUE]
      BY <2>3 DEF Expire
    <3>2. /\ flying[i] \in Transfers /\ flying[i] \in Listed
          /\ timeout[flying[i]] # 0 /\ timeout[flying[i]] <= systime[t]
      BY DueListed DEF IInv
    <3>3. phase[flying[i]] # "idle"
      BY <3>2 DEF IInv, ListInv, Held
    <3>4. pc[t] = "scan" /\ pc' = [pc EXCEPT ![t] = "expire"]
          /\ UNCHANGED <<seen, phase, deadline, now>>
      BY <2>3 DEF Expire, timer, program
    <3>5. Expired(flying[i])
      <4>1. deadline[flying[i]] = timeout[flying[i]] /\ systime[t] <= now
        BY <3>2, <3>3, <3>4 DEF DeadlineInv, LocksList
      <4>2. timeout[flying[i]] \in Nat /\ systime[t] \in Nat /\ now \in Nat
        BY <3>2 DEF IInv, TypeOK
      <4> QED
        BY <3>2, <4>1, <4>2 DEF Expired
    <3>6. \A U \in Transfers : Expired(U)' <=> Expired(U)
      BY <3>4 DEF Expired
    <3>7. \A U \in Transfers : timedOut'[U] /\ phase'[U] # "idle" => Expired(U)'
      BY <3>1, <3>2, <3>4, <3>5, <3>6
    <3>8. ASSUME NEW u \in Threads, pc'[u] \in marking, seen'[u], phase'[target'[u]] # "idle"
          PROVE  Expired(target[u])'
      <4>1. u # t /\ target'[u] = target[u] /\ target[u] \in Transfers /\ pc[u] \in marking
        BY <1>l, <3>1, <3>4, <3>8
      <4>2. Expired(target[u])
        BY <3>4, <3>8, <4>1
      <4> QED
        BY <3>4, <4>1, <4>2 DEF Expired
    <3> QED
      BY <3>7, <3>8
  <2> QED
    BY <1>7, <2>1, <2>2, <2>3 DEF Pass
<1>8. ASSUME Events PROVE MarkInv'
  <2> USE DEF threads, fields, timer, program
  <2>1. CASE PollTimer \/ PollTimesOut \/ PollError \/ NoneToCancel \/ CallbackReturns
    BY <1>0, <1>n, <2>1 DEF PollTimer, PollTimesOut, PollError, NoneToCancel, CallbackReturns
  <2>2. CASE (\E T \in Transfers : ReapUrb(T)) \/ HandleCompletion \/ HandleCancellation
    BY <1>0, <1>n, <2>2 DEF ReapUrb, HandleCompletion, HandleCancellation
  <2>3. CASE Complete \/ PickToCancel \/ Disarm \/ ClearTransferPriv
    BY <1>0, <1>n, <2>3 DEF Complete, PickToCancel, Disarm, ClearTransferPriv
  <2>4. CASE Callback
    <3>1. target[handler] \in Transfers
      BY <2>4 DEF IInv, PhaseInv, Unlisted, Callback
    <3> QED
      BY <1>e, <2>4, <3>1 DEF Callback, EndSubmission
  <2> QED
    BY <1>8, <2>1, <2>2, <2>3, <2>4 DEF Events
<1>9. ASSUME Environment PROVE MarkInv'
  <2> USE DEF threads, fields, timer, program
  <2>1. CASE Tick
    <3>1. now' \in Nat /\ now' >= now
      BY <2>1 DEF Tick, IInv, TypeOK
    <3> QED
      BY <1>0, <2>1, <3>1 DEF Tick
  <2>2. CASE (\E T \in Transfers : UrbDone(T)) \/ Unplug
    BY <1>0, <1>n, <2>2 DEF UrbDone, Unplug
  <2> QED
    BY <1>9, <2>1, <2>2 DEF Environment
<1> QED
  BY <1>4, <1>5, <1>6, <1>7, <1>8, <1>9 DEF Next, Progress

LEMMA KillStep ==
  ASSUME IInv, KillInv, Next
  PROVE  KillInv'
<1> /\ pc \in [Threads -> Labels] /\ target \in [Threads -> Transfers \union {None}]
    /\ lock \in [Transfers -> Threads \union {None}]
    /\ phase \in [Transfers -> L!States] /\ urb \in [Transfers -> UrbStates]
    /\ handler \in Threads
    /\ seen \in [Threads -> BOOLEAN] /\ timedOut \in [Transfers -> BOOLEAN]
    /\ asked \in [Transfers -> BOOLEAN] /\ reapCancelled \in [Transfers -> BOOLEAN]
    /\ None \notin Threads /\ None \notin Transfers
  BY ThreadsAssumption, TransfersAssumption DEF IInv, TypeOK, Threads
<1>l. /\ \A t \in Threads : pc[t] \in {"cancelled", "expired", "arm", "submitted"} =>
           target[t] \in Transfers /\ lock[target[t]] = t
      /\ \A t \in Threads : pc[t] = "expire" =>
           target[t] \in Transfers /\ phase[target[t]] # "idle"
      /\ \A t \in Threads : pc[t] \in {"cancelled", "expired", "expire"} =>
           (phase[target[t]] = "submitting" => lock[target[t]] # t)
  BY DEF IInv, LockInv, PhaseInv, ListInv, Held, LocksTransfer, Submitting
<1> DEFINE marking == {"cancelled", "expired"}
           taken   == {"arm", "submitted"}
<1> USE DEF KillInv, Goto, Step, Home, PassOver, L!States, UrbStates
<1>0. ASSUME UNCHANGED <<timedOut, seen, asked, reapCancelled, phase>>,
             \A T \in Transfers : urb'[T] = "killed" => urb[T] = "killed",
             \A t \in Threads : pc'[t] \in marking => pc[t] \in marking /\ target'[t] = target[t],
             \A t \in Threads : pc'[t] \in taken => pc[t] \in taken /\ target'[t] = target[t],
             \A t \in Threads : pc'[t] = "expire" => pc[t] = "expire" /\ target'[t] = target[t]
      PROVE  KillInv'
  BY <1>0
<1>1. ASSUME NEW t \in Threads, NEW T \in Transfers, Submit(t, T) PROVE KillInv'
  <2>1. /\ timedOut' = [timedOut EXCEPT ![T] = FALSE]
        /\ pc' = [pc EXCEPT ![t] = "add"] /\ target' = [target EXCEPT ![t] = T]
        /\ phase' = [phase EXCEPT ![T] = "submitting"] /\ phase[T] = "idle"
        /\ UNCHANGED <<seen, asked, reapCancelled, urb>> /\ lock[T] = None
    BY <1>1 DEF Submit, threads
  <2>2. \A u \in Threads : pc'[u] \in marking \union taken \union {"expire"} =>
          pc'[u] = pc[u] /\ target'[u] = target[u] /\ target[u] \in Transfers \ {T}
    BY <1>l, <2>1
  <2> QED
    BY <2>1, <2>2
<1>2. ASSUME NEW t \in Threads, NEW T \in Transfers, Cancel(t, T) PROVE KillInv'
  <2>1. /\ pc' = [pc EXCEPT ![t] = "cancelled"] /\ target' = [target EXCEPT ![t] = T]
        /\ seen' = [seen EXCEPT ![t] = timedOut[T]]
        /\ asked' = [asked EXCEPT ![T] = phase[T] = "flying"]
        /\ reapCancelled' = [reapCancelled EXCEPT ![T] = TRUE]
        /\ UNCHANGED <<timedOut, phase>> /\ lock[T] = None
    BY <1>2 DEF Cancel, CancelUrb
  <2>2. \A U \in Transfers : urb'[U] = "killed" => urb[U] = "killed" \/ U = T
    BY <1>2 DEF Cancel, CancelUrb
  <2>3. \A u \in Threads : u # t /\ pc'[u] \in taken =>
          pc'[u] = pc[u] /\ target'[u] = target[u] /\ target[u] \in Transfers \ {T}
    BY <1>l, <2>1
  <2>4. phase[T] # "submitting"
    BY <2>1 DEF IInv, PhaseInv
  <2>5. \A U \in Transfers : urb'[U] = "killed" => reapCancelled'[U]
    BY <2>1, <2>2
  <2>6. \A U \in Transfers : asked[U] => asked'[U]
    BY <2>1
  <2>7. \A U \in Transfers : asked'[U] => phase'[U] = "flying"
    BY <2>1
  <2>8. \A u \in Threads : pc'[u] \in marking =>
          (phase'[target'[u]] = "flying" => seen'[u] \/ asked'[target'[u]])
    <3>1. target'[t] = T /\ (phase[T] = "flying" => asked'[T])
      BY <2>1
    <3>2. \A u \in Threads \ {t} :
            pc'[u] = pc[u] /\ target'[u] = target[u] /\ seen'[u] = seen[u]
      BY <2>1
    <3> QED
      BY <1>l, <2>1, <2>6, <3>1, <3>2
  <2>9. \A u \in Threads : pc'[u] = "expire" => timedOut'[target'[u]] \/ asked'[target'[u]]
    BY <1>l, <2>1, <2>6
  <2>10. \A U \in Transfers : reapCancelled'[U] /\ phase'[U] = "flying" =>
           timedOut'[U] \/ asked'[U]
    BY <2>1, <2>6
  <2>11. \A u \in Threads : pc'[u] \in taken => ~reapCancelled'[target'[u]]
    BY <1>l, <2>1, <2>3
  <2> QED
    BY <2>5, <2>7, <2>8, <2>9, <2>10, <2>11
<1>3. ASSUME NEW t \in Threads, Call(t) PROVE KillInv'
  <2>1. CASE WaitTimesOut(t)
    BY <1>0, <2>1 DEF WaitTimesOut, threads, fields, program
  <2> QED
    BY <1>1, <1>2, <1>3, <2>1 DEF Call
<1>4. ASSUME NEW t \in Threads, Submission(t) PROVE KillInv'
  <2>t. pc[t] \in Submitting =>
          target[t] \in Transfers /\ lock[target[t]] = t /\ phase[target[t]] = "submitting"
    BY DEF IInv, LockInv, PhaseInv, LocksTransfer
  <2>o. pc[t] \in Submitting => \A u \in Threads \ {t} : target[u] = target[t] =>
          pc[u] \notin marking \union taken
    BY <1>l, <2>t
  <2> USE DEF threads, fields, program
  <2>1. CASE AddToFlyingList(t) \/ Arm(t)
    BY <1>0, <2>1 DEF AddToFlyingList, Arm
  <2>2. CASE SubmitUrb(t)
    <3>1. /\ pc[t] = "urb" /\ pc' = [pc EXCEPT ![t] = IF rearm[t] THEN "arm" ELSE "submitted"]
          /\ urb' = [urb EXCEPT ![target[t]] = "flying"]
          /\ reapCancelled' = [reapCancelled EXCEPT ![target[t]] = FALSE]
          /\ UNCHANGED <<target, timedOut, seen, asked, phase>>
      BY <2>2 DEF SubmitUrb
    <3>2. pc'[t] \in taken
      BY <3>1
    <3> QED
      BY <2>t, <3>1, <3>2 DEF Submitting
  <2>3. CASE SubmitFails(t)
    <3>1. /\ pc[t] = "urb" /\ pc' = [pc EXCEPT ![t] = "delist"]
          /\ reapCancelled' = [reapCancelled EXCEPT ![target[t]] = FALSE]
          /\ UNCHANGED <<target, timedOut, seen, asked, phase, urb>>
      BY <2>3 DEF SubmitFails
    <3>2. urb[target[t]] = "none"
      BY <2>t, <3>1 DEF IInv, UrbInv, Submitting
    <3> QED
      BY <2>t, <3>1, <3>2 DEF Submitting
  <2>4. CASE Refuse(t)
    <3>1. /\ pc[t] = "delist" /\ pc' = [pc EXCEPT ![t] = Home(t)]
          /\ phase' = [phase EXCEPT ![target[t]] = "idle"]
          /\ asked' = [asked EXCEPT ![target[t]] = FALSE]
          /\ target' = [target EXCEPT ![t] = None]
          /\ UNCHANGED <<timedOut, seen, reapCancelled, urb>>
      BY <2>4 DEF Refuse, EndSubmission
    <3>2. \A u \in Threads : pc'[u] \in marking \union taken \union {"expire"} =>
            pc'[u] = pc[u] /\ target'[u] = target[u] /\ u # t
      BY <3>1
    <3>3. ~asked[target[t]]
      BY <2>t, <3>1 DEF Submitting
    <3> QED
      BY <2>t, <2>o, <3>1, <3>2, <3>3 DEF Submitting
  <2>5. CASE Accept(t)
    <3>1. /\ pc[t] = "submitted" /\ pc' = [pc EXCEPT ![t] = Home(t)]
          /\ phase' = [phase EXCEPT ![target[t]] = "flying"]
          /\ target' = [target EXCEPT ![t] = None]
          /\ UNCHANGED <<timedOut, seen, asked, reapCancelled, urb>>
      BY <2>5 DEF Accept
    <3>2. \A u \in Threads : pc'[u] \in marking \union taken \union {"expire"} =>
            pc'[u] = pc[u] /\ target'[u] = target[u] /\ u # t
      BY <3>1
    <3> QED
      BY <2>t, <2>o, <3>1, <3>2 DEF Submitting
  <2> QED
    BY <1>4, <2>1, <2>2, <2>3, <2>4, <2>5 DEF Submission
<1>5. ASSUME NEW t \in Threads, SetCancelling(t) PROVE KillInv'
  <2>1. /\ timedOut' = [timedOut EXCEPT ![target[t]] = seen[t]]
        /\ seen' = [seen EXCEPT ![t] = FALSE]
        /\ pc' = [pc EXCEPT ![t] = IF pc[t] = "expired" THEN "scan" ELSE Home(t)]
        /\ target' = [target EXCEPT ![t] = None] /\ pc[t] \in marking
        /\ UNCHANGED <<phase, asked, reapCancelled, urb>>
    BY <1>5 DEF SetCancelling, program
  <2>2. \A u \in Threads : pc'[u] \in marking \union taken \union {"expire"} =>
          pc'[u] = pc[u] /\ target'[u] = target[u] /\ u # t
    BY <2>1
  <2>3. \A u \in Threads : pc[u] = "expire" /\ target[u] = target[t] =>
          phase[target[t]] = "flying"
    <3>1. phase[target[t]] # "submitting"
      BY <1>l, <2>1 DEF IInv, LockInv, PhaseInv, LocksTransfer, Submitting
    <3> QED
      BY <1>l, <2>1, <3>1
  <2> QED
    BY <1>l, <2>1, <2>2, <2>3
<1>6. ASSUME NEW t \in Threads, Pass(t) PROVE KillInv'
  <2>1. CASE BeginPass(t) \/ EndPass(t)
    BY <1>0, <2>1 DEF BeginPass, EndPass, fields, program
  <2>2. CASE CancelExpired(t)
    <3>1. /\ pc[t] = "expire" /\ pc' = [pc EXCEPT ![t] = "expired"]
          /\ seen' = [seen EXCEPT ![t] = timedOut[target[t]]]
          /\ reapCancelled' = [reapCancelled EXCEPT ![target[t]] = TRUE]
          /\ UNCHANGED <<target, timedOut, asked, phase>> /\ lock[target[t]] = None
      BY <2>2 DEF CancelExpired, CancelUrb, program
    <3>2. \A U \in Transfers : urb'[U] = "killed" => urb[U] = "killed" \/ U = target[t]
      BY <2>2 DEF CancelExpired, CancelUrb
    <3>3. \A u \in Threads : pc'[u] \in taken =>
            pc'[u] = pc[u] /\ u # t /\ target[u] \in Transfers \ {target[t]}
      BY <1>l, <3>1
    <3> QED
      BY <1>l, <3>1, <3>2, <3>3
  <2>3. CASE Expire(t)
    <3>1. PICK i \in Due(t) : /\ target' = [target EXCEPT ![t] = flying[i]]
                              /\ timedOut' = [timedOut EXCEPT ![flying[i]] = TRUE]
      BY <2>3 DEF Expire
    <3>2. flying[i] \in Transfers
      BY DueListed DEF IInv
    <3>3. pc[t] = "scan" /\ pc' = [pc EXCEPT ![t] = "expire"]
          /\ UNCHANGED <<seen, phase, asked, reapCancelled, urb>>
      BY <2>3 DEF Expire, program
    <3> QED
      BY <1>l, <3>1, <3>2, <3>3
  <2> QED
    BY <1>6, <2>1, <2>2, <2>3 DEF Pass
<1>7. ASSUME Events PROVE KillInv'
  <2> USE DEF threads, fields, program
  <2>1. CASE PollTimer \/ PollTimesOut \/ PollError \/ NoneToCancel \/ CallbackReturns
    BY <1>0, <2>1 DEF PollTimer, PollTimesOut, PollError, NoneToCancel, CallbackReturns
  <2>2. CASE (\E T \in Transfers : ReapUrb(T)) \/ HandleCompletion \/ HandleCancellation
    BY <1>0, <2>2 DEF ReapUrb, HandleCompletion, HandleCancellation
  <2>3. CASE Complete \/ PickToCancel \/ Disarm \/ ClearTransferPriv
    BY <1>0, <2>3 DEF Complete, PickToCancel, Disarm, ClearTransferPriv
  <2>4. CASE Callback
    <3>1. /\ pc[handler] = "call" /\ pc' = [pc EXCEPT ![handler] = "callback"]
          /\ phase' = [phase EXCEPT ![target[handler]] = "idle"]
          /\ asked' = [asked EXCEPT ![target[handler]] = FALSE]
          /\ target' = [target EXCEPT ![handler] = None]
          /\ UNCHANGED <<timedOut, seen, reapCancelled, urb>>
      BY <2>4 DEF Callback, EndSubmission
    <3>2. target[handler] \in Transfers /\ target[handler] \notin Listed
      BY <3>1 DEF IInv, PhaseInv, ListInv, Held, Unlisted
    <3>3. \A u \in Threads : pc[u] = "expire" => target[u] # target[handler]
      BY <3>2 DEF IInv, ListInv
    <3>4. \A u \in Threads : pc'[u] \in marking \union taken \union {"expire"} =>
            pc'[u] = pc[u] /\ target'[u] = target[u] /\ u # handler
      BY <3>1
    <3> QED
      BY <1>l, <3>1, <3>2, <3>3, <3>4
  <2> QED
    BY <1>7, <2>1, <2>2, <2>3, <2>4 DEF Events
<1>8. ASSUME Environment PROVE KillInv'
  <2> USE DEF fields, program
  <2>1. UNCHANGED <<pc, target, timedOut, seen, asked, reapCancelled, phase>>
    BY <1>8 DEF Environment, Tick, UrbDone, Unplug, threads
  <2>2. \A T \in Transfers : urb'[T] = "killed" => urb[T] = "killed"
    <3>1. CASE Tick
      BY <3>1 DEF Tick
    <3>2. CASE \E T \in Transfers : UrbDone(T)
      BY <3>2 DEF UrbDone
    <3>3. CASE Unplug
      BY <3>3 DEF Unplug
    <3> QED
      BY <1>8, <3>1, <3>2, <3>3 DEF Environment
  <2> QED
    BY <1>0, <2>1, <2>2
<1> QED
  BY <1>3, <1>4, <1>5, <1>6, <1>7, <1>8 DEF Next, Progress

LEMMA StatusStep ==
  ASSUME IInv, DeadlineInv, MarkInv, KillInv, StatusInv, Next
  PROVE  StatusInv'
<1> DEFINE T == target[handler]
           ending == {"flags", "complete"} \union Unlisted
<1> /\ pc \in [Threads -> Labels] /\ handler \in Threads /\ status \in L!Outcomes
    /\ target \in [Threads -> Transfers \union {None}] /\ phase \in [Transfers -> L!States]
  BY ThreadsAssumption DEF IInv, TypeOK, Threads
<1>l. pc[handler] \in ending => T \in Transfers /\ phase[T] = "flying"
  BY DEF IInv, PhaseInv, Ending, Unlisted
<1> USE DEF StatusInv, Unlisted, Goto, Step, Home, PassOver
<1>0. ASSUME pc'[handler] \in ending =>
               /\ pc'[handler] = pc[handler] /\ target'[handler] = T /\ status' = status
               /\ reapCancelled[T] => reapCancelled'[T]
               /\ asked[T] => asked'[T]
               /\ Expired(T) => Expired(T)'
               /\ gone => gone'
      PROVE  StatusInv'
  BY <1>0
<1>s. ASSUME UNCHANGED <<deadline, now>>
      PROVE  \A U \in Transfers : Expired(U) => Expired(U)'
  BY <1>s DEF Expired
<1>1. ASSUME NEW t \in Threads, Call(t) PROVE StatusInv'
  <2>1. ASSUME NEW U \in Transfers, Submit(t, U) PROVE StatusInv'
    <3>1. /\ pc' = [pc EXCEPT ![t] = "add"] /\ target' = [target EXCEPT ![t] = U]
          /\ phase[U] = "idle" /\ UNCHANGED <<status, reapCancelled, asked, gone, now>>
      BY <2>1 DEF Submit, timer, device
    <3>2. \A V \in Transfers \ {U} : Expired(V) => Expired(V)'
      BY <2>1, <3>1 DEF Submit, Expired, IInv, TypeOK
    <3> QED
      BY <1>0, <1>l, <3>1, <3>2
  <2>2. ASSUME NEW U \in Transfers, Cancel(t, U) PROVE StatusInv'
    <3>1. /\ pc' = [pc EXCEPT ![t] = "cancelled"] /\ target' = [target EXCEPT ![t] = U]
          /\ UNCHANGED <<status, gone, deadline, now>>
      BY <2>2 DEF Cancel, timer, device
    <3>2. \A V \in Transfers : reapCancelled[V] => reapCancelled'[V]
      BY <2>2 DEF Cancel, CancelUrb, IInv, TypeOK
    <3>3. \A V \in Transfers : asked[V] => asked'[V]
      BY <2>2 DEF Cancel, KillInv, IInv, TypeOK
    <3> QED
      BY <1>0, <1>l, <1>s, <3>1, <3>2, <3>3
  <2>3. CASE WaitTimesOut(t)
    BY <1>0, <1>l, <1>s, <2>3 DEF WaitTimesOut, fields, timer, device, program
  <2> QED
    BY <1>1, <2>1, <2>2, <2>3 DEF Call
<1>2. ASSUME NEW t \in Threads, Submission(t) PROVE StatusInv'
  <2> USE DEF threads, fields, timer, device, program
  <2>t. pc[t] \in Submitting =>
          target[t] \in Transfers /\ (pc[handler] \in ending => target[t] # T)
    BY <1>l DEF IInv, LockInv, PhaseInv, LocksTransfer
  <2>1. CASE AddToFlyingList(t) \/ Arm(t)
    BY <1>0, <1>l, <1>s, <2>1 DEF AddToFlyingList, Arm
  <2>2. CASE SubmitUrb(t) \/ SubmitFails(t)
    <3>1. /\ pc[t] = "urb" /\ pc'[t] \in {"arm", "submitted", "delist"}
          /\ \A u \in Threads \ {t} : pc'[u] = pc[u]
          /\ reapCancelled' = [reapCancelled EXCEPT ![target[t]] = FALSE]
          /\ UNCHANGED <<target, status, asked, gone, deadline, now>>
      BY <2>2 DEF SubmitUrb, SubmitFails
    <3>2. pc[handler] \in ending => reapCancelled'[T] = reapCancelled[T]
      BY <1>l, <2>t, <3>1 DEF Submitting, IInv, TypeOK
    <3> QED
      BY <1>0, <1>l, <1>s, <3>1, <3>2
  <2>3. CASE Refuse(t)
    <3>1. /\ pc[t] = "delist" /\ pc' = [pc EXCEPT ![t] = Home(t)]
          /\ target' = [target EXCEPT ![t] = None]
          /\ asked' = [asked EXCEPT ![target[t]] = FALSE]
          /\ deadline' = [deadline EXCEPT ![target[t]] = 0]
          /\ UNCHANGED <<status, reapCancelled, gone, now>>
      BY <2>3 DEF Refuse, EndSubmission
    <3>2. pc[handler] \in ending => asked'[T] = asked[T] /\ deadline'[T] = deadline[T]
      BY <1>l, <2>t, <3>1 DEF Submitting, IInv, TypeOK
    <3> QED
      BY <1>0, <1>l, <3>1, <3>2 DEF Expired
  <2>4. CASE Accept(t)
    BY <1>0, <1>l, <1>s, <2>4 DEF Accept
  <2> QED
    BY <1>2, <2>1, <2>2, <2>3, <2>4 DEF Submission
<1>3. ASSUME NEW t \in Threads, SetCancelling(t) PROVE StatusInv'
  BY <1>0, <1>l, <1>s, <1>3 DEF SetCancelling, timer, device, program
<1>4. ASSUME NEW t \in Threads, Pass(t) PROVE StatusInv'
  <2> USE DEF fields, timer, device, program
  <2>1. CASE BeginPass(t) \/ EndPass(t)
    BY <1>0, <1>l, <1>s, <2>1 DEF BeginPass, EndPass
  <2>2. CASE CancelExpired(t)
    <3>1. pc' = [pc EXCEPT ![t] = "expired"]
          /\ UNCHANGED <<target, status, asked, gone, deadline, now>>
      BY <2>2 DEF CancelExpired
    <3>2. \A V \in Transfers : reapCancelled[V] => reapCancelled'[V]
      BY <2>2 DEF CancelExpired, CancelUrb, IInv, TypeOK
    <3> QED
      BY <1>0, <1>l, <1>s, <3>1, <3>2
  <2>3. CASE Expire(t)
    BY <1>0, <1>l, <1>s, <2>3 DEF Expire
  <2> QED
    BY <1>4, <2>1, <2>2, <2>3 DEF Pass
<1>5. ASSUME Events PROVE StatusInv'
  <2> USE DEF threads, fields, timer, device, program
  <2>1. CASE PollTimer \/ PollTimesOut \/ NoneToCancel \/ CallbackReturns
    BY <2>1 DEF PollTimer, PollTimesOut, NoneToCancel, CallbackReturns
  <2>2. CASE PollError \/ PickToCancel \/ \E U \in Transfers : ReapUrb(U)
    BY <2>2 DEF PollError, PickToCancel, ReapUrb
  <2>3. CASE HandleCompletion
    <3>1. urb[T] \in {"done", "killed"} /\ T \in Transfers
      BY <2>3 DEF HandleCompletion, IInv, PhaseInv, UrbInv, Ending
    <3>2. ~reapCancelled[T] => urb[T] = "done"
      BY <3>1 DEF KillInv
    <3>3. CASE reapCancelled[T]
      BY <2>3, <3>3 DEF HandleCompletion
    <3>4. CASE ~reapCancelled[T]
      BY <2>3, <3>2, <3>4 DEF HandleCompletion
    <3> QED
      BY <3>3, <3>4
  <2>4. CASE HandleCancellation
    <3>1. /\ pc[handler] = "flags" /\ pc' = [pc EXCEPT ![handler] = "complete"]
          /\ status' = IF timedOut[T] THEN "timed_out" ELSE "cancelled"
          /\ UNCHANGED <<target, asked, deadline, now>>
      BY <2>4 DEF HandleCancellation
    <3>2. T \in Transfers /\ phase[T] = "flying" /\ reapCancelled[T]
      BY <1>l, <3>1
    <3>3. timedOut[T] => Expired(T)
      BY <3>2 DEF MarkInv
    <3>4. ~timedOut[T] => asked[T]
      BY <3>2 DEF KillInv
    <3> QED
      BY <1>s, <3>1, <3>2, <3>3, <3>4
  <2>5. CASE Complete \/ Disarm
    <3>1. /\ pc[handler] \in {"complete", "disarm"} /\ pc'[handler] \in {"disarm", "call"}
          /\ UNCHANGED <<target, asked, deadline, now, status, gone>>
      BY <2>5 DEF Complete, Disarm
    <3> QED
      BY <1>l, <1>s, <3>1
  <2>6. CASE Callback
    BY <2>6 DEF Callback
  <2>7. CASE ClearTransferPriv
    <3>1. gone /\ status' = "no_device" /\ gone' = gone /\ pc'[handler] = "complete"
      BY <2>7 DEF ClearTransferPriv, IInv, GoneInv
    <3> QED
      BY <3>1
  <2> QED
    BY <1>5, <2>1, <2>2, <2>3, <2>4, <2>5, <2>6, <2>7 DEF Events
<1>6. ASSUME Environment PROVE StatusInv'
  <2>1. UNCHANGED <<pc, target, status, asked, reapCancelled, deadline>> /\ (gone => gone')
    BY <1>6 DEF Environment, Tick, UrbDone, Unplug, fields, device, program
  <2>2. now' \in Nat /\ now' >= now
    <3>1. now' = now \/ now' = now + 1
      BY <1>6 DEF Environment, Tick, UrbDone, Unplug, timer
    <3> QED
      BY <3>1 DEF IInv, TypeOK
  <2>3. \A V \in Transfers : Expired(V) => Expired(V)'
    BY <2>1, <2>2, ExpiredStays DEF IInv
  <2> QED
    BY <1>0, <1>l, <2>1, <2>3
<1> QED
  BY <1>1, <1>2, <1>3, <1>4, <1>5, <1>6 DEF Next, Progress

-----------------------------------------------------------------------------
LEMMA ReasonInitial ==
  ASSUME Init
  PROVE  ReasonInv
<1>1. IInv
  BY Initial
<1>2. DeadlineInv /\ MarkInv /\ KillInv /\ StatusInv
  BY ThreadsAssumption DEF Init, DeadlineInv, MarkInv, KillInv, StatusInv, LocksList, Unlisted,
     Threads
<1> QED
  BY <1>1, <1>2 DEF ReasonInv

LEMMA ReasonInduction ==
  ASSUME ReasonInv, TimeoutsKept, Unplugging # "any time", [Next]_vars
  PROVE  ReasonInv'
<1>1. IInv'
  BY Induction DEF ReasonInv
<1>2. CASE Next
  BY <1>1, <1>2, DeadlineStep, MarkStep, KillStep, StatusStep DEF ReasonInv
<1>3. CASE UNCHANGED vars
  BY <1>1, <1>3 DEF ReasonInv, DeadlineInv, MarkInv, KillInv, StatusInv, Expired, vars, threads,
     fields, timer, device, program
<1> QED
  BY <1>2, <1>3

(* What EndReasons depends on.                                             *)
LEMMA ReasonsSame ==
  ASSUME UNCHANGED <<asked, deadline, now, gone>>
  PROVE  EndReasons' = EndReasons
BY DEF EndReasons

LEMMA ReasonsMeaning ==
  /\ EndReasons \in [Transfers -> SUBSET L!Reasons]
  /\ \A T \in Transfers : /\ "cancelled" \in EndReasons[T] <=> asked[T]
                          /\ "timed_out" \in EndReasons[T] <=> Expired(T)
                          /\ "no_device" \in EndReasons[T] <=> gone
BY DEF EndReasons, Expired, L!Reasons

LEMMA ReasonsMeaningNext ==
  /\ EndReasons' \in [Transfers -> SUBSET L!Reasons]
  /\ \A T \in Transfers : /\ "cancelled" \in EndReasons'[T] <=> asked'[T]
                          /\ "timed_out" \in EndReasons'[T] <=> Expired(T)'
                          /\ "no_device" \in EndReasons'[T] <=> gone'
BY DEF EndReasons, Expired, L!Reasons

(* EndSubmission() leaves a device that is gone as the only reason.        *)
LEMMA ReasonsEnd ==
  ASSUME TypeOK, NEW T \in Transfers, EndSubmission(T), UNCHANGED <<now, gone>>
  PROVE  EndReasons' = [EndReasons EXCEPT ![T] = @ \intersect {"no_device"}]
<1>1. /\ asked' = [asked EXCEPT ![T] = FALSE] /\ deadline' = [deadline EXCEPT ![T] = 0]
      /\ asked \in [Transfers -> BOOLEAN] /\ deadline \in [Transfers -> Nat]
  BY DEF EndSubmission, TypeOK
<1>2. ~asked'[T] /\ ~Expired(T)' /\ gone' = gone
  BY <1>1 DEF Expired
<1>3. \A U \in Transfers \ {T} : asked'[U] = asked[U] /\ (Expired(U)' <=> Expired(U))
  BY <1>1 DEF Expired
<1>4. ASSUME NEW U \in Transfers \ {T} PROVE EndReasons'[U] = EndReasons[U]
  <2>1. \A r \in L!Reasons : r \in EndReasons'[U] <=> r \in EndReasons[U]
    BY <1>2, <1>3, ReasonsMeaning, ReasonsMeaningNext DEF L!Reasons
  <2>2. EndReasons'[U] \subseteq L!Reasons /\ EndReasons[U] \subseteq L!Reasons
    BY ReasonsMeaning, ReasonsMeaningNext
  <2> QED
    BY <2>1, <2>2
<1>5. EndReasons'[T] = EndReasons[T] \intersect {"no_device"}
  BY <1>2, ReasonsMeaning, ReasonsMeaningNext DEF L!Reasons
<1> QED
  BY <1>4, <1>5, ReasonsMeaning, ReasonsMeaningNext

LEMMA Implements ==
  ASSUME ReasonInv, Next
  PROVE  L!Next \/ UNCHANGED L!vars
<1> TypeOK /\ PhaseInv /\ handler \in Threads
  BY DEF ReasonInv, IInv, Threads
<1> USE DEF program
<1>0. ASSUME UNCHANGED <<phase, outcome, asked, deadline, now, gone>>
      PROVE  UNCHANGED L!vars
  BY <1>0, ReasonsSame DEF L!vars
<1>1. ASSUME UNCHANGED <<phase, outcome>>,
             \A T \in Transfers : (asked[T] => asked'[T]) /\ (Expired(T) => Expired(T)'),
             gone => gone'
      PROVE  L!Next
  <2>1. \A T \in Transfers : EndReasons[T] \subseteq EndReasons'[T]
    BY <1>1, ReasonsMeaning, ReasonsMeaningNext DEF L!Reasons
  <2> QED
    BY <1>1, <2>1, ReasonsMeaningNext DEF L!Next, L!Arise
<1>2. ASSUME NEW t \in Threads, NEW T \in Transfers, Submit(t, T) PROVE L!Next
  <2>1. PICK d \in Timeouts[T] :
          deadline' = [deadline EXCEPT ![T] = IF d = 0 THEN 0 ELSE now + d]
    BY <1>2 DEF Submit
  <2>2. d \in Nat /\ now \in Nat /\ deadline \in [Transfers -> Nat]
    BY <2>1, TimeAssumption DEF TypeOK
  <2>3. /\ UNCHANGED <<now, gone, asked>> /\ phase[T] = "idle"
        /\ phase' = [phase EXCEPT ![T] = "submitting"]
        /\ outcome' = [outcome EXCEPT ![T] = "none"]
    BY <1>2 DEF Submit, timer, device
  <2>4. deadline[T] = 0
    BY <2>3 DEF ReasonInv, DeadlineInv
  <2>5. \A U \in Transfers : Expired(U)' <=> Expired(U)
    BY <2>1, <2>2, <2>3, <2>4 DEF Expired
  <2>6. \A U \in Transfers : EndReasons'[U] = EndReasons[U]
    BY <2>3, <2>5, ReasonsMeaning, ReasonsMeaningNext DEF L!Reasons
  <2>7. EndReasons' = EndReasons
    BY <2>6, ReasonsMeaning, ReasonsMeaningNext
  <2> QED
    BY <2>3, <2>7 DEF L!Next, L!Submit
<1>3. ASSUME NEW t \in Threads, Call(t) PROVE L!Next \/ UNCHANGED L!vars
  <2>1. ASSUME NEW T \in Transfers, Cancel(t, T) PROVE L!Next
    <3>1. UNCHANGED <<phase, outcome, deadline, now, gone>>
      BY <2>1 DEF Cancel, timer, device
    <3>2. \A U \in Transfers : asked[U] => asked'[U]
      BY <2>1 DEF Cancel, ReasonInv, KillInv, TypeOK
    <3> QED
      BY <1>1, <3>1, <3>2 DEF Expired
  <2>2. CASE WaitTimesOut(t)
    BY <1>0, <2>2 DEF WaitTimesOut, timer, device
  <2> QED
    BY <1>2, <1>3, <2>1, <2>2 DEF Call
<1>4. ASSUME NEW t \in Threads, Submission(t) PROVE L!Next \/ UNCHANGED L!vars
  <2>t. pc[t] \in Submitting => target[t] \in Transfers /\ phase[target[t]] = "submitting"
    BY DEF ReasonInv, IInv, LockInv, PhaseInv, LocksTransfer
  <2>1. CASE Refuse(t)
    <3>1. /\ target[t] \in Transfers /\ phase[target[t]] = "submitting"
          /\ EndSubmission(target[t]) /\ UNCHANGED <<now, gone, outcome>>
      BY <2>t, <2>1 DEF Refuse, Submitting, timer, device
    <3>2. EndReasons' = [EndReasons EXCEPT ![target[t]] = @ \intersect {"no_device"}]
      BY <3>1, ReasonsEnd
    <3> QED
      BY <3>1, <3>2 DEF L!Next, L!Refuse, L!End, EndSubmission
  <2>2. CASE Accept(t)
    <3>1. /\ target[t] \in Transfers /\ phase[target[t]] = "submitting"
          /\ phase' = [phase EXCEPT ![target[t]] = "flying"]
          /\ UNCHANGED <<asked, deadline, now, gone, outcome>>
      BY <2>t, <2>2 DEF Accept, Submitting, timer, device
    <3> QED
      BY <3>1, ReasonsSame DEF L!Next, L!Accept
  <2> QED
    BY <1>0, <1>4, <2>1, <2>2 DEF Submission, AddToFlyingList, SubmitUrb, SubmitFails, Arm, timer,
       device
<1>5. ASSUME NEW t \in Threads, SetCancelling(t) \/ Pass(t) PROVE UNCHANGED L!vars
  BY <1>0, <1>5 DEF SetCancelling, Pass, BeginPass, Expire, CancelExpired, EndPass, timer, device
<1>6. ASSUME Events PROVE L!Next \/ UNCHANGED L!vars
  <2>1. CASE Callback
    <3>1. /\ target[handler] \in Transfers /\ phase[target[handler]] = "flying"
          /\ EndSubmission(target[handler]) /\ UNCHANGED <<now, gone>>
          /\ outcome' = [outcome EXCEPT ![target[handler]] = status]
      BY <2>1 DEF Callback, PhaseInv, Unlisted, Step, timer, device
    <3>2. EndReasons' = [EndReasons EXCEPT ![target[handler]] = @ \intersect {"no_device"}]
      BY <3>1, ReasonsEnd
    <3>3. status \in {"completed"} \union EndReasons[target[handler]]
      BY <2>1, <3>1, ReasonsMeaning DEF Callback, Step, Unlisted, ReasonInv, StatusInv
    <3> QED
      BY <3>1, <3>2, <3>3 DEF L!Next, L!Callback, L!End, EndSubmission
  <2>2. CASE Events /\ ~Callback
    BY <1>0, <2>2 DEF Events, PollTimer, PollTimesOut, PollError, ReapUrb, HandleCompletion,
       HandleCancellation, Complete, Disarm, CallbackReturns, PickToCancel, NoneToCancel,
       ClearTransferPriv, timer, device
  <2> QED
    BY <1>6, <2>1, <2>2
<1>7. ASSUME Environment PROVE L!Next \/ UNCHANGED L!vars
  <2>1. CASE Tick
    <3>1. UNCHANGED <<phase, outcome, asked, deadline, gone>> /\ now' = now + 1
      BY <2>1 DEF Tick, device
    <3>2. \A T \in Transfers : Expired(T) => Expired(T)'
      BY <3>1, ExpiredStays DEF TypeOK
    <3> QED
      BY <1>1, <3>1, <3>2
  <2>2. CASE \E T \in Transfers : UrbDone(T)
    BY <1>0, <2>2 DEF UrbDone, timer, device
  <2>3. CASE Unplug
    BY <1>1, <2>3 DEF Unplug, timer, Expired
  <2> QED
    BY <1>7, <2>1, <2>2, <2>3 DEF Environment
<1> QED
  BY <1>3, <1>4, <1>5, <1>6, <1>7 DEF Next, Progress

(* Every accepted submission is answered by exactly one callback, a refused *)
(* one by none, and an early end has a reason.                              *)
THEOREM Lifecycle ==
  TimeoutsKept /\ Unplugging # "any time" => (Spec => LifecycleSpec)
<1> SUFFICES ASSUME TimeoutsKept, Unplugging # "any time" PROVE Spec => LifecycleSpec
  OBVIOUS
<1>1. Init => ReasonInv
  BY ReasonInitial
<1>2. ReasonInv /\ [Next]_vars => ReasonInv'
  BY ReasonInduction
<1>3. ASSUME Init PROVE L!Init
  <2>1. \A T \in Transfers : ~asked[T] /\ ~Expired(T) /\ ~gone
    BY <1>3 DEF Init, Expired
  <2>2. \A T \in Transfers : EndReasons[T] = {}
    BY <2>1, ReasonsMeaning DEF L!Reasons
  <2>3. EndReasons = [T \in Transfers |-> {}]
    BY <2>2, ReasonsMeaning
  <2> QED
    BY <1>3, <2>3 DEF Init, L!Init
<1>4. ReasonInv /\ [Next]_vars => [L!Next]_(L!vars)
  <2>1. CASE UNCHANGED vars
    BY <2>1, ReasonsSame DEF vars, program, timer, device, L!vars
  <2> QED
    BY <2>1, Implements
<1> QED
  BY <1>1, <1>2, <1>3, <1>4, PTL DEF Spec, LifecycleSpec, L!Spec
=============================================================================
