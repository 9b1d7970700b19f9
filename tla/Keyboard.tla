------------------------------ MODULE Keyboard ------------------------------
(***************************************************************************)
(* The keyboard half of msdk (msdk/msdk.c): the report CurrKbOp[] of the   *)
(* keys held down, which every key call edits in place and sends whole.    *)
(*                                                                         *)
(* CurrKbOp[0] is 0, or 0x80 plus the index of the last slot reported;     *)
(* CurrKbOp[1] has one bit for each modifier; CurrKbOp[3..8] are the slots *)
(* for ordinary keys.  The model counts slots from 1, and calls a zero     *)
(* CurrKbOp[0] length 0.  One step is the code up to and including one     *)
(* exchange with the device.                                               *)
(***************************************************************************)
EXTENDS Naturals, FiniteSets, HidComm

CONSTANTS
  Keys,         \* ordinary keys
  Modifiers,    \* control, shift, alt and the like
  None,         \* an empty slot
  Slots,        \* 6 in the code
  MaxPresses,   \* bound on the count given to M_KeyPress()
  KeysMayFail   \* whether an exchange may fail

AllKeys == Keys \union Modifiers

ASSUME KeysAssumption ==
  Keys \intersect Modifiers = {} /\ None \notin AllKeys /\ IsFiniteSet(AllKeys)
ASSUME SlotsAssumption ==
  Slots \in Nat \ {0} /\ MaxPresses \in Nat /\ KeysMayFail \in BOOLEAN

VARIABLES
  report,   \* CurrKbOp[]: its length, modifiers and slots
  typing,   \* key M_KeyPress() is pressing, and the half presses it has left
  pressed,  \* keys down at the controlled machine
  keyResult \* what the last key call returned, or "running"

keyVars == <<report, typing, pressed, keyResult>>

Reports == [len : 0..Slots, mods : SUBSET Modifiers, slots : [1..Slots -> Keys \union {None}]]

Empty == [len |-> 0, mods |-> {}, slots |-> [i \in 1..Slots |-> None]]

KeysIdle == typing.left = 0

(* The slots 1..len are in use, without a gap, by keys that differ; a      *)
(* report of modifiers alone has one empty slot, and one of length 0 is    *)
(* all zero.                                                               *)
Packed(r) ==
  /\ \A i \in 1..Slots : (r.slots[i] # None) <=> (i <= r.len /\ r.slots[1] # None)
  /\ r.slots[1] = None => r.len <= 1
  /\ \A i, j \in 1..Slots : r.slots[i] = r.slots[j] /\ r.slots[i] # None => i = j
  /\ r.len = 0 => r.mods = {}

KeysTypeOK ==
  /\ report \in Reports
  /\ typing \in [key : AllKeys \union {None}, left : 0..(2 * MaxPresses)]
  /\ pressed \subseteq AllKeys
  /\ keyResult \in {"ok", "running", "failed"}

KeysInit ==
  /\ report = Empty
  /\ typing = [key |-> None, left |-> 0]
  /\ pressed = {}
  /\ keyResult = "ok"

-----------------------------------------------------------------------------
(* What the calls do to the report.                                        *)
First(S) == CHOOSE i \in S : \A j \in S : i <= j

(* A modifier; a report of length 0 becomes one with an empty slot.        *)
PressModifierAfresh(r, k) == [r EXCEPT !.len = 1, !.slots[1] = None, !.mods = @ \union {k}]

PressModifier(r, k) ==
  LET started == IF r.len = 0 THEN [r EXCEPT !.len = 1, !.slots[1] = None] ELSE r
  IN  [started EXCEPT !.mods = @ \union {k}]

(* An ordinary key goes to the first slot that is free or has it already,  *)
(* and to the last one when there is none.                                 *)
PressKey(r, k) ==
  LET fitting == {i \in 1..Slots : r.slots[i] \in {None, k}}
      i == IF fitting = {} THEN Slots ELSE First(fitting)
  IN  IF r.len = 0
      THEN [len |-> 1, mods |-> {}, slots |-> [r.slots EXCEPT ![1] = k]]
      ELSE [r EXCEPT !.slots[i] = k, !.len = IF r.slots[i] = k THEN @ ELSE i]

ReleaseModifier(r, k) ==
  IF r.len = 0 THEN Empty ELSE [r EXCEPT !.mods = @ \ {k}]

(* Where the key is, if it is found before a gap.                          *)
Found(r, k) ==
  {i \in 1..r.len : r.slots[i] = k /\ \A j \in 1..(i - 1) : r.slots[j] \notin {None, k}}

FirstFreeShort(r, p) == First({i \in (p + 1)..(r.len - 1) : r.slots[i] = None} \union {r.len})

(* The first free slot behind p.                                           *)
FirstFree(r, p) == First({i \in (p + 1)..r.len : r.slots[i] = None} \union {r.len + 1})

(* The keys between slot p and the next free slot move up by one; a report *)
(* without keys keeps one empty slot.                                      *)
CloseGap(r, p) ==
  LET free == FirstFree(r, p)
  IN  [r EXCEPT !.len   = IF free > 2 THEN free - 2 ELSE 1,
                !.slots = [i \in 1..Slots |->
                             IF i \in p..(free - 2) THEN r.slots[i + 1]
                             ELSE IF i = free - 1 THEN None ELSE r.slots[i]]]

(* Without any key and without modifiers the report is cleared.            *)
ReleaseKey(r, k) ==
  LET closed == IF Found(r, k) = {} THEN r ELSE CloseGap(r, First(Found(r, k)))
      last   == Found(r, k) # {} /\ closed.slots[1] = None
  IN  IF r.len = 0 \/ (last /\ r.mods = {}) THEN Empty ELSE closed

Down(r, k) == IF k \in Modifiers THEN PressModifier(r, k) ELSE PressKey(r, k)
Up(r, k)   == IF k \in Modifiers THEN ReleaseModifier(r, k) ELSE ReleaseKey(r, k)

(* M_KeyState().                                                           *)
KeyState(r, k) ==
  IF k \in Modifiers THEN k \in r.mods ELSE \E i \in 1..r.len : r.slots[i] = k

(* What the device makes of a report: it presses the keys sent with it and *)
(* releases all others; a report of one byte 0 releases everything.        *)
Reported(r) ==
  IF r.len = 0 THEN {} ELSE r.mods \union ({r.slots[i] : i \in 1..r.len} \ {None})

-----------------------------------------------------------------------------
(* The calls.  The report is edited before it is sent, and stays edited    *)
(* when the exchange fails.                                                *)
Send(r, x) ==
  /\ report' = r
  /\ pressed' = IF x.delivered THEN Reported(r) ELSE pressed

KeyAnswer(x) == keyResult' = IF x.ok THEN "ok" ELSE "failed"

KeyDown(k) ==
  /\ KeysIdle
  /\ \E x \in Exchanges(KeysMayFail) : Send(Down(report, k), x) /\ KeyAnswer(x)
  /\ UNCHANGED typing

KeyUp(k) ==
  /\ KeysIdle
  /\ \E x \in Exchanges(KeysMayFail) : Send(Up(report, k), x) /\ KeyAnswer(x)
  /\ UNCHANGED typing

(* M_KeyPress() presses and releases the key so many times, and gives up   *)
(* at the first exchange that fails.                                       *)
KeyPress(k) ==
  /\ KeysIdle
  /\ \E n \in 1..MaxPresses : typing' = [key |-> k, left |-> 2 * n]
  /\ keyResult' = "running"
  /\ UNCHANGED <<report, pressed>>

Type ==
  /\ ~KeysIdle
  /\ \E x \in Exchanges(KeysMayFail) :
       /\ IF typing.left % 2 = 0
          THEN Send(Down(report, typing.key), x)
          ELSE Send(Up(report, typing.key), x)
       /\ IF x.ok /\ typing.left > 1
          THEN typing' = [typing EXCEPT !.left = @ - 1] /\ keyResult' = "running"
          ELSE typing' = [key |-> None, left |-> 0] /\ KeyAnswer(x)

(* M_ReleaseAllKey() does not look at the outcome of the exchange.         *)
ReleaseAllKey ==
  /\ KeysIdle
  /\ \E x \in Exchanges(KeysMayFail) : Send(Empty, x)
  /\ keyResult' = "ok"
  /\ UNCHANGED typing

(* M_Open(): the handle is cleared.                                        *)
OpenKeys ==
  /\ KeysIdle
  /\ report' = Empty
  /\ keyResult' = "ok"
  /\ UNCHANGED <<typing, pressed>>

KeyCall ==
  \/ \E k \in AllKeys : KeyDown(k) \/ KeyUp(k) \/ KeyPress(k)
  \/ Type
  \/ ReleaseAllKey

KeysNext == KeyCall \/ OpenKeys

KeysSpec == KeysInit /\ [][KeysNext]_keyVars /\ WF_keyVars(Type)

-----------------------------------------------------------------------------
(* The report stays packed, through overflow of the slots and through the  *)
(* closing of gaps: M_KeyUp() and M_KeyState() stop at a gap, and a length *)
(* that is off sends a key too few or a free slot.                         *)
ReportPacked == Packed(report)

(* msdk.c keeps the promise of KeySet, the keys held being those that      *)
(* M_KeyState() tells: a call changes the one key it is about and never    *)
(* another, unless a key too many takes a slot, and a call that succeeds   *)
(* repairs what failed exchanges before it left at the machine.            *)
Promise == INSTANCE KeySet WITH
  held <- {k \in AllKeys : KeyState(report, k)}, result <- keyResult
KeySetSpec == Promise!Spec
=============================================================================
