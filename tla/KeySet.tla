------------------------------- MODULE KeySet -------------------------------
(***************************************************************************)
(* What msdk promises about the keys (msdk/msdk.h): a set of keys held     *)
(* down, which M_KeyState() reads, and the keys that are down at the       *)
(* controlled machine, which are those of the set after every key call     *)
(* that reports success, however earlier calls ended.                      *)
(***************************************************************************)
EXTENDS Naturals, FiniteSets

CONSTANTS
  Keys,       \* ordinary keys
  Modifiers,  \* control, shift, alt and the like
  Slots       \* ordinary keys that can be held at once

VARIABLES
  held,     \* keys the program holds down, as M_KeyState() tells them
  pressed,  \* keys down at the controlled machine
  result    \* what the last call returned, or "running"

vars == <<held, pressed, result>>

Init == held = {} /\ pressed = {} /\ result = "ok"

(* The machine hears of the new set or of nothing; if it may not have      *)
(* heard, the call fails.                                                  *)
Tell ==
  /\ pressed' \in {pressed, held'}
  /\ result' \in {"ok", "running", "failed"}
  /\ result' # "failed" => pressed' = held'

(* Only a key that finds no slot takes the place of another.               *)
Down(k) ==
  /\ \E lost \in SUBSET held :
       /\ held' = (held \ lost) \union {k}
       /\ lost # {} =>
            /\ k \in Keys \ held
            /\ Cardinality(held \intersect Keys) = Slots
            /\ Cardinality(lost) = 1
            /\ lost \subseteq Keys
  /\ Tell

Up(k) == held' = held \ {k} /\ Tell

(* M_ReleaseAllKey() reports success in any case.                          *)
ReleaseAll ==
  /\ held' = {}
  /\ pressed' \in {pressed, {}}
  /\ result' = "ok"

Begin == result' = "running" /\ UNCHANGED <<held, pressed>>

(* A new handle knows of no key; the machine keeps what is down.           *)
Reopen == held' = {} /\ result' = "ok" /\ UNCHANGED pressed

Next ==
  \/ \E k \in Keys \union Modifiers : Down(k) \/ Up(k)
  \/ ReleaseAll \/ Begin \/ Reopen

Spec == Init /\ [][Next]_vars
=============================================================================
