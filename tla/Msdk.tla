-------------------------------- MODULE Msdk --------------------------------
(***************************************************************************)
(* A program with one handle of msdk (msdk/msdk.c): it opens the emulator, *)
(* makes one call at a time, of the keyboard (module Keyboard) or of the   *)
(* mouse (module Mouse), closes the handle and opens it again.  Closing    *)
(* releases no key and no button: the controlled machine keeps them.       *)
(***************************************************************************)
EXTENDS Keyboard, Mouse

VARIABLE
  session   \* what M_Open() has given the program: "null", "open", or an
            \* "undefined" value

vars == <<keyVars, mouseVars, session>>

Idle == KeysIdle /\ MouseIdle

TypeOK == KeysTypeOK /\ MouseTypeOK /\ session \in {"null", "open", "undefined"}

Init == KeysInit /\ MouseInit /\ session = "null"

(* M_Open() of an emulator that is there and free: the handle is cleared.  *)
Open ==
  /\ session = "null" /\ session' = "open"
  /\ OpenKeys /\ OpenMouse

(* When HID_Open() fails M_Open() returns a variable that was never set:   *)
(* the program may take it for a handle, and nothing is known from then    *)
(* on, or find it NULL.                                                    *)
OpenFails ==
  /\ session = "null" /\ session' \in {"null", "undefined"}
  /\ UNCHANGED <<keyVars, mouseVars>>

(* M_Close().                                                              *)
Close ==
  /\ session = "open" /\ session' = "null"
  /\ Idle
  /\ UNCHANGED <<keyVars, mouseVars>>

UseKeys  == session = "open" /\ MouseIdle /\ KeyCall /\ UNCHANGED <<mouseVars, session>>
UseMouse == session = "open" /\ KeysIdle /\ MouseCall /\ UNCHANGED <<keyVars, session>>

Next == Open \/ OpenFails \/ Close \/ UseKeys \/ UseMouse

(* A call under way goes on.                                               *)
Progress ==
  \/ Type /\ UNCHANGED <<mouseVars, session>>
  \/ Loop /\ UNCHANGED <<keyVars, session>>

Spec == Init /\ [][Next]_vars /\ WF_vars(Progress)

-----------------------------------------------------------------------------
(* Every call of M_KeyPress(), of the clicks, the wheel and the moves      *)
(* returns, whatever its exchanges do, as long as each is answered: the    *)
(* loops over parts of a move and over the points of a curve come to an    *)
(* end.                                                                    *)
CallsReturn == ~Idle ~> Idle
=============================================================================
