------------------------------- MODULE MCMsdk -------------------------------
(* A finite instance of Msdk.  The two halves of a handle share no field, so *)
(* a program uses the keyboard or the mouse, and either opens and closes.    *)
EXTENDS Msdk

CONSTANTS k1, k2, k3, k4, ctrl, none, left

Size == [x |-> 4, y |-> 3]

(* To the right and up, past the left edge and down, and nowhere.            *)
Steps == {[x |-> 3, y |-> -2], [x |-> -5, y |-> 1], [x |-> 0, y |-> 0]}

(* The coordinates M_InternalMoveTo3() sends for the screens in common use   *)
(* are those of the pixels meant, columns and rows alike: what error there   *)
(* is (AbsoluteError) is the controlled machine's.                           *)
ASSUME ScalingExact ==
  \A s \in {<<640, 480>>, <<1024, 768>>, <<1366, 768>>, <<1920, 1080>>, <<3840, 2160>>} :
    \A i \in 1..2 : \A p \in 0..(s[i] - 1) : PixelAt(Scale(p, s[i], s[1]), s[i]) = p

VARIABLE uses   \* what the program uses: "keyboard" or "mouse"

MCInit == Init /\ uses \in {"keyboard", "mouse"} /\ (uses = "keyboard" => pointer = Zero)

MCNext ==
  /\ Next
  /\ UseKeys => uses = "keyboard"
  /\ UseMouse => uses = "mouse"
  /\ UNCHANGED uses

MCSpec == MCInit /\ [][MCNext]_<<vars, uses>> /\ WF_<<vars, uses>>(Progress /\ UNCHANGED uses)
=============================================================================
