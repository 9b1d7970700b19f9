------------------------------- MODULE Mouse -------------------------------
(***************************************************************************)
(* The mouse half of msdk (msdk/msdk.c): buttons, the wheel, relative      *)
(* moves split into reports a device can carry, moves to a position worked *)
(* out from the recorded one, and moves in absolute coordinates along a    *)
(* random curve.                                                           *)
(*                                                                         *)
(* A vector is a function on Axes.  A step starts a call, or is one turn   *)
(* of its loop up to the answer of the exchange, or ends the loop.  The    *)
(* program gives coordinates of the screen, tells M_ResolutionUsed() the   *)
(* real one, and does not move the pointer past the right or lower edge    *)
(* once the position is recorded (msdk.h tells it not to).                 *)
(***************************************************************************)
EXTENDS Integers, FiniteSets, HidComm

Axes == {"x", "y"}
Zero == [a \in Axes |-> 0]

CONSTANTS
  Buttons,       \* buttons of the mouse
  Screen,        \* size of the controlled machine's screen, a vector
  Distances,     \* vectors given to M_MoveR()
  MinStep,       \* 100 in the code, MIN_STEP
  MaxStep,       \* 126 in the code
  CharRange,     \* a signed char is in -CharRange..CharRange-1: 128
  HomeDistance,  \* 3000 in the code
  AbsoluteError, \* pixels by which an absolute move may miss: 2 in msdk.h
  MaxCount,      \* bound on counts of clicks and of wheel notches
  Faults         \* exchanges that may fail: "relative", "absolute"

ScaleMax == 32767   \* HW_MAX_RES

(* A vector is also a record with the fields x and y.                      *)
Positions == [x : 0..(Screen.x - 1), y : 0..(Screen.y - 1)]

ASSUME ScreenAssumption == Screen \in [Axes -> Nat \ {0}]
ASSUME StepsAssumption ==
  /\ MinStep \in Nat \ {0} /\ MaxStep \in Nat /\ MinStep <= MaxStep
  /\ CharRange \in Nat /\ MaxStep < CharRange
ASSUME HomeAssumption == HomeDistance \in Nat \ {0} /\ \A a \in Axes : Screen[a] <= HomeDistance
ASSUME ErrorAssumption == AbsoluteError \in Nat
ASSUME MouseInputsAssumption ==
  /\ Distances \subseteq [Axes -> Int]
  /\ MaxCount \in Nat
  /\ Faults \subseteq {"relative", "absolute"}

VARIABLES
  buttons,      \* CurrMouseOp[1]
  shift,        \* CurrMouseOp[2] and [3], as signed characters
  wheel,        \* CurrMouseOp[4], as a signed character
  known,        \* Mouse1stMovto: whether a position is recorded
  pos,          \* CurrMouseAbsPosX, CurrMouseAbsPosY
  resolution,   \* Cx, Cy
  call,         \* the call being executed, and the locals of its loop
  result,       \* what the last call returned, or "running"
  pointer,      \* where the pointer is on the screen
  hostButtons   \* buttons down at the controlled machine

handle == <<buttons, shift, wheel, known, pos, resolution>>
host   == <<pointer, hostButtons>>
mouseVars   == <<handle, call, result, host>>

NoCall == [op |-> "idle"]
MouseIdle == call.op = "idle"
Relative == {"moveR", "home", "moveTo"}

MouseTypeOK ==
  /\ buttons \subseteq Buttons /\ hostButtons \subseteq Buttons
  /\ shift \in [Axes -> -CharRange..(CharRange - 1)] /\ wheel \in -1..1
  /\ known \in BOOLEAN
  /\ pos \in [Axes -> Nat] /\ resolution \in [Axes -> Nat] /\ pointer \in Positions
  /\ CASE call.op \in Relative ->
            /\ call.rest \in [Axes -> Int] /\ call.target \in [Axes -> Nat]
       [] call.op = "curve" ->
            /\ call.rest \in [Axes -> Int] /\ call.target \in Positions /\ call.main \in Axes
       [] call.op = "jump"  -> call.target \in Positions
       [] call.op = "press" -> call.button \in Buttons /\ call.left \in 1..(2 * MaxCount)
       [] call.op = "wheel" -> call.left \in 1..MaxCount
       [] OTHER -> call = NoCall
  /\ result \in {"ok", "running", "failed"}

MouseInit ==
  /\ buttons = {} /\ shift = Zero /\ wheel = 0
  /\ known = FALSE /\ pos = Zero /\ resolution = Zero
  /\ call = NoCall /\ result = "ok"
  /\ pointer \in Positions /\ hostButtons = {}

-----------------------------------------------------------------------------
Abs(n) == IF n < 0 THEN -n ELSE n
Lesser(m, n) == IF m < n THEN m ELSE n
Greater(m, n) == IF m > n THEN m ELSE n
Toward(n, d) == IF d < 0 THEN -n ELSE n
SignedChar(n) == ((n + CharRange) % (2 * CharRange)) - CharRange

(* A report with this motion and these buttons is sent; where it arrives   *)
(* the pointer moves and stops at the edges.                               *)
SendReport(motion, B, x) ==
  IF x.delivered
  THEN /\ pointer' = [a \in Axes |-> Greater(0, Lesser(Screen[a] - 1, pointer[a] + motion[a]))]
       /\ hostButtons' = B
  ELSE UNCHANGED host

RelativeExchanges == Exchanges("relative" \in Faults)

(* The command of M_InternalMoveTo3(): coordinates on the scale of the     *)
(* device, a quarter of a pixel beyond the pixel's edge.                   *)
Quarter(width) == (ScaleMax \div width) \div 4
Scale(n, size, width) == (ScaleMax * n) \div size + Quarter(width)
AbsoluteCommand(p, size) ==
  LET cx == Lesser(ScaleMax, Scale(p.x, size.x, size.x))
      cy == Scale(p.y, size.y, size.x)
  IN  [x |-> cx, y |-> IF cx = 0 /\ cy = 0 THEN Quarter(size.x) ELSE Lesser(ScaleMax, cy)]

(* The controlled machine maps 0..ScaleMax evenly to its pixels, and may   *)
(* be off by AbsoluteError on either axis.                                 *)
PixelAt(c, size) == (c * size) \div (ScaleMax + 1)
Near(m, n) == Abs(m - n) <= AbsoluteError
Reached(c) == {q \in Positions : \A a \in Axes : Near(q[a], PixelAt(c[a], Screen[a]))}

(* M_InternalMoveTo3() records the position only when the device confirms. *)
SendAbsolute(p, x) ==
  /\ pointer' \in IF x.delivered THEN Reached(AbsoluteCommand(p, resolution)) ELSE {pointer}
  /\ known' = (known \/ x.ok)
  /\ UNCHANGED <<buttons, shift, wheel, resolution, hostButtons>>

AbsoluteExchanges == Exchanges("absolute" \in Faults)

(* Motion and notches are cleared at the end of a call.                    *)
ClearMotion == shift' = Zero /\ wheel' = 0

(* A relative move that fails forgets the position.                        *)
KeepPosition == known' = known
LosePosition == known' = FALSE

Return(r) == call' = NoCall /\ result' = r
Answer(x) == IF x.ok THEN "ok" ELSE "failed"
Continue(c) == call' = c /\ result' = "running"

-----------------------------------------------------------------------------
(* Buttons and the wheel.                                                  *)
SetButtons(B, x) ==
  /\ buttons' = B /\ ClearMotion
  /\ SendReport(Zero, B, x)
  /\ UNCHANGED <<known, pos, resolution>>

(* M_LeftDown(), M_LeftUp() and those of the other buttons, and            *)
(* M_ReleaseAllMouse().                                                    *)
ChangeButtons ==
  /\ MouseIdle
  /\ \E B \in {buttons \union {b} : b \in Buttons} \union {buttons \ {b} : b \in Buttons} \union {{}},
        x \in RelativeExchanges :
       SetButtons(B, x) /\ Return(Answer(x))

(* M_LeftClick() and its like; a double click is a click twice as often.   *)
Click ==
  /\ MouseIdle
  /\ \E b \in Buttons, n \in 1..MaxCount :
       Continue([op |-> "press", button |-> b, left |-> 2 * n])
  /\ UNCHANGED <<handle, host>>

ClickStep ==
  /\ call.op = "press"
  /\ \E x \in RelativeExchanges :
       /\ SetButtons(IF call.left % 2 = 0 THEN buttons \union {call.button}
                                          ELSE buttons \ {call.button}, x)
       /\ IF x.ok /\ call.left > 1 THEN Continue([call EXCEPT !.left = @ - 1])
                                   ELSE Return(Answer(x))

(* M_MouseWheel() sends the report as it finds it, but for the wheel.      *)
MouseWheel ==
  /\ MouseIdle
  /\ wheel' \in {1, -1}
  /\ \E n \in 1..MaxCount : Continue([op |-> "wheel", left |-> n])
  /\ UNCHANGED <<buttons, shift, known, pos, resolution, host>>

WheelStep ==
  /\ call.op = "wheel"
  /\ \E x \in RelativeExchanges :
       /\ SendReport(shift, buttons, x)
       /\ IF x.ok /\ call.left > 1
          THEN Continue([call EXCEPT !.left = @ - 1]) /\ UNCHANGED <<shift, wheel>>
          ELSE Return(Answer(x)) /\ ClearMotion
  /\ UNCHANGED <<buttons, known, pos, resolution>>

-----------------------------------------------------------------------------
(* Relative moves: M_InternalMoveR() and its callers.                      *)

(* M_InternalMoveR() counts a move as made before it makes it.             *)
StartMove(op, distance, target, failure) ==
  /\ pos' = IF known' THEN [a \in Axes |-> Greater(0, pos[a] + distance[a])] ELSE pos
  /\ Continue([op |-> op, rest |-> distance, target |-> target, failure |-> failure])
  /\ UNCHANGED <<buttons, shift, wheel, resolution, host>>

MoveR ==
  /\ MouseIdle
  /\ known' = known
  /\ \E d \in Distances :
       /\ known => \A a \in Axes : pos[a] + d[a] < Screen[a]
       /\ StartMove("moveR", d, Zero, "failed")

HomeNearby == [a \in Axes |-> -(HomeDistance \div 4)]
Home == [a \in Axes |-> -HomeDistance]

(* Without a recorded position M_MoveTo() goes to the origin first.        *)
MoveTo ==
  /\ MouseIdle
  /\ known' = known
  /\ \E t \in Positions :
       IF known
       THEN StartMove("moveTo", [a \in Axes |-> t[a] - pos[a]], t, "failed")
       ELSE StartMove("home", Home, t, "failed")

(* M_ResetMousePos() does not look at what M_MoveTo() returns.             *)
ResetMousePos ==
  /\ MouseIdle
  /\ known' = FALSE
  /\ StartMove("home", Home, Zero, "ok")

(* One turn of the loop: as much as is left on each axis, at most a random *)
(* distance.                                                               *)
PartSigned(rest, most) == IF most > rest THEN rest ELSE Toward(most, rest)
PartWhole(rest, most) == Toward(most, rest)
Part(rest, most) == IF most > Abs(rest) THEN rest ELSE Toward(most, rest)

MoveStep ==
  /\ call.op \in Relative /\ call.rest # Zero
  /\ \E most \in [Axes -> MinStep..MaxStep], x \in RelativeExchanges :
       LET part == [a \in Axes |-> Part(call.rest[a], most[a])]
       IN  /\ SendReport(part, buttons, x)
           /\ IF x.ok
              THEN /\ shift' = part /\ UNCHANGED <<wheel, known>>
                   /\ Continue([call EXCEPT !.rest =
                                  [a \in Axes |-> @[a] - SignedChar(part[a])]])
              ELSE /\ ClearMotion /\ LosePosition
                   /\ Return(call.failure)
  /\ UNCHANGED <<buttons, pos, resolution>>

(* The loop ends: at the origin M_MoveTo() sets out for its target, and    *)
(* there it records the position.                                          *)
MoveEnds ==
  /\ call.op \in Relative /\ call.rest = Zero
  /\ ClearMotion
  /\ IF call.op = "home"
     THEN Continue([call EXCEPT !.op = "moveTo", !.rest = call.target])
     ELSE Return("ok")
  /\ IF call.op = "moveTo"
     THEN known' = TRUE /\ pos' = call.target
     ELSE UNCHANGED <<known, pos>>
  /\ UNCHANGED <<buttons, resolution, host>>

-----------------------------------------------------------------------------
(* Absolute moves: M_ResolutionUsed() and M_MoveTo3().                     *)
ResolutionUsed ==
  /\ MouseIdle
  /\ resolution' = Screen
  /\ result' = "ok"
  /\ UNCHANGED <<buttons, shift, wheel, known, pos, call, host>>

(* M_MoveTo3() goes straight to its target when it knows of no position or *)
(* is there already, else along the axis with the longer way.              *)
MoveTo3 ==
  /\ MouseIdle
  /\ resolution # Zero
  /\ \E t \in Positions :
       IF ~known \/ t = pos
       THEN Continue([op |-> "jump", target |-> t])
       ELSE LET d == [a \in Axes |-> t[a] - pos[a]]
            IN  Continue([op |-> "curve", rest |-> d, target |-> t,
                          main |-> IF Abs(d["x"]) >= Abs(d["y"]) THEN "x" ELSE "y"])
  /\ UNCHANGED <<handle, host>>

Jump ==
  /\ call.op = "jump"
  /\ \E x \in AbsoluteExchanges :
       /\ SendAbsolute(call.target, x)
       /\ pos' = IF x.ok THEN call.target ELSE pos
       /\ Return(Answer(x))

(* How far the next point may be along the longer axis.                    *)
Lengths(rest) ==
  IF Abs(rest) \in (MinStep + 1)..(2 * MinStep - 1)
  THEN (Abs(rest) \div 2)..(Abs(rest) \div 2 + MinStep \div 2 - 1)
  ELSE MinStep..MaxStep

(* The next point of the curve.  Within reach it is the target; otherwise  *)
(* it is a step along the longer axis, and any way to the side that a      *)
(* curve can take, but not beyond the left and upper edges.  (A step along *)
(* the longer axis ends before the target, so it never meets an edge and   *)
(* the loop's test for one does not apply.)                                *)
CurvePoints ==
  LET m == call.main
      lengths == Lengths(call.rest[m])
      straight == IF \E n \in lengths : n >= Abs(call.rest[m])
                  THEN {[to |-> call.target, by |-> call.rest]} ELSE {}
      bent == {[a \in Axes |-> Greater(-pos[a],
                   IF a = m THEN Toward(Lesser(n, MaxStep), call.rest[m]) ELSE side)] :
                 n \in {i \in lengths : i < Abs(call.rest[m])},
                 side \in -MaxStep..MaxStep}
  IN  straight \union {[to |-> [a \in Axes |-> pos[a] + by[a]], by |-> by] : by \in bent}

(* The position is recorded before the exchange, and stays so when it      *)
(* fails.                                                                  *)
CurveStep ==
  /\ call.op = "curve" /\ call.rest[call.main] # 0
  /\ \E next \in CurvePoints, x \in AbsoluteExchanges :
       /\ pos' = next.to
       /\ SendAbsolute(next.to, x)
       /\ IF x.ok
          THEN Continue([call EXCEPT !.rest =
                           [a \in Axes |-> @[a] - SignedChar(next.by[a])]])
          ELSE Return("failed")

(* What is left on the shorter axis takes one more command.                *)
CurveEnds ==
  /\ call.op = "curve" /\ call.rest[call.main] = 0
  /\ IF call.rest = Zero
     THEN Return("ok")
     ELSE Continue([op |-> "jump", target |-> call.target])
  /\ UNCHANGED <<handle, host>>

-----------------------------------------------------------------------------
(* M_Open(): the handle is cleared.                                        *)
OpenMouse ==
  /\ MouseIdle
  /\ buttons' = {} /\ shift' = Zero /\ wheel' = 0
  /\ known' = FALSE /\ pos' = Zero /\ resolution' = Zero
  /\ result' = "ok"
  /\ UNCHANGED <<call, host>>

Loop == ClickStep \/ WheelStep \/ MoveStep \/ MoveEnds \/ Jump \/ CurveStep \/ CurveEnds

MouseCall ==
  \/ ChangeButtons \/ Click \/ MouseWheel
  \/ MoveR \/ MoveTo \/ ResetMousePos
  \/ ResolutionUsed \/ MoveTo3
  \/ Loop

MouseNext == MouseCall \/ OpenMouse

MouseSpec == MouseInit /\ [][MouseNext]_mouseVars /\ WF_mouseVars(Loop)

-----------------------------------------------------------------------------
(* msdk.h of CurrMouseOp[]: the motion is cleared after a move.  The wheel *)
(* and the moves send the other's bytes as they find them, so no motion    *)
(* and no notch may be left over from another call, not even a failed one. *)
MotionCleared ==
  /\ call.op \notin Relative => shift = Zero
  /\ call.op # "wheel" => wheel = 0

(* M_GetCurrMousePos() never drifts: between calls, a recorded position is *)
(* no further from the pointer than one absolute move may miss, however    *)
(* many moves of either kind were made and however relative ones failed;   *)
(* and nothing is left over that would move the pointer with the next      *)
(* report.  msdk.c updates the record before the move, forgets it when a   *)
(* relative move fails, and mixes relative and absolute moves on it.  It   *)
(* does not hold with "absolute" in Faults: M_MoveTo3() records each point *)
(* before it is sent, and does not forget it on an error.                  *)
PositionTracked ==
  /\ MouseIdle /\ known => \A a \in Axes : Near(pos[a], pointer[a])
  /\ MotionCleared

(* A move to a position that reports success has taken the pointer there,  *)
(* but for the same error, with relative moves that failed before; with    *)
(* "absolute" in Faults M_MoveTo() sets out from a position that is wrong. *)
MoveArrives ==
  [][call.op \in {"moveTo", "jump", "curve"} /\ call'.op = "idle" /\ result' = "ok"
       => \A a \in Axes : Near(call.target[a], pointer'[a])]_mouseVars
=============================================================================
