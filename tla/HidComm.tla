------------------------------ MODULE HidComm ------------------------------
(***************************************************************************)
(* One exchange with the keyboard/mouse emulator (msdk/hidcomm.c): a       *)
(* command is sent as a feature report, then the answer is read, again for *)
(* as long as the device says that it is busy.                             *)
(***************************************************************************)

(* How HID_Ctrl_Comm() can end: the answer is read and says 0x0001; or the *)
(* caller is told of an error, because the command could not be sent, or   *)
(* because it was sent and the answer was not read or says something else. *)
(* Busy answers are taken to end at last: the loop has no bound of its own.*)
Exchanges(mayFail) ==
  [delivered : {TRUE}, ok : {TRUE}]
    \union (IF mayFail THEN [delivered : BOOLEAN, ok : {FALSE}] ELSE {})
=============================================================================
