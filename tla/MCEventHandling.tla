-------------------------- MODULE MCEventHandling --------------------------
(* Finite instances of EventHandling for the safety runs.                   *)
EXTENDS EventHandling, TLC

CONSTANTS t1, t2, t3, free

(* Threads whose devices stay plugged are interchangeable.                  *)
ThreadSymmetry == Permutations(Threads \ MayUnplug)
=============================================================================
