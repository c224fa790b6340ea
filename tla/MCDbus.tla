------------------------------- MODULE MCDbus -------------------------------
(* Two calls, one of a block of its own; a match with an install callback   *)
(* and a watch of the same block as the other call.                         *)
EXTENDS Dbus, TLC

CONSTANTS c1, c2, m1, w1, b1, b2

MCOwner == (c1 :> b1) @@ (c2 :> b2) @@ (m1 :> b1) @@ (w1 :> b1)
==============================================================================
