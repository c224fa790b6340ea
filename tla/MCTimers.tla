------------------------------ MODULE MCTimers ------------------------------
(* Two blocks, the first of them polled, and memory for three timers, two   *)
(* handles and two generations: every release is followed by a reuse, and   *)
(* a reload replaces a generation that still has timers.  The other cfg     *)
(* has two timers, one block and one handle.                                *)
EXTENDS Timers, TLC

CONSTANTS t1, t2, t3, b1, b2, h1, h2, g1, g2

MCPoll == [b \in Blocks |-> IF b = b1 THEN 2 ELSE 0]

(* Nothing tells timers, handles or generations apart.                      *)
Sym == Permutations(Timers) \cup Permutations(Handles) \cup Permutations(Gens)
=============================================================================
