------------------------------ MODULE MCSpawn ------------------------------
(* Two slots and two process ids for two calls: an id, and a slot, is used *)
(* again while events and processes of its last use are still around.      *)
EXTENDS Spawn, TLC

(* One chunk each, or an output over the limit and one within it.          *)
OneEach == <<1, 1>>
TwoAndOne == <<2, 1>>

Symmetry == Permutations(Blocks) \cup Permutations(Pids)
=============================================================================
