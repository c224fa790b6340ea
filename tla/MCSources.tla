----------------------------- MODULE MCSources -----------------------------
(* Two blocks with a subscription each, one about the system manager and   *)
(* one about both.                                                         *)
EXTENDS Sources, TLC

CONSTANTS s1, s2, b1, b2, system, user

TwoOwners == (s1 :> b1) @@ (s2 :> b2)
OneAndBoth == (s1 :> {system}) @@ (s2 :> {system, user})

Symmetry ==
  Permutations(Ids) \cup Permutations(Names) \cup Permutations(Data)
=============================================================================
