-------------------------- MODULE MCDirectoryFeed --------------------------
(* Two names for one item: a file that does not fit, one that evicts it,   *)
(* and two contents to tell a stale item.                                  *)
EXTENDS DirectoryFeed, TLC

Symmetry == Permutations(Values) \cup Permutations(Gens)
=============================================================================
