------------------------------ MODULE MCReload ------------------------------
(* Two edits on top of the file the program starts with: enough for a read *)
(* torn between two of them and a third version to validate against.       *)
EXTENDS Reload
=============================================================================
