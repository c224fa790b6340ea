---------------------------- MODULE StatusStream ----------------------------
(***************************************************************************)
(* What i3sd promises the bar about its standard output, with no bytes, no *)
(* pipe and no event loop: every status the bar is shown is a whole frame, *)
(* it was rendered from a status i3sd really had, frames are shown in the  *)
(* order they were rendered, one at a time, and no frame repeats the one   *)
(* before it.                                                              *)
(***************************************************************************)
CONSTANTS
  Frames,   (* what a status line can look like once it is rendered         *)
  NoFrame   (* nothing rendered, or nothing shown yet                       *)

VARIABLES
  status,   (* the frame the current state of the blocks renders to         *)
  captured, (* the frame rendered and not yet shown in full, or NoFrame     *)
  shown     (* the last frame the bar received in full, or NoFrame          *)

vars == <<status, captured, shown>>

Init ==
  /\ status \in Frames
  /\ captured = NoFrame
  /\ shown = NoFrame

Change(f) ==
  /\ status' = f
  /\ UNCHANGED <<captured, shown>>

Capture ==
  /\ captured = NoFrame
  /\ status # shown
  /\ captured' = status
  /\ UNCHANGED <<status, shown>>

Deliver ==
  /\ captured # NoFrame
  /\ shown' = captured
  /\ captured' = NoFrame
  /\ UNCHANGED status

Next ==
  \/ \E f \in Frames : Change(f)
  \/ Capture
  \/ Deliver

Spec == Init /\ [][Next]_vars
=============================================================================
