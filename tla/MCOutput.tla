------------------------------ MODULE MCOutput ------------------------------
(* Two frames of two and three bytes and one over the limit, a pipe smaller *)
(* than the header and a frame, a flush budget smaller than a frame, and a *)
(* limiter of two frames refilled every two ticks.                         *)
EXTENDS Output, TLC

CONSTANTS f1, f2, big

MCFrames == {f1, f2, big}
MCOversized == {big}
MCFrameBytes == (f1 :> 2) @@ (f2 :> 3) @@ (big :> 9)
=============================================================================
