------------------------------- MODULE Output -------------------------------
(***************************************************************************)
(* The way from a changed block to the bar: src/src/output.c (frame        *)
(* buffers and partial writes), src/src/render_limiter.c (the frame        *)
(* budget) and the part of the event loop of src/src/main.c that renders,  *)
(* flushes and decides what epoll_wait waits for.                          *)
(*                                                                         *)
(* One turn of run_event_loop is: wait in epoll_wait, handle the harvested *)
(* events (any of them may change the status, one of them may be writable  *)
(* stdout), read the clock, run the sources' deadlines, timers and a       *)
(* reload, render if it was time then, flush if something is pending.      *)
(*                                                                         *)
(* A frame is an opaque value of FrameBytes[f] bytes.  The bar's end of    *)
(* the pipe is modelled by the position its JSON reader has reached in the *)
(* bytes written so far: order is all that matters, so bytes are handed to *)
(* it when they are written and the pipe only counts how many the bar has  *)
(* not drained.                                                            *)
(***************************************************************************)
EXTENDS Integers

CONSTANTS
  Frames,       (* the frames render_status can assemble                    *)
  NoFrame,      (* an empty frame buffer                                    *)
  FrameBytes,   (* length of each frame                                     *)
  Oversized,    (* the frames longer than I3SD_FRAME_MAX_BYTES              *)
  PreludeBytes, (* length of the i3bar header that precedes the frames      *)
  PipeBytes,    (* what the pipe holds before a write reports EAGAIN        *)
  Budget,       (* I3SD_OUTPUT_BUDGET, bytes per flush                      *)
  Refill,       (* RENDER_REFILL_NS, in clock ticks                         *)
  Burst,        (* RENDER_BURST                                             *)
  Window        (* longest interval, in ticks, `recent` looks back over     *)

ASSUME OutputAssumption ==
  /\ NoFrame \notin Frames
  /\ FrameBytes \in [Frames -> Nat \ {0}]
  /\ Oversized \subseteq Frames
  /\ PreludeBytes \in Nat \ {0}
  /\ PipeBytes \in Nat \ {0}
  /\ Budget \in Nat \ {0}
  /\ Refill \in Nat \ {0}
  /\ Burst \in Nat \ {0}
  /\ Window \in Nat

VARIABLES
  pc,                (* where the turn of the event loop is                 *)
  running,           (* app.running                                         *)
  status,            (* the frame the blocks' items amount to right now     *)
  render_dirty,      (* app.render_dirty                                    *)
  debt,              (* render_limiter.virtual_time_ns, at least 0, as seen  *)
                     (* from now, or from now_ns while that is in use       *)
  late,              (* ticks since now_ns was read, while it is in use     *)
  output,            (* struct i3sd_output                                  *)
  prelude_offset,    (* app.prelude_offset                                  *)
  stdout_registered, (* app.stdout_registered                               *)
  stdout_ready,      (* the harvested events include SOURCE_STDOUT          *)
  pipe,              (* bytes written that the bar has not read             *)
  closed,            (* the bar has closed its end                          *)
  bar,               (* where the bar's JSON reader is (external)           *)
  recent             (* history: recent[a] = renders in the last a ticks    *)

vars == <<pc, running, status, render_dirty, debt, late, output,
          prelude_offset, stdout_registered, stdout_ready, pipe, closed, bar,
          recent>>

loop == <<pc, running>>
limiter == <<debt, late>>
sink == <<output, prelude_offset, stdout_registered, pipe, bar>>

Min2(a, b) == IF a < b THEN a ELSE b

-----------------------------------------------------------------------------
(* The bar's end of the pipe.                                              *)

(* The reader expects the prelude, then a list of frames with one          *)
(* separator between two; anything else leaves it "torn" for good.         *)
BarStart == [at |-> "prelude", got |-> 0, frame |-> NoFrame, shown |-> NoFrame]

BarPrelude(b, n) ==
  IF n = 0 THEN b
  ELSE IF b.at # "prelude" THEN [b EXCEPT !.at = "torn"]
  ELSE IF b.got + n < PreludeBytes THEN [b EXCEPT !.got = @ + n]
  ELSE [b EXCEPT !.at = "element", !.got = 0]

BarSeparator(b) == [b EXCEPT !.at = IF @ = "between" THEN "element" ELSE "torn"]

(* Bytes from .. to - 1 of frame f arrive.                                 *)
BarFrame(b, f, from, to) ==
  IF from = to THEN b
  ELSE IF ~ (\/ b.at = "element" /\ from = 0
             \/ b.at = "frame" /\ b.frame = f /\ b.got = from)
    THEN [b EXCEPT !.at = "torn"]
  ELSE IF to < FrameBytes[f]
    THEN [b EXCEPT !.at = "frame", !.frame = f, !.got = to]
  ELSE [at |-> "between", got |-> 0, frame |-> NoFrame, shown |-> f]

-----------------------------------------------------------------------------
(* struct i3sd_output.                                                     *)

OutputInit ==
  [last_completed |-> NoFrame, current |-> NoFrame, offset |-> 0,
   first_frame |-> TRUE, prefix_written |-> FALSE, render_dirty |-> FALSE]

(* current.len                                                             *)
FrameLen(f) == IF f = NoFrame THEN 0 ELSE FrameBytes[f]

HasPending(o) == o.offset < FrameLen(o.current)

(* Faulty variant: the frame is queued without comparing it with the last. *)
SetFrameUnconditionally(o, f) ==
  [o EXCEPT !.current = f, !.render_dirty = FALSE]

SetFrame(o, f) ==
  IF o.offset # 0 \/ o.prefix_written
  THEN [o EXCEPT !.render_dirty = TRUE]
  ELSE [o EXCEPT !.current = IF f = o.last_completed THEN NoFrame ELSE f,
                 !.render_dirty = FALSE]

(* The swap of the two buffers once the last byte is written.              *)
Completed(o) ==
  IF o.current # NoFrame /\ o.offset = FrameLen(o.current)
  THEN [o EXCEPT !.last_completed = o.current, !.current = NoFrame,
                 !.offset = 0, !.first_frame = FALSE, !.prefix_written = FALSE]
  ELSE o

(* Faulty variant: a flush resumed after the separator writes it again.     *)
NeedsPrefixAgain(o) == ~ o.first_frame /\ o.current # NoFrame

NeedsPrefix(o) == ~ o.first_frame /\ ~ o.prefix_written /\ o.current # NoFrame

(* Payload bytes one flush writes into `room` bytes of pipe.               *)
Payload(o, room) ==
  LET sep == IF NeedsPrefix(o) THEN 1 ELSE 0
  IN  IF room < sep THEN 0
      ELSE Min2(FrameLen(o.current) - o.offset,
                Min2(Budget - sep, room - sep))

Flushed(o, room) ==
  Completed([o EXCEPT !.prefix_written = @ \/ (NeedsPrefix(o) /\ room > 0),
                      !.offset = @ + Payload(o, room)])

-----------------------------------------------------------------------------
(* render_limiter.c.  The loop reads the clock once, after the events, and *)
(* both asks and charges the limiter with that now_ns, however long the     *)
(* timers and the reload in between have taken.                            *)

(* Faulty variant: one credit of debt too many.                            *)
RenderDueLate == debt <= Burst * Refill

(* now_ns >= i3sd_render_limiter_deadline                                  *)
RenderDue == debt <= (Burst - 1) * Refill

(* A debt d at now_ns, seen from now; no later reading of the clock is     *)
(* earlier than that.                                                      *)
Lapsed(d) == IF d > late THEN d - late ELSE 0

RecordRender ==
  /\ debt' = Lapsed(debt + Refill)
  /\ late' = 0
  /\ recent' = [a \in 0..Window |-> recent[a] + 1]

RecordNothing ==
  /\ debt' = Lapsed(debt)
  /\ late' = 0
  /\ UNCHANGED recent

(* Longer than this no debt lasts.                                         *)
MaxLate == Burst * Refill

(* Faulty variant: idle time is not clamped and accumulates credit.        *)
TickUnclamped ==
  /\ IF pc = "render"
       THEN late' = Min2(late + 1, MaxLate) /\ UNCHANGED debt
       ELSE debt' = debt - 1 /\ UNCHANGED late
  /\ recent' = [a \in 0..Window |-> IF a = 0 THEN 0 ELSE recent[a - 1]]
  /\ UNCHANGED <<loop, status, render_dirty, sink, stdout_ready, closed>>

(* Time passes; the virtual time is never behind now_ns.                   *)
Tick ==
  /\ IF pc = "render"
       THEN late' = Min2(late + 1, MaxLate) /\ UNCHANGED debt
       ELSE debt' = (IF debt = 0 THEN 0 ELSE debt - 1) /\ UNCHANGED late
  /\ recent' = [a \in 0..Window |-> IF a = 0 THEN 0 ELSE recent[a - 1]]
  /\ UNCHANGED <<loop, status, render_dirty, sink, stdout_ready, closed>>

-----------------------------------------------------------------------------
(* flush_output.                                                           *)

PreludePending == prelude_offset < PreludeBytes

Room == PipeBytes - pipe

(* Writing to a pipe the bar closed fails with EPIPE and ends the program. *)
FlushClosed ==
  /\ closed
  /\ PreludePending \/ HasPending(output)
  /\ running' = FALSE
  /\ UNCHANGED sink

(* Faulty variant: a frame none of whose bytes is out yet is not watched.  *)
WatchStdoutPartial(o) == o.offset # 0

(* The argument of the closing epoll_stdout call.                          *)
WatchStdout(o) == HasPending(o)

(* The pipe is full before the prelude is through.                         *)
FlushPrelude ==
  /\ ~ closed
  /\ PreludePending
  /\ prelude_offset + Room < PreludeBytes
  /\ prelude_offset' = prelude_offset + Room
  /\ pipe' = pipe + Room
  /\ bar' = BarPrelude(bar, Room)
  /\ stdout_registered' = TRUE
  /\ UNCHANGED <<running, output>>

(* The prelude is through: i3sd_output_flush writes the separator and as   *)
(* much of the frame as the pipe and the budget take.                      *)
FlushFrame ==
  LET head == PreludeBytes - prelude_offset
      room == Room - head
      sep  == NeedsPrefix(output) /\ room > 0
      n    == Payload(output, room)
      b1   == BarPrelude(bar, head)
      b2   == IF sep THEN BarSeparator(b1) ELSE b1
  IN  /\ closed => ~ PreludePending /\ ~ HasPending(output)
      /\ room >= 0
      /\ prelude_offset' = PreludeBytes
      /\ output' = Flushed(output, room)
      /\ pipe' = pipe + head + (IF sep THEN 1 ELSE 0) + n
      /\ bar' = IF n = 0 THEN b2
                ELSE BarFrame(b2, output.current, output.offset,
                              output.offset + n)
      /\ stdout_registered' = WatchStdout(output')
      /\ UNCHANGED running

FlushOutput == FlushClosed \/ FlushPrelude \/ FlushFrame

-----------------------------------------------------------------------------
(* The event loop.                                                         *)

Init ==
  /\ pc = "wait"
  /\ running = TRUE
  /\ status \in Frames
  /\ render_dirty = TRUE
  /\ debt = 0
  /\ late = 0
  /\ output = OutputInit
  /\ prelude_offset = 0
  /\ stdout_registered = TRUE
  /\ stdout_ready = FALSE
  /\ pipe = 0
  /\ closed = FALSE
  /\ bar = BarStart
  /\ recent = [a \in 0..Window |-> 0]

Writable == closed \/ Room > 0

(* epoll_wait harvests SOURCE_STDOUT whenever it is registered and ready.  *)
Harvest ==
  /\ pc = "wait"
  /\ pc' = "events"
  /\ stdout_ready' = (stdout_registered /\ Writable)
  /\ UNCHANGED <<running, status, render_dirty, limiter, sink, closed, recent>>

(* Faulty variant: the deadline is armed only while output is pending.     *)
RenderTimeoutPending == render_dirty /\ HasPending(output) /\ RenderDue

(* The render deadline epoll_timeout_ms contributes has passed.            *)
RenderTimeout == render_dirty /\ ~ HasPending(output) /\ RenderDue

(* What ends epoll_wait: stdout is ready, or it is time to render.         *)
WakeForOutput ==
  /\ (stdout_registered /\ Writable) \/ RenderTimeout
  /\ Harvest

(* Any other source, or any other deadline, ends it as well.               *)
WakeForSource == Harvest

(* A handler, or after the clock was read a deadline, a timer callback or a *)
(* reload, changed what the bar should show; it may also mark the status    *)
(* dirty without changing it.                                              *)
SourceEvent(f) ==
  /\ pc \in {"events", "render"}
  /\ status' = f
  /\ render_dirty' = TRUE
  /\ UNCHANGED <<loop, limiter, sink, stdout_ready, closed, recent>>

StdoutEvent ==
  /\ pc = "events"
  /\ stdout_ready
  /\ stdout_ready' = FALSE
  /\ FlushOutput
  /\ UNCHANGED <<pc, status, render_dirty, limiter, closed, recent>>

(* now_ns = monotonic_now_ns()                                              *)
EventsDone ==
  /\ pc = "events"
  /\ ~ stdout_ready
  /\ pc' = "render"
  /\ UNCHANGED <<running, status, render_dirty, limiter, sink, stdout_ready,
                 closed, recent>>

(* Faulty variant: a render may meet a frame that is still being written.  *)
MayRenderAlways == render_dirty /\ RenderDue

MayRender == render_dirty /\ ~ HasPending(output) /\ RenderDue

(* render_status, then i3sd_render_limiter_record.                         *)
Render ==
  /\ pc = "render"
  /\ MayRender
  /\ status \notin Oversized
  /\ output' = SetFrame(output, status)
  /\ render_dirty' = FALSE
  /\ RecordRender
  /\ pc' = "flush"
  /\ UNCHANGED <<running, status, prelude_offset, stdout_registered,
                 stdout_ready, pipe, closed, bar>>

(* A frame over the limit is a fatal render failure: the loop breaks.      *)
RenderFails ==
  /\ pc = "render"
  /\ MayRender
  /\ status \in Oversized
  /\ running' = FALSE
  /\ pc' = "stopped"
  /\ RecordNothing
  /\ UNCHANGED <<status, render_dirty, sink, stdout_ready, closed>>

SkipRender ==
  /\ pc = "render"
  /\ ~ MayRender
  /\ pc' = "flush"
  /\ RecordNothing
  /\ UNCHANGED <<running, status, render_dirty, sink, stdout_ready, closed>>

EndTurn == pc' = IF running' THEN "wait" ELSE "stopped"

FlushPending ==
  /\ pc = "flush"
  /\ PreludePending \/ HasPending(output)
  /\ FlushOutput
  /\ EndTurn
  /\ UNCHANGED <<status, render_dirty, limiter, stdout_ready, closed, recent>>

NothingToFlush ==
  /\ pc = "flush"
  /\ ~ PreludePending
  /\ ~ HasPending(output)
  /\ UNCHANGED <<running, status, render_dirty, limiter, sink, stdout_ready,
                 closed, recent>>
  /\ EndTurn

-----------------------------------------------------------------------------
(* The environment: the bar reads, or goes away.                           *)

Drain ==
  /\ pipe > 0
  /\ ~ closed
  /\ pipe' = pipe - 1
  /\ UNCHANGED <<loop, status, render_dirty, limiter, output, prelude_offset,
                 stdout_registered, stdout_ready, closed, bar, recent>>

Close ==
  /\ ~ closed
  /\ closed' = TRUE
  /\ UNCHANGED <<loop, status, render_dirty, limiter, sink, stdout_ready, recent>>

Turn ==
  \/ WakeForOutput
  \/ StdoutEvent
  \/ EventsDone
  \/ Render
  \/ RenderFails
  \/ SkipRender
  \/ FlushPending
  \/ NothingToFlush

Next ==
  \/ Turn
  \/ WakeForSource
  \/ \E f \in Frames : SourceEvent(f)
  \/ Tick
  \/ Drain
  \/ Close

Spec == Init /\ [][Next]_vars

(* The loop is never left waiting for something that is ready, time        *)
(* passes, and the bar keeps reading.  Nothing is assumed of the sources.  *)
Fairness == WF_vars(Turn) /\ WF_vars(Tick) /\ WF_vars(Drain)

FairSpec == Spec /\ Fairness

-----------------------------------------------------------------------------
(* Properties.                                                             *)

TypeOK ==
  /\ pc \in {"wait", "events", "render", "flush", "stopped"}
  /\ running \in BOOLEAN
  /\ status \in Frames
  /\ render_dirty \in BOOLEAN
  /\ debt \in Nat
  /\ late \in 0..MaxLate
  /\ output \in [last_completed : Frames \cup {NoFrame},
                 current : Frames \cup {NoFrame},
                 offset : Nat,
                 first_frame : BOOLEAN,
                 prefix_written : BOOLEAN,
                 render_dirty : BOOLEAN]
  /\ prelude_offset \in 0..PreludeBytes
  /\ stdout_registered \in BOOLEAN
  /\ stdout_ready \in BOOLEAN
  /\ pipe \in 0..PipeBytes
  /\ closed \in BOOLEAN
  /\ bar \in [at : {"prelude", "element", "frame", "between", "torn"},
              got : Nat,
              frame : Frames \cup {NoFrame},
              shown : Frames \cup {NoFrame}]
  /\ recent \in [0..Window -> Nat]

(* Whatever the pipe accepts and however a flush is cut short, the bytes   *)
(* the bar reads are the header, then whole frames, with one separator     *)
(* between two: a frame is never replaced once a byte of it, or the        *)
(* separator in front of it, is out (output.c, PLAN.rst OUT-001).          *)
StreamWellFormed == bar.at # "torn"

(* What the bar will have been shown once the pending frame is through.    *)
Latest ==
  IF output.current = NoFrame THEN output.last_completed ELSE output.current

(* A change is never forgotten: unless a render is still due, the pending  *)
(* or the last completed frame is the status as it is now.  set_frame may  *)
(* not drop a frame while render_status clears app.render_dirty.           *)
NoLostUpdate == render_dirty \/ Latest = status

(* The loop blocks with EPOLLOUT watched exactly while bytes wait to be    *)
(* written: otherwise a frame would sit in its buffer until some other     *)
(* source wakes the loop, or an idle loop would spin on a writable stdout. *)
WatchedIffPending ==
  pc = "wait" =>
    (stdout_registered <=> (PreludePending \/ HasPending(output)))

(* render_limiter.c: in any interval of a ticks at most one frame more than *)
(* a burst, and another for every Refill ticks, are rendered.  The one more *)
(* is a frame rendered so long after now_ns was read that its charge has    *)
(* lapsed (main.c:3401, 3434); PLAN.rst:1871 allows for no such frame.  It  *)
(* does not add up: the next now_ns is read after that frame.              *)
RateBound == \A a \in 0..Window : recent[a] * Refill <= (Burst + 1) * Refill + a

(* The bar is shown whole frames, in the order they were rendered, each a  *)
(* status i3sd had, and never the same twice in a row.                     *)
Stream == INSTANCE StatusStream WITH captured <- output.current,
                                     shown <- bar.shown
StreamSpec == Stream!Spec

(* If the bar keeps reading, a status that stays is eventually shown: dirty *)
(* flags, limiter deadlines, EPOLLOUT and the suppression of repeated      *)
(* frames never leave the bar on an old one.                               *)
StatusShown ==
  \A f \in Frames :
    status = f ~> (bar.shown = f \/ status # f \/ closed \/ ~ running)
=============================================================================
