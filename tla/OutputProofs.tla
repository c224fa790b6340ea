---------------------------- MODULE OutputProofs ----------------------------
(***************************************************************************)
(* What the run of MCOutput shows for three frames and a pipe of three     *)
(* bytes holds for every set of frames, every length, pipe, budget and     *)
(* limiter.  The inductive invariant says how the frame buffer, the bar's  *)
(* reader, the EPOLLOUT registration and the limiter's debt go together.   *)
(***************************************************************************)
EXTENDS Output, TLAPS

(* An empty buffer has nothing half written; a frame in it is not through, *)
(* and differs from the one before.                                        *)
BufferInv ==
  /\ output.current = NoFrame => output.offset = 0 /\ ~ output.prefix_written
  /\ output.current # NoFrame =>
       /\ output.offset < FrameBytes[output.current]
       /\ output.current # output.last_completed
  /\ output.first_frame => ~ output.prefix_written
  /\ output.first_frame <=> output.last_completed = NoFrame
  /\ output.offset > 0 => output.first_frame \/ output.prefix_written

(* The bar's reader is exactly as far as the buffer's bookkeeping says.    *)
BarInv ==
  /\ bar.shown = output.last_completed
  /\ PreludePending =>
       /\ bar.at = "prelude"
       /\ bar.got = prelude_offset
       /\ output.offset = 0
       /\ output.first_frame
  /\ ~ PreludePending =>
       bar.at = IF output.offset > 0 THEN "frame"
                ELSE IF output.first_frame \/ output.prefix_written
                     THEN "element" ELSE "between"
  /\ bar.at = "frame" => bar.frame = output.current /\ bar.got = output.offset

(* Between turns, and until the turn's render, stdout is watched exactly   *)
(* while something is pending; after it, at least then.                    *)
WatchInv ==
  LET pending == PreludePending \/ HasPending(output)
  IN  /\ pc \in {"wait", "events", "render"} => (stdout_registered <=> pending)
      /\ pc = "flush" /\ stdout_registered => pending

(* now_ns is in use between its reading and the render, and nothing has    *)
(* been rendered since.  Its debt accounts for every render of an interval  *)
(* but one and what the interval has refilled up to now_ns, and is never    *)
(* more than a full burst.                                                 *)
DebtInv ==
  /\ pc # "render" => late = 0
  /\ debt <= Burst * Refill
  /\ \A a \in 0..Window :
       IF a < late THEN recent[a] = 0
       ELSE recent[a] * Refill <= debt + Refill + (a - late)

IInv ==
  /\ TypeOK
  /\ BufferInv
  /\ BarInv
  /\ WatchInv
  /\ NoLostUpdate
  /\ DebtInv

-----------------------------------------------------------------------------

(* has_pending says what it should of a buffer in BufferInv.               *)
LEMMA PendingIsCurrent ==
  ASSUME TypeOK, BufferInv
  PROVE  HasPending(output) <=> output.current # NoFrame
  BY OutputAssumption DEF TypeOK, BufferInv, HasPending, FrameLen

(* A flush writes no more payload than is left, and no more bytes than fit. *)
LEMMA PayloadFits ==
  ASSUME TypeOK, BufferInv, NEW room \in Nat
  PROVE  /\ Payload(output, room) \in Nat
         /\ output.offset + Payload(output, room) <= FrameLen(output.current)
         /\ NeedsPrefix(output) /\ room > 0 => 1 + Payload(output, room) <= room
         /\ Payload(output, room) <= room
         /\ NeedsPrefix(output) /\ room = 0 => Payload(output, room) = 0
<1>1. /\ FrameLen(output.current) \in Nat
      /\ output.offset \in Nat
      /\ output.offset <= FrameLen(output.current)
  BY OutputAssumption DEF TypeOK, BufferInv, FrameLen
<1>2. CASE NeedsPrefix(output)
  BY <1>1, <1>2, OutputAssumption DEF Payload, Min2
<1>3. CASE ~ NeedsPrefix(output)
  BY <1>1, <1>3, OutputAssumption DEF Payload, Min2
<1>4. QED
  BY <1>2, <1>3

(* Credit is counted in whole refills.                                     *)
LEMMA CreditArithmetic == Burst * Refill \in Nat /\ 0 * Refill = 0
  BY OutputAssumption

LEMMA InitInv == Init => IInv
<1> SUFFICES ASSUME Init PROVE IInv
  OBVIOUS
<1>1. TypeOK
  <2>1. /\ prelude_offset \in 0..PreludeBytes
        /\ pipe \in 0..PipeBytes
        /\ recent \in [0..Window -> Nat]
        /\ late \in 0..MaxLate
    BY CreditArithmetic, OutputAssumption DEF Init, MaxLate
  <2>2. output \in [last_completed : Frames \cup {NoFrame},
                   current : Frames \cup {NoFrame},
                   offset : Nat, first_frame : BOOLEAN,
                   prefix_written : BOOLEAN, render_dirty : BOOLEAN]
    BY DEF Init, OutputInit
  <2>3. bar \in [at : {"prelude", "element", "frame", "between", "torn"},
                got : Nat, frame : Frames \cup {NoFrame},
                shown : Frames \cup {NoFrame}]
    BY DEF Init, BarStart
  <2>4. QED
    BY <2>1, <2>2, <2>3 DEF Init, TypeOK
<1>2. BufferInv /\ BarInv /\ WatchInv
  BY OutputAssumption
     DEF Init, BufferInv, BarInv, WatchInv, OutputInit, BarStart, PreludePending
<1>3. NoLostUpdate
  BY DEF Init, NoLostUpdate
<1>4. DebtInv
  <2>1. Burst * Refill \in Nat
    BY OutputAssumption
  <2>2. \A a \in 0..Window : ~ a < 0 /\ 0 * Refill <= 0 + Refill + (a - 0)
    BY OutputAssumption
  <2>3. QED
    BY <2>1, <2>2, OutputAssumption DEF Init, DebtInv
<1>5. QED
  BY <1>1, <1>2, <1>3, <1>4 DEF IInv

-----------------------------------------------------------------------------
(* The part of TypeOK that a flush may change.                             *)
SinkTypeOK ==
  /\ output \in [last_completed : Frames \cup {NoFrame},
                 current : Frames \cup {NoFrame},
                 offset : Nat,
                 first_frame : BOOLEAN,
                 prefix_written : BOOLEAN,
                 render_dirty : BOOLEAN]
  /\ prelude_offset \in 0..PreludeBytes
  /\ stdout_registered \in BOOLEAN
  /\ pipe \in 0..PipeBytes
  /\ bar \in [at : {"prelude", "element", "frame", "between", "torn"},
              got : Nat,
              frame : Frames \cup {NoFrame},
              shown : Frames \cup {NoFrame}]

(* What a flush establishes, wherever in the turn it happens.              *)
Watched ==
  stdout_registered = (PreludePending \/ HasPending(output))

(* One flush of frame bytes: the buffer, the reader and the registration   *)
(* stay in step, and what will have been shown is unchanged.               *)
LEMMA FlushFrameInv ==
  ASSUME TypeOK, BufferInv, BarInv, FlushFrame
  PROVE  /\ SinkTypeOK'
         /\ BufferInv'
         /\ BarInv'
         /\ Latest' = Latest
         /\ Watched'
<1> DEFINE head == PreludeBytes - prelude_offset
           room == Room - head
           sep == NeedsPrefix(output) /\ room > 0
           n == Payload(output, room)
           b1 == BarPrelude(bar, head)
           b2 == IF sep THEN BarSeparator(b1) ELSE b1
           cur == output.current
           mid == [output EXCEPT !.prefix_written = @ \/ sep,
                                 !.offset = @ + n]
<1> USE OutputAssumption
<1>1. /\ head \in Nat
      /\ room \in Nat
      /\ Room \in Nat
      /\ pipe \in Nat
      /\ PreludePending <=> head > 0
  BY DEF TypeOK, FlushFrame, Room, PreludePending
<1>2. /\ n \in Nat
      /\ output.offset + n <= FrameLen(cur)
      /\ sep => 1 + n <= room
      /\ n <= room
      /\ NeedsPrefix(output) /\ ~ sep => n = 0
  BY <1>1, PayloadFits
<1>3. /\ prelude_offset' = PreludeBytes
      /\ output' = Completed(mid)
      /\ pipe' = pipe + head + (IF sep THEN 1 ELSE 0) + n
      /\ bar' = IF n = 0 THEN b2
                ELSE BarFrame(b2, cur, output.offset, output.offset + n)
      /\ stdout_registered' = HasPending(output')
  BY DEF FlushFrame, Flushed, WatchStdout
<1>4. /\ cur \in Frames \cup {NoFrame}
      /\ output.offset \in Nat
      /\ cur = NoFrame => FrameLen(cur) = 0
      /\ cur # NoFrame => FrameLen(cur) = FrameBytes[cur]
      /\ FrameLen(cur) \in Nat
      /\ cur # NoFrame => FrameLen(cur) > 0
  BY DEF TypeOK, FrameLen
<1> HIDE DEF head, room, sep, n, b1, b2, cur, mid
<1>5. /\ mid.current = cur
      /\ mid.last_completed = output.last_completed
      /\ mid.offset = output.offset + n
      /\ mid.first_frame = output.first_frame
      /\ mid.prefix_written = (output.prefix_written \/ sep)
      /\ mid \in [last_completed : Frames \cup {NoFrame},
                  current : Frames \cup {NoFrame}, offset : Nat,
                  first_frame : BOOLEAN, prefix_written : BOOLEAN,
                  render_dirty : BOOLEAN]
  <2>1. sep \in BOOLEAN
    BY DEF sep
  <2>2. output.offset + n \in Nat
    BY <1>2, <1>4
  <2>3. (output.prefix_written \/ sep) \in BOOLEAN
    BY <2>1 DEF TypeOK
  <2>4. QED
    BY <2>2, <2>3 DEF TypeOK, mid, cur
(* The reader after the header and the separator.                          *)
<1>6. /\ b2.shown = output.last_completed
      /\ b2.at = IF output.offset > 0 THEN "frame"
                 ELSE IF output.first_frame \/ mid.prefix_written
                      THEN "element" ELSE "between"
      /\ output.offset > 0 => b2.frame = cur /\ b2.got = output.offset
      /\ b2 \in [at : {"prelude", "element", "frame", "between", "torn"},
                 got : Nat, frame : Frames \cup {NoFrame},
                 shown : Frames \cup {NoFrame}]
  <2>1. /\ b1.shown = output.last_completed
        /\ b1.at = IF output.offset > 0 THEN "frame"
                   ELSE IF output.first_frame \/ output.prefix_written
                        THEN "element" ELSE "between"
        /\ output.offset > 0 => b1.frame = cur /\ b1.got = output.offset
        /\ b1 \in [at : {"prelude", "element", "frame", "between", "torn"},
                   got : Nat, frame : Frames \cup {NoFrame},
                   shown : Frames \cup {NoFrame}]
    <3>1. CASE head = 0
      BY <1>1, <3>1 DEF BarPrelude, BarInv, TypeOK, b1, cur
    <3>2. CASE head > 0
      <4>1. bar.at = "prelude" /\ bar.got + head = PreludeBytes
        BY <1>1, <3>2 DEF BarInv, TypeOK, head
      <4>2. b1 = [bar EXCEPT !.at = "element", !.got = 0]
        BY <1>1, <3>2, <4>1 DEF BarPrelude, b1
      <4>3. output.offset = 0 /\ output.first_frame /\ bar.shown = output.last_completed
        BY <1>1, <3>2 DEF BarInv
      <4>4. /\ b1.at = "element"
            /\ b1.shown = bar.shown
            /\ b1 \in [at : {"prelude", "element", "frame", "between", "torn"},
                       got : Nat, frame : Frames \cup {NoFrame},
                       shown : Frames \cup {NoFrame}]
        BY <4>2 DEF TypeOK
      <4>5. QED
        BY <4>3, <4>4
    <3>3. QED
      BY <1>1, <3>1, <3>2
  <2>2. CASE sep
    <3>1. /\ ~ output.first_frame
          /\ ~ output.prefix_written
          /\ output.offset = 0
      BY <2>2, <1>4 DEF NeedsPrefix, BufferInv, sep
    <3>2. b1.at = "between"
      BY <2>1, <3>1
    <3>3. b2 = [b1 EXCEPT !.at = "element"]
      BY <2>1, <2>2, <3>2 DEF BarSeparator, b2
    <3>4. QED
      BY <2>1, <2>2, <3>1, <3>3, <1>5
  <2>3. CASE ~ sep
    BY <2>1, <2>3, <1>5 DEF b2
  <2>4. QED
    BY <2>2, <2>3
<1>7. ~ PreludePending'
  BY <1>3 DEF PreludePending
<1>8. CASE n = 0
  <2>1. output' = mid /\ bar' = b2
    BY <1>3, <1>4, <1>5, <1>8 DEF Completed, BufferInv, cur
  <2>2. SinkTypeOK'
    <3>1. pipe' \in 0..PipeBytes
      BY <1>1, <1>2, <1>3 DEF room, Room, TypeOK
    <3>2. stdout_registered' \in BOOLEAN
      BY <1>3 DEF HasPending
    <3>3. QED
      BY <1>3, <1>5, <1>6, <2>1, <3>1, <3>2 DEF SinkTypeOK
  <2>3. BufferInv'
    BY <1>4, <1>5, <1>8, <2>1 DEF BufferInv, NeedsPrefix, cur, sep
  <2>4. BarInv'
    BY <1>3, <1>4, <1>5, <1>6, <1>8, <2>1 DEF BarInv, PreludePending
  <2>5. Latest' = Latest
    BY <1>5, <2>1 DEF Latest, cur
  <2>6. Watched'
    BY <1>3, <1>7 DEF Watched, HasPending
  <2>7. QED
    BY <2>2, <2>3, <2>4, <2>5, <2>6
<1>9. CASE n > 0
  <2>1. /\ cur # NoFrame
        /\ cur \in Frames
        /\ FrameLen(cur) = FrameBytes[cur]
    BY <1>2, <1>4, <1>9
  <2>2. \/ b2.at = "element" /\ output.offset = 0
        \/ b2.at = "frame" /\ b2.frame = cur /\ b2.got = output.offset
    BY <1>2, <1>4, <1>5, <1>6, <1>9, <2>1 DEF NeedsPrefix, cur, BufferInv
  <2>3. pipe' \in 0..PipeBytes
    BY <1>1, <1>2, <1>3 DEF room, Room, TypeOK
  <2>4. stdout_registered' \in BOOLEAN
    BY <1>3 DEF HasPending
  <2>5. Watched'
    BY <1>3, <1>7 DEF Watched, HasPending
  <2>6. output.first_frame \/ mid.prefix_written
    BY <1>2, <1>4, <1>5, <1>9, <2>1 DEF NeedsPrefix, cur, BufferInv
  <2>7. CASE output.offset + n < FrameBytes[cur]
    <3>1. output' = mid
      BY <1>2, <1>3, <1>4, <1>5, <2>1, <2>7 DEF Completed
    <3>2. bar' = [b2 EXCEPT !.at = "frame", !.frame = cur,
                            !.got = output.offset + n]
      BY <1>2, <1>3, <1>4, <1>9, <2>2, <2>7 DEF BarFrame
    <3>3. /\ bar'.at = "frame"
          /\ bar'.frame = cur
          /\ bar'.got = output.offset + n
          /\ bar'.shown = b2.shown
          /\ bar' \in [at : {"prelude", "element", "frame", "between", "torn"},
                       got : Nat, frame : Frames \cup {NoFrame},
                       shown : Frames \cup {NoFrame}]
      <4>1. bar' = [at |-> "frame", got |-> output.offset + n,
                    frame |-> cur, shown |-> b2.shown]
        BY <1>6, <3>2
      <4>2. output.offset + n \in Nat
        BY <1>2, <1>4
      <4>3. b2.shown \in Frames \cup {NoFrame}
        BY <1>6
      <4>4. QED
        BY <2>1, <4>1, <4>2, <4>3
    <3>4. SinkTypeOK'
      BY <1>3, <1>5, <2>3, <2>4, <3>1, <3>3 DEF SinkTypeOK
    <3>5. BufferInv'
      BY <1>2, <1>4, <1>5, <1>9, <2>1, <2>6, <2>7, <3>1
         DEF BufferInv, NeedsPrefix, cur, sep
    <3>6. BarInv'
      <4>1. output.offset + n > 0
        BY <1>4, <1>2, <1>9
      <4>2. QED
        BY <1>5, <1>6, <1>7, <3>1, <3>3, <4>1 DEF BarInv
    <3>7. Latest' = Latest
      BY <1>5, <3>1 DEF Latest, cur
    <3>8. QED
      BY <2>5, <3>4, <3>5, <3>6, <3>7
  <2>8. CASE output.offset + n = FrameBytes[cur]
    <3>1. output' = [mid EXCEPT !.last_completed = cur, !.current = NoFrame,
                                !.offset = 0, !.first_frame = FALSE,
                                !.prefix_written = FALSE]
      BY <1>3, <1>5, <2>1, <2>8 DEF Completed
    <3>2. /\ output'.last_completed = cur
          /\ output'.current = NoFrame
          /\ output'.offset = 0
          /\ output'.first_frame = FALSE
          /\ output'.prefix_written = FALSE
          /\ output' \in [last_completed : Frames \cup {NoFrame},
                          current : Frames \cup {NoFrame}, offset : Nat,
                          first_frame : BOOLEAN, prefix_written : BOOLEAN,
                          render_dirty : BOOLEAN]
      BY <1>5, <2>1, <3>1
    <3>3. bar' = [at |-> "between", got |-> 0, frame |-> NoFrame,
                  shown |-> cur]
      BY <1>2, <1>3, <1>4, <1>9, <2>2, <2>8 DEF BarFrame
    <3>4. SinkTypeOK'
      BY <1>3, <2>1, <2>3, <2>4, <3>2, <3>3 DEF SinkTypeOK
    <3>5. BufferInv'
      BY <2>1, <3>2 DEF BufferInv
    <3>6. BarInv'
      BY <1>7, <3>2, <3>3 DEF BarInv
    <3>7. Latest' = Latest
      BY <2>1, <3>2 DEF Latest, cur
    <3>8. QED
      BY <2>5, <3>4, <3>5, <3>6, <3>7
  <2>9. QED
    BY <1>2, <1>4, <2>1, <2>7, <2>8
<1>10. QED
  BY <1>2, <1>8, <1>9

(* Any flush: either stdout ends up watched exactly while bytes are        *)
(* pending, or the bar is gone and nothing was touched.                    *)
LEMMA FlushOutputInv ==
  ASSUME TypeOK, BufferInv, BarInv, FlushOutput
  PROVE  /\ SinkTypeOK'
         /\ BufferInv'
         /\ BarInv'
         /\ Latest' = Latest
         /\ running' \in BOOLEAN
         /\ Watched' \/ (~ running' /\ UNCHANGED sink)
<1>1. CASE FlushFrame
  <2>1. running' \in BOOLEAN
    BY <1>1 DEF FlushFrame, TypeOK
  <2>2. QED
    BY <1>1, <2>1, FlushFrameInv
<1>2. CASE FlushClosed
  BY <1>2 DEF FlushClosed, sink, TypeOK, SinkTypeOK, BufferInv, BarInv, Latest,
              PreludePending
<1>3. CASE FlushPrelude
  <2>1. /\ prelude_offset \in Nat
        /\ Room \in Nat
        /\ prelude_offset + Room < PreludeBytes
        /\ prelude_offset' = prelude_offset + Room
        /\ pipe' = PipeBytes
        /\ bar' = BarPrelude(bar, Room)
        /\ stdout_registered' = TRUE
        /\ running' = running
        /\ output' = output
        /\ PreludePending
    BY <1>3, OutputAssumption DEF FlushPrelude, TypeOK, Room
  <2>2. PreludePending'
    BY <2>1 DEF PreludePending
  <2>3. /\ bar.at = "prelude"
        /\ bar.got = prelude_offset
        /\ output.offset = 0
        /\ output.first_frame
        /\ bar.shown = output.last_completed
    BY <2>1 DEF BarInv
  <2>4. /\ bar'.at = "prelude"
        /\ bar'.got = prelude_offset'
        /\ bar'.shown = bar.shown
        /\ bar' \in [at : {"prelude", "element", "frame", "between", "torn"},
                     got : Nat, frame : Frames \cup {NoFrame},
                     shown : Frames \cup {NoFrame}]
    <3>1. CASE Room = 0
      BY <2>1, <2>3, <3>1 DEF BarPrelude, TypeOK
    <3>2. CASE Room > 0
      <4>1. bar' = [bar EXCEPT !.got = @ + Room]
        BY <2>1, <2>3, <3>2 DEF BarPrelude
      <4>2. bar' = [at |-> "prelude", got |-> prelude_offset + Room,
                    frame |-> bar.frame, shown |-> bar.shown]
        BY <2>3, <4>1 DEF TypeOK
      <4>3. prelude_offset + Room \in Nat
        BY <2>1
      <4>4. bar.frame \in Frames \cup {NoFrame} /\ bar.shown \in Frames \cup {NoFrame}
        BY DEF TypeOK
      <4>5. QED
        BY <2>1, <4>2, <4>3, <4>4
    <3>3. QED
      BY <2>1, <3>1, <3>2
  <2>5. SinkTypeOK'
    BY <2>1, <2>4, OutputAssumption DEF SinkTypeOK, TypeOK
  <2>6. BufferInv' /\ Latest' = Latest
    BY <2>1 DEF BufferInv, Latest
  <2>7. BarInv'
    BY <2>1, <2>2, <2>3, <2>4 DEF BarInv
  <2>8. Watched'
    BY <2>1, <2>2 DEF Watched
  <2>9. QED
    BY <2>1, <2>5, <2>6, <2>7, <2>8 DEF TypeOK
<1>4. QED
  BY <1>1, <1>2, <1>3 DEF FlushOutput

-----------------------------------------------------------------------------
(* A flush in the middle of the turn or at its end preserves everything.   *)
LEMMA FlushStepInv ==
  ASSUME IInv,
         FlushOutput,
         \/ pc = "events" /\ pc' = "events"
         \/ pc = "flush" /\ pc' = (IF running' THEN "wait" ELSE "stopped"),
         stdout_ready' \in BOOLEAN,
         UNCHANGED <<status, render_dirty, limiter, closed, recent>>
  PROVE  IInv'
<1>1. /\ SinkTypeOK' /\ BufferInv' /\ BarInv'
      /\ Latest' = Latest
      /\ running' \in BOOLEAN
      /\ Watched' \/ (~ running' /\ UNCHANGED sink)
  BY FlushOutputInv DEF IInv
<1>2. TypeOK'
  BY <1>1 DEF IInv, TypeOK, SinkTypeOK, limiter
<1>3. WatchInv'
  <2>1. CASE Watched'
    BY <1>2, <2>1 DEF Watched, WatchInv, TypeOK
  <2>2. CASE ~ running' /\ UNCHANGED sink
    BY <2>2 DEF IInv, WatchInv, sink, PreludePending, HasPending
  <2>3. QED
    BY <1>1, <2>1, <2>2
<1>4. NoLostUpdate'
  BY <1>1 DEF IInv, NoLostUpdate
<1>5. DebtInv'
  BY DEF IInv, DebtInv, limiter
<1>6. QED
  BY <1>1, <1>2, <1>3, <1>4, <1>5 DEF IInv

(* What a debt at now_ns has lapsed to.                                    *)
LEMMA LapsedBounds ==
  ASSUME late \in Nat, NEW d \in Nat
  PROVE  /\ Lapsed(d) \in Nat
         /\ Lapsed(d) <= d
         /\ d <= Lapsed(d) + late
BY DEF Lapsed

(* A render queues the status, or nothing if the bar already shows it, and *)
(* pays for it out of the limiter's credit.                                *)
LEMMA RenderInv ==
  ASSUME IInv, Render
  PROVE  IInv'
<1> USE OutputAssumption DEF IInv
<1>1. ~ HasPending(output) /\ output.current = NoFrame
  BY PendingIsCurrent DEF Render, MayRender
<1>2. output.offset = 0 /\ ~ output.prefix_written
  BY <1>1 DEF BufferInv
<1>3. output' = [output EXCEPT
                   !.current = IF status = output.last_completed
                               THEN NoFrame ELSE status,
                   !.render_dirty = FALSE]
  BY <1>2 DEF Render, SetFrame
<1>4. /\ output'.current = IF status = output.last_completed
                           THEN NoFrame ELSE status
      /\ output'.last_completed = output.last_completed
      /\ output'.offset = 0
      /\ output'.first_frame = output.first_frame
      /\ output'.prefix_written = output.prefix_written
      /\ output' \in [last_completed : Frames \cup {NoFrame},
                      current : Frames \cup {NoFrame}, offset : Nat,
                      first_frame : BOOLEAN, prefix_written : BOOLEAN,
                      render_dirty : BOOLEAN]
  <2>1. status \in Frames
    BY DEF TypeOK
  <2>2. output' = [last_completed |-> output.last_completed,
                   current |-> IF status = output.last_completed
                               THEN NoFrame ELSE status,
                   offset |-> output.offset,
                   first_frame |-> output.first_frame,
                   prefix_written |-> output.prefix_written,
                   render_dirty |-> FALSE]
    BY <1>3 DEF TypeOK
  <2>3. QED
    BY <1>2, <2>1, <2>2 DEF TypeOK
<1>5. /\ debt \in Nat /\ late \in Nat /\ Refill \in Nat
      /\ debt' = Lapsed(debt + Refill) /\ late' = 0
  BY DEF Render, RecordRender, TypeOK
<1>6. TypeOK'
  <2>1. recent' \in [0..Window -> Nat]
    BY DEF Render, RecordRender, TypeOK
  <2>2. debt' \in Nat /\ late' \in 0..MaxLate
    BY <1>5, CreditArithmetic, LapsedBounds DEF MaxLate
  <2>3. QED
    BY <1>4, <2>1, <2>2 DEF Render, TypeOK
<1>7. BufferInv'
  BY <1>2, <1>4 DEF BufferInv, TypeOK
<1>8. BarInv'
  BY <1>2, <1>4 DEF BarInv, Render, PreludePending, TypeOK
<1>9. WatchInv'
  <2>1. stdout_registered => PreludePending
    BY <1>1 DEF WatchInv, Render
  <2>2. QED
    BY <2>1 DEF WatchInv, Render, PreludePending
<1>10. NoLostUpdate'
  BY <1>4 DEF NoLostUpdate, Latest, Render, TypeOK
<1>11. DebtInv'
  <2>1. debt <= (Burst - 1) * Refill
    BY DEF Render, MayRender, RenderDue
  <2>2. (Burst - 1) * Refill + Refill = Burst * Refill
    OBVIOUS
  <2>3. (Burst - 1) * Refill \in Nat
    OBVIOUS
  <2>4. debt + Refill <= Burst * Refill /\ Burst * Refill \in Nat
    BY <1>5, <2>1, <2>2, <2>3
  <2>5. /\ debt' \in Nat /\ debt' <= debt + Refill
        /\ debt + Refill <= debt' + late
    BY <1>5, LapsedBounds
  <2>6. ASSUME NEW a \in 0..Window
        PROVE  ~ a < late' /\ recent'[a] * Refill <= debt' + Refill + (a - late')
    <3>1. recent'[a] = recent[a] + 1 /\ recent[a] \in Nat
      BY DEF Render, RecordRender, TypeOK
    <3>2. CASE a < late
      <4>1. recent'[a] = 1 /\ 1 * Refill = Refill
        BY <3>1, <3>2 DEF DebtInv
      <4>2. QED
        BY <1>5, <2>5, <4>1
    <3>3. CASE ~ a < late
      <4>1. (recent[a] + 1) * Refill = recent[a] * Refill + Refill
        BY <3>1
      <4>2. recent[a] * Refill <= debt + Refill + (a - late)
        BY <3>3 DEF DebtInv
      <4>3. recent[a] * Refill \in Nat
        BY <3>1
      <4>4. QED
        BY <1>5, <2>5, <3>1, <3>3, <4>1, <4>2, <4>3
    <3>4. QED
      BY <3>2, <3>3
  <2>7. QED
    BY <1>5, <2>4, <2>5, <2>6 DEF DebtInv
<1>12. QED
  BY <1>6, <1>7, <1>8, <1>9, <1>10, <1>11

(* A tick later, the clock or what is late is one further, not both.       *)
LEMMA TickArithmetic ==
  ASSUME NEW a \in Nat, NEW d \in Nat, NEW d2 \in Nat, NEW l \in Nat,
         NEW l2 \in Nat, NEW spent \in Nat,
         d <= d2 + 1, l2 <= l + 1, d2 = d \/ l2 = l,
         ~ a < l2,
         IF a = 0 \/ a - 1 < l THEN spent = 0
         ELSE spent <= d + Refill + ((a - 1) - l)
  PROVE  spent <= d2 + Refill + (a - l2)
BY OutputAssumption

LEMMA TickInv ==
  ASSUME IInv, Tick
  PROVE  IInv'
<1> USE OutputAssumption DEF IInv
<1>1. /\ debt \in Nat /\ late \in Nat /\ Refill \in Nat /\ MaxLate \in Nat
      /\ late <= MaxLate
  BY CreditArithmetic DEF TypeOK, MaxLate
<1>2. /\ debt' \in Nat /\ debt' <= debt /\ debt <= debt' + 1
      /\ late' \in 0..MaxLate /\ late' \in Nat /\ late' <= late + 1
      /\ pc = "render" => debt' = debt
      /\ pc # "render" => late' = late
  <2>1. CASE pc = "render"
    BY <1>1, <2>1 DEF Tick, Min2
  <2>2. CASE pc # "render"
    BY <1>1, <2>2 DEF Tick
  <2>3. QED
    BY <2>1, <2>2
<1>3. recent' \in [0..Window -> Nat]
  BY DEF Tick, TypeOK
<1>4. TypeOK'
  BY <1>2, <1>3 DEF Tick, TypeOK, loop, sink
<1>5. BufferInv' /\ BarInv' /\ WatchInv' /\ NoLostUpdate'
  BY DEF Tick, loop, sink, BufferInv, BarInv, WatchInv, NoLostUpdate, Latest,
         PreludePending, HasPending
<1>6. DebtInv'
  <2>1. debt' <= Burst * Refill
    <3>1. Burst * Refill \in Nat /\ debt <= Burst * Refill
      BY CreditArithmetic DEF DebtInv
    <3>2. QED
      BY <1>1, <1>2, <3>1
  <2>2. pc' # "render" => late' = 0
    BY <1>2 DEF DebtInv, Tick, loop
  <2>3. ASSUME NEW a \in 0..Window
        PROVE  IF a < late' THEN recent'[a] = 0
               ELSE recent'[a] * Refill <= debt' + Refill + (a - late')
    <3>1. recent'[a] \in Nat /\ recent'[a] * Refill \in Nat /\ 0 * Refill = 0
      BY <1>3, CreditArithmetic
    <3>2. IF a = 0 \/ a - 1 < late THEN recent'[a] = 0
          ELSE recent'[a] * Refill <= debt + Refill + ((a - 1) - late)
      <4>1. CASE a = 0
        BY <4>1 DEF Tick
      <4>2. CASE a > 0
        <5>1. recent'[a] = recent[a - 1] /\ a - 1 \in 0..Window
          BY <4>2 DEF Tick
        <5>2. QED
          BY <4>2, <5>1 DEF DebtInv
      <4>3. QED
        BY <4>1, <4>2
    <3>3. a < late' => a = 0 \/ a - 1 < late
      BY <1>1, <1>2
    <3>4. ~ a < late' => recent'[a] * Refill <= debt' + Refill + (a - late')
      <4>1. a \in Nat /\ (debt' = debt \/ late' = late)
        BY <1>2
      <4>2. IF a = 0 \/ a - 1 < late THEN recent'[a] * Refill = 0
            ELSE recent'[a] * Refill <= debt + Refill + ((a - 1) - late)
        BY <3>1, <3>2
      <4>3. QED
        BY <1>1, <1>2, <3>1, <4>1, <4>2, TickArithmetic
    <3>5. QED
      BY <3>2, <3>3, <3>4
  <2>4. QED
    BY <2>1, <2>2, <2>3 DEF DebtInv
<1>7. QED
  BY <1>4, <1>5, <1>6

(* A turn that renders nothing is done with now_ns.                        *)
LEMMA RecordNothingInv ==
  ASSUME TypeOK, DebtInv, RecordNothing
  PROVE  /\ debt' \in Nat /\ late' \in 0..MaxLate
         /\ recent' \in [0..Window -> Nat]
         /\ DebtInv'
<1> USE OutputAssumption
<1>1. /\ debt \in Nat /\ late \in Nat /\ Refill \in Nat /\ MaxLate \in Nat
      /\ Burst * Refill \in Nat /\ debt <= Burst * Refill
  BY CreditArithmetic DEF TypeOK, MaxLate, DebtInv
<1>2. /\ debt' = Lapsed(debt) /\ late' = 0 /\ recent' = recent
      /\ debt' \in Nat /\ debt' <= debt /\ debt <= debt' + late
  BY <1>1, LapsedBounds DEF RecordNothing
<1>3. ASSUME NEW a \in 0..Window
      PROVE  ~ a < late' /\ recent'[a] * Refill <= debt' + Refill + (a - late')
  <2>1. recent[a] \in Nat /\ recent[a] * Refill \in Nat /\ 0 * Refill = 0
    BY CreditArithmetic DEF TypeOK
  <2>2. CASE a < late
    BY <1>1, <1>2, <2>1, <2>2 DEF DebtInv
  <2>3. CASE ~ a < late
    <3>1. recent[a] * Refill <= debt + Refill + (a - late)
      BY <2>3 DEF DebtInv
    <3>2. QED
      BY <1>1, <1>2, <2>1, <2>3, <3>1
  <2>4. QED
    BY <2>2, <2>3
<1>4. DebtInv'
  BY <1>1, <1>2, <1>3 DEF DebtInv
<1>5. QED
  BY <1>1, <1>2, <1>4 DEF TypeOK

-----------------------------------------------------------------------------
(* Every step of the loop, of the clock and of the bar preserves IInv.     *)
LEMMA NextInv ==
  ASSUME IInv, [Next]_vars
  PROVE  IInv'
<1> USE OutputAssumption
<1>1. CASE Harvest
  <2>1. TypeOK'
    BY <1>1 DEF Harvest, IInv, TypeOK, sink, limiter
  <2>2. BufferInv' /\ BarInv' /\ WatchInv' /\ NoLostUpdate' /\ DebtInv'
    BY <1>1 DEF Harvest, IInv, sink, limiter, BufferInv, BarInv, WatchInv, NoLostUpdate,
                DebtInv, Latest, PreludePending, HasPending
  <2>3. QED
    BY <2>1, <2>2 DEF IInv
<1>2. CASE StdoutEvent
  <2>1. stdout_ready' \in BOOLEAN
    BY <1>2 DEF StdoutEvent
  <2>2. QED
    BY <1>2, <2>1, FlushStepInv DEF StdoutEvent
<1>3. CASE EventsDone \/ SkipRender \/ RenderFails \/ NothingToFlush
  <2>1. /\ UNCHANGED <<sink, status, render_dirty>>
        /\ running' \in BOOLEAN
        /\ stdout_ready' \in BOOLEAN
        /\ closed' \in BOOLEAN
    BY <1>3 DEF EventsDone, SkipRender, RenderFails, NothingToFlush, IInv, TypeOK
  <2>2. pc' \in {"wait", "render", "flush", "stopped"}
    BY <1>3 DEF EventsDone, SkipRender, RenderFails, NothingToFlush, EndTurn
  <2>3. /\ debt' \in Nat /\ late' \in 0..MaxLate
        /\ recent' \in [0..Window -> Nat]
        /\ DebtInv'
    <3>1. CASE EventsDone \/ NothingToFlush
      <4>1. late = 0 /\ UNCHANGED <<debt, late, recent>>
        BY <3>1 DEF EventsDone, NothingToFlush, limiter, IInv, DebtInv
      <4>2. QED
        BY <4>1 DEF IInv, TypeOK, DebtInv
    <3>2. CASE SkipRender \/ RenderFails
      BY <3>2, RecordNothingInv DEF SkipRender, RenderFails, IInv
    <3>3. QED
      BY <1>3, <3>1, <3>2
  <2>4. TypeOK'
    BY <2>1, <2>2, <2>3 DEF IInv, TypeOK, sink
  <2>5. BufferInv' /\ BarInv' /\ NoLostUpdate'
    BY <2>1 DEF IInv, sink, BufferInv, BarInv, NoLostUpdate, Latest,
                PreludePending, HasPending
  <2>6. WatchInv'
    BY <1>3, <2>1
       DEF EventsDone, SkipRender, RenderFails, NothingToFlush, EndTurn, IInv,
           sink, WatchInv, TypeOK, PreludePending, HasPending
  <2>7. QED
    BY <2>3, <2>4, <2>5, <2>6 DEF IInv
<1>4. CASE Render
  BY <1>4, RenderInv
<1>5. CASE FlushPending
  BY <1>5, FlushStepInv DEF FlushPending, EndTurn, IInv, TypeOK
<1>6. ASSUME NEW f \in Frames, SourceEvent(f)
      PROVE  IInv'
  <2>1. TypeOK'
    BY <1>6 DEF SourceEvent, IInv, TypeOK, loop, sink, limiter
  <2>2. BufferInv' /\ BarInv' /\ WatchInv' /\ NoLostUpdate' /\ DebtInv'
    BY <1>6 DEF SourceEvent, IInv, loop, sink, limiter, BufferInv, BarInv,
                WatchInv,
                NoLostUpdate, DebtInv, PreludePending, HasPending
  <2>3. QED
    BY <2>1, <2>2 DEF IInv
<1>7. CASE Tick
  BY <1>7, TickInv
<1>8. CASE Drain \/ Close \/ UNCHANGED vars
  <2>1. /\ UNCHANGED <<loop, status, render_dirty, limiter, output, prelude_offset,
                      stdout_registered, stdout_ready, bar, recent>>
        /\ pipe' \in 0..PipeBytes
        /\ closed' \in BOOLEAN
    <3>1. CASE Drain
      <4>1. pipe' = pipe - 1 /\ pipe \in 0..PipeBytes /\ pipe > 0
        BY <3>1 DEF Drain, IInv, TypeOK
      <4>2. pipe' \in 0..PipeBytes
        BY <4>1
      <4>3. QED
        BY <3>1, <4>2 DEF Drain, IInv, TypeOK, limiter
    <3>2. CASE Close \/ UNCHANGED vars
      BY <3>2 DEF Close, vars, loop, sink, limiter, IInv, TypeOK
    <3>3. QED
      BY <1>8, <3>1, <3>2
  <2>2. TypeOK'
    BY <2>1 DEF IInv, TypeOK, loop, limiter
  <2>3. BufferInv' /\ BarInv' /\ WatchInv' /\ NoLostUpdate' /\ DebtInv'
    BY <2>1 DEF IInv, loop, limiter, BufferInv, BarInv, WatchInv, NoLostUpdate,
                DebtInv, Latest, PreludePending, HasPending
  <2>4. QED
    BY <2>2, <2>3 DEF IInv
<1>9. QED
  BY <1>1, <1>2, <1>3, <1>4, <1>5, <1>6, <1>7, <1>8
     DEF Next, Turn, WakeForOutput, WakeForSource

(* IInv holds in every state the loop reaches.                             *)
THEOREM Invariance == Spec => []IInv
<1>1. Init => IInv
  BY InitInv
<1>2. IInv /\ [Next]_vars => IInv'
  BY NextInv
<1>3. QED
  BY <1>1, <1>2, PTL DEF Spec

(* Every variable keeps its type: in particular the clock, the debt of the *)
(* limiter and the write offsets never leave the naturals.                 *)
THEOREM TypeCorrect == Spec => []TypeOK
<1>1. IInv => TypeOK
  BY DEF IInv
<1>2. QED
  BY <1>1, Invariance, PTL

(* For every frame length, pipe size and flush budget the bar reads the    *)
(* header and whole frames with one separator between two (output.c).      *)
THEOREM StreamIsWellFormed == Spec => []StreamWellFormed
<1>1. IInv => StreamWellFormed
  <2>1. SUFFICES ASSUME IInv PROVE bar.at # "torn"
    BY DEF StreamWellFormed
  <2>2. QED
    BY <2>1 DEF IInv, BarInv
<1>2. QED
  BY <1>1, Invariance, PTL

(* No status change is dropped between the blocks and the frame buffers.   *)
THEOREM NoUpdateIsLost == Spec => []NoLostUpdate
<1>1. IInv => NoLostUpdate
  BY DEF IInv
<1>2. QED
  BY <1>1, Invariance, PTL

(* The loop sleeps with EPOLLOUT registered exactly while bytes wait.      *)
THEOREM WatchedWhilePending == Spec => []WatchedIffPending
<1>1. IInv => WatchedIffPending
  BY DEF IInv, WatchInv, WatchedIffPending
<1>2. QED
  BY <1>1, Invariance, PTL

(* For every burst, refill interval and window, and however long callbacks *)
(* and reloads keep the loop from rendering after it has read the clock, at *)
(* most one frame more than the limiter grants is rendered                 *)
(* (render_limiter.c, main.c:3401-3434).                                   *)
THEOREM RateIsBounded == Spec => []RateBound
<1>1. IInv => RateBound
  <2> SUFFICES ASSUME IInv, NEW a \in 0..Window
               PROVE  recent[a] * Refill <= (Burst + 1) * Refill + a
    BY DEF RateBound
  <2>1. /\ IF a < late THEN recent[a] = 0
           ELSE recent[a] * Refill <= debt + Refill + (a - late)
        /\ debt <= Burst * Refill
    BY DEF IInv, DebtInv
  <2>2. debt \in Nat /\ late \in Nat /\ recent[a] \in Nat /\ Refill \in Nat
    BY CreditArithmetic, OutputAssumption DEF IInv, TypeOK, MaxLate
  <2>3. /\ Burst * Refill \in Nat /\ recent[a] * Refill \in Nat
        /\ (Burst + 1) * Refill = Burst * Refill + Refill
        /\ 0 * Refill = 0
    BY <2>2, OutputAssumption
  <2>4. QED
    BY <2>1, <2>2, <2>3
<1>2. QED
  BY <1>1, Invariance, PTL

-----------------------------------------------------------------------------
(* The refinement.                                                         *)

(* A flush either leaves both buffers alone or swaps them.                 *)
LEMMA FlushDelivers ==
  ASSUME TypeOK, FlushOutput
  PROVE  \/ /\ output'.current = output.current
            /\ output'.last_completed = output.last_completed
         \/ /\ output.current # NoFrame
            /\ output'.current = NoFrame
            /\ output'.last_completed = output.current
<1>1. CASE FlushFrame
  <2> DEFINE mid == [output EXCEPT
                       !.prefix_written = @ \/ (NeedsPrefix(output)
                                                /\ Room - (PreludeBytes - prelude_offset) > 0),
                       !.offset = @ + Payload(output, Room - (PreludeBytes - prelude_offset))]
  <2>1. output' = Completed(mid)
    BY <1>1 DEF FlushFrame, Flushed
  <2>2. /\ mid.current = output.current
        /\ mid.last_completed = output.last_completed
        /\ Completed(mid) = mid
              \/ /\ mid.current # NoFrame
                 /\ Completed(mid).current = NoFrame
                 /\ Completed(mid).last_completed = mid.current
    <3>1. /\ DOMAIN mid = {"last_completed", "current", "offset",
                           "first_frame", "prefix_written", "render_dirty"}
          /\ mid.current = output.current
          /\ mid.last_completed = output.last_completed
      BY DEF TypeOK
    <3> HIDE DEF mid
    <3>2. QED
      BY <3>1 DEF Completed
  <2> HIDE DEF mid
  <2>3. QED
    BY <2>1, <2>2
<1>2. CASE FlushClosed \/ FlushPrelude
  BY <1>2 DEF FlushClosed, FlushPrelude, sink
<1>3. QED
  BY <1>1, <1>2 DEF FlushOutput

(* Every step of the loop is a step of StatusStream, or none of its        *)
(* business.                                                               *)
LEMMA StreamStep ==
  ASSUME IInv, IInv', [Next]_vars
  PROVE  [Stream!Next]_(Stream!vars)
<1> USE DEF Stream!Next, Stream!vars
<1>1. /\ bar.shown = output.last_completed
      /\ bar'.shown = output'.last_completed
  BY DEF IInv, BarInv
<1>2. ASSUME FlushOutput, status' = status
      PROVE  [Stream!Next]_(Stream!vars)
  <2>1. TypeOK
    BY DEF IInv
  <2>2. QED
    BY <1>1, <1>2, <2>1, FlushDelivers DEF Stream!Deliver
<1>3. CASE StdoutEvent \/ FlushPending
  BY <1>2, <1>3 DEF StdoutEvent, FlushPending
<1>4. CASE Render
  <2>1. output.current = NoFrame
    BY <1>4, PendingIsCurrent DEF IInv, Render, MayRender
  <2>2. output.offset = 0 /\ ~ output.prefix_written
    BY <2>1 DEF IInv, BufferInv
  <2>3. output' = [output EXCEPT
                     !.current = IF status = output.last_completed
                                 THEN NoFrame ELSE status,
                     !.render_dirty = FALSE]
    BY <1>4, <2>2 DEF Render, SetFrame
  <2>4. output'.current = IF status = output.last_completed
                          THEN NoFrame ELSE status
    BY <2>3 DEF IInv, TypeOK
  <2>5. UNCHANGED <<status, bar>>
    BY <1>4 DEF Render
  <2>6. QED
    BY <1>1, <2>1, <2>4, <2>5 DEF Stream!Capture
<1>5. ASSUME NEW f \in Frames, SourceEvent(f)
      PROVE  [Stream!Next]_(Stream!vars)
  BY <1>5 DEF SourceEvent, sink, Stream!Change
<1>6. CASE \/ Harvest \/ EventsDone \/ RenderFails \/ SkipRender
           \/ NothingToFlush \/ Tick \/ Drain \/ Close \/ UNCHANGED vars
  BY <1>6 DEF Harvest, EventsDone, RenderFails, SkipRender, NothingToFlush,
              Tick, Drain, Close, vars, sink
<1>7. QED
  BY <1>3, <1>4, <1>5, <1>6 DEF Next, Turn, WakeForOutput, WakeForSource

(* i3sd implements StatusStream: the bar sees whole frames, each rendered  *)
(* from a status the blocks really had, in order and without repetition.   *)
THEOREM OutputImplementsStream == Spec => StreamSpec
<1>1. Init => Stream!Init
  BY DEF Init, OutputInit, BarStart, Stream!Init
<1>2. IInv /\ IInv' /\ [Next]_vars => [Stream!Next]_(Stream!vars)
  BY StreamStep
<1>3. QED
  BY <1>1, <1>2, Invariance, PTL DEF Spec, StreamSpec, Stream!Spec
=============================================================================
