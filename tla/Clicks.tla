------------------------------- MODULE Clicks -------------------------------
(***************************************************************************)
(* src/src/click.c: cutting the bar's endless JSON array of click events   *)
(* into events.  The framer keeps all it knows between two calls, so that  *)
(* it does not matter where read() cuts the stream: a step is one byte.     *)
(*                                                                         *)
(* "x" stands for every byte that neither the framer nor JSON's nesting and *)
(* strings tell apart, and within an event for commas and spaces too.  What *)
(* is kept of an event's bytes is their number.                             *)
(***************************************************************************)
EXTENDS Integers, Sequences

CONSTANTS
  MaxBytes,   (* I3SD_CLICK_MAX_BYTES                                       *)
  MaxDepth,   (* I3SD_CLICK_MAX_DEPTH                                       *)
  BarDepth    (* bound on how deep the bar nests                            *)

ClicksConstants ==
  /\ MaxBytes \in Nat /\ MaxBytes >= 2
  /\ MaxDepth \in Nat \ {0}
  /\ BarDepth \in Nat

VARIABLES
  framer,     (* struct i3sd_click_framer                                   *)
  got,        (* the event its last byte completed, or NoEvent              *)
  bar,        (* the bar's writer (external)                                *)
  wanted      (* history: the event the last byte completed, if it is to be *)
              (* dispatched                                                 *)

vars == <<framer, got, bar, wanted>>

NoEvent == 0

-----------------------------------------------------------------------------
(* i3sd_click_framer_feed for one byte; a result is the framer after it and *)
(* the event, if it was the last byte of one.                               *)

Fresh ==
  [outer_seen |-> FALSE, in_event |-> FALSE, depth |-> 0, in_string |-> FALSE,
   escaped |-> FALSE, discarding |-> FALSE, irrecoverable |-> FALSE,
   event |-> 0]

Goes(f) == [framer |-> f, event |-> NoEvent]

Irrecoverable(f) == Goes([f EXCEPT !.irrecoverable = TRUE])

Spaces == {"space"}
Opening == {"lbrace", "lbracket"}
Closing == {"rbrace", "rbracket"}

(* The byte is kept unless the event is too long.                           *)
Kept(f) ==
  IF f.discarding THEN f
  ELSE IF f.event = MaxBytes THEN [f EXCEPT !.discarding = TRUE]
  ELSE [f EXCEPT !.event = @ + 1]

(* Faulty variant: an escaped quote ends the string.                        *)
EndsEscaped(f, byte) == byte = "quote"

EndsString(f, byte) == byte = "quote" /\ ~f.escaped

InString(f, byte) ==
  [f EXCEPT !.escaped = byte = "backslash" /\ ~f.escaped,
            !.in_string = ~EndsString(f, byte)]

(* The brace that begins the event has been counted.                        *)
Opened(f, byte) ==
  LET first == byte = "lbrace" /\ f.depth = 1 /\ f.event = 1
      depth == IF first THEN f.depth ELSE f.depth + 1
  IN  [f EXCEPT !.depth = depth, !.discarding = @ \/ depth > MaxDepth]

(* click_reset_event; an event that is returned stays in the buffer.        *)
Reset(f) == [Fresh EXCEPT !.outer_seen = f.outer_seen]

ClosedTo(f) ==
  IF f.depth # 0 THEN Goes(f)
  ELSE IF f.discarding THEN Goes(Reset(f))
  ELSE [framer |-> [f EXCEPT !.in_event = FALSE], event |-> f.event]

InEvent(f, byte) ==
  IF f.in_string THEN Goes(InString(f, byte))
  ELSE IF byte = "quote" THEN Goes([f EXCEPT !.in_string = TRUE])
  ELSE IF byte \in Opening THEN Goes(Opened(f, byte))
  ELSE IF byte \notin Closing THEN Goes(f)
  ELSE IF f.depth = 0 THEN Irrecoverable(f)
  ELSE ClosedTo([f EXCEPT !.depth = @ - 1])

Feed(f, byte) ==
  IF f.irrecoverable THEN Goes(f)
  ELSE IF ~f.outer_seen THEN
    IF byte \in Spaces THEN Goes(f)
    ELSE IF byte # "lbracket" THEN Irrecoverable(f)
    ELSE Goes([f EXCEPT !.outer_seen = TRUE])
  ELSE IF f.in_event THEN InEvent(Kept(f), byte)
  ELSE IF byte \in Spaces \cup {"comma", "rbracket"} THEN Goes(f)
  ELSE IF byte # "lbrace" THEN Irrecoverable(f)
  ELSE InEvent(Kept([f EXCEPT !.event = 0, !.in_event = TRUE, !.depth = 1]),
               byte)

-----------------------------------------------------------------------------
(* The bar writes an array of objects by JSON's rules of nesting and        *)
(* strings, with the brackets that are open on a stack; or it writes        *)
(* something else, and nothing after that counts.                           *)

NewBar ==
  [began |-> FALSE, garbled |-> FALSE, open |-> <<>>, string |-> FALSE,
   escape |-> FALSE, event |-> 0, deep |-> FALSE]

Partner == [b \in Closing |-> IF b = "rbrace" THEN "lbrace" ELSE "lbracket"]

(* What may come next.                                                      *)
Between ==
  IF bar.began THEN {"space", "comma", "lbrace", "rbracket"}
  ELSE {"space", "lbracket"}

Within ==
  {"x", "quote"} \cup (IF Len(bar.open) < BarDepth THEN Opening ELSE {})
    \cup {b \in Closing : Partner[b] = bar.open[Len(bar.open)]}

InText == {"x", "quote", "backslash"} \cup Opening \cup Closing

Following ==
  IF bar.open = <<>> THEN Between ELSE IF bar.string THEN InText ELSE Within

(* A longer event is only known to be too long.                             *)
Written == IF bar.event > MaxBytes THEN bar.event ELSE bar.event + 1

Brackets(byte) ==
  IF bar.string THEN bar.open
  ELSE IF byte \in Opening THEN Append(bar.open, byte)
  ELSE IF byte \in Closing THEN SubSeq(bar.open, 1, Len(bar.open) - 1)
  ELSE bar.open

(* Events beyond the limits are dropped.                                    *)
Fits(bytes, deep) == bytes <= MaxBytes /\ ~deep

Write(byte) ==
  /\ ~bar.garbled
  /\ byte \in Following
  /\ LET outside == bar.open = <<>> /\ byte # "lbrace"
         open == IF outside THEN <<>> ELSE Brackets(byte)
         deep == bar.deep \/ Len(open) > MaxDepth
         over == ~outside /\ open = <<>>
     IN  /\ bar' = IF outside
                   THEN [bar EXCEPT !.began = @ \/ byte = "lbracket"]
                   ELSE IF over THEN [NewBar EXCEPT !.began = TRUE]
                   ELSE [bar EXCEPT
                           !.open = open,
                           !.string = IF byte = "quote" THEN @ = bar.escape
                                      ELSE @,
                           !.escape = bar.string /\ byte = "backslash" /\ ~@,
                           !.event = Written,
                           !.deep = deep]
         /\ wanted' = IF over /\ Fits(Written, deep) THEN Written
                      ELSE NoEvent

(* No event is ever begun in this way.                                      *)
Garble(byte) ==
  /\ bar.open = <<>>
  /\ byte \notin Between
  /\ bar' = [NewBar EXCEPT !.garbled = TRUE]
  /\ wanted' = NoEvent

Babble ==
  /\ bar.garbled
  /\ wanted' = NoEvent
  /\ UNCHANGED bar

-----------------------------------------------------------------------------
Bytes ==
  {"space", "comma", "x", "quote", "backslash"} \cup Opening \cup Closing

Init ==
  /\ framer = Fresh
  /\ got = NoEvent
  /\ bar = NewBar
  /\ wanted = NoEvent

(* read_clicks dispatches each event before it goes on.                     *)
Read(byte) ==
  /\ framer' = Feed(framer, byte).framer
  /\ got' = Feed(framer, byte).event

Next ==
  \E byte \in Bytes : Read(byte) /\ (Write(byte) \/ Garble(byte) \/ Babble)

Spec == Init /\ [][Next]_vars

-----------------------------------------------------------------------------
TypeOK ==
  /\ framer.depth \in Nat
  /\ framer.event \in 0..MaxBytes
  /\ {framer.outer_seen, framer.in_event, framer.in_string, framer.escaped,
      framer.discarding, framer.irrecoverable} \subseteq BOOLEAN
  /\ bar.open \in Seq(Opening)
  /\ bar.event \in 0..(MaxBytes + 1)
  /\ got \in 0..MaxBytes
  /\ {bar.began, bar.garbled, bar.string, bar.escape, bar.deep}
       \subseteq BOOLEAN

(* Every event of the bar within the limits is dispatched, whole and at its *)
(* last byte, whatever its strings contain and whatever was dropped before; *)
(* nothing else is, and nothing at all after the stream was garbled.        *)
ClicksFramed == got = wanted
=============================================================================
