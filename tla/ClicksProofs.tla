---------------------------- MODULE ClicksProofs ----------------------------
(***************************************************************************)
(* The framer of click.c cuts the bar's stream into the events the bar      *)
(* wrote, for all limits on an event's length and depth (MCSources checks   *)
(* events of twelve bytes and a depth of three).  The framer follows the    *)
(* bar's writer, byte for byte: Follows says what its fields have to do     *)
(* with the brackets, the string and the escape the writer has open.        *)
(***************************************************************************)
EXTENDS Clicks, TLAPS

(* The framer's fields.                                                     *)
Framers ==
  [outer_seen : BOOLEAN, in_event : BOOLEAN, depth : Nat, in_string : BOOLEAN,
   escaped : BOOLEAN, discarding : BOOLEAN, irrecoverable : BOOLEAN,
   event : 0..MaxBytes]

(* A byte within an event is counted; a byte too many ends the keeping.    *)
LEMMA KeptByte ==
  ASSUME ClicksConstants, NEW f \in Framers, f.event >= 1
  PROVE  /\ Kept(f) \in Framers
         /\ Kept(f).event >= 1
         /\ Kept(f).discarding <=> (f.discarding \/ f.event = MaxBytes)
         /\ Kept(f).event = IF Kept(f).discarding THEN f.event ELSE f.event + 1
         /\ Kept(f).outer_seen = f.outer_seen
         /\ Kept(f).in_event = f.in_event
         /\ Kept(f).depth = f.depth
         /\ Kept(f).in_string = f.in_string
         /\ Kept(f).escaped = f.escaped
         /\ Kept(f).irrecoverable = f.irrecoverable
<1> USE DEF ClicksConstants, Framers
<1>1. CASE f.discarding
  BY <1>1 DEF Kept
<1>2. CASE ~f.discarding /\ f.event = MaxBytes
  <2> DEFINE g == [f EXCEPT !.discarding = TRUE]
  <2>1. Kept(f) = g  BY <1>2 DEF Kept
  <2>2. g \in Framers /\ g.discarding /\ g.event = f.event
        /\ g.outer_seen = f.outer_seen /\ g.in_event = f.in_event
        /\ g.depth = f.depth /\ g.in_string = f.in_string
        /\ g.escaped = f.escaped /\ g.irrecoverable = f.irrecoverable
    OBVIOUS
  <2> QED BY <2>1, <2>2, <1>2
<1>3. CASE ~f.discarding /\ f.event # MaxBytes
  <2> DEFINE g == [f EXCEPT !.event = @ + 1]
  <2>1. Kept(f) = g  BY <1>3 DEF Kept
  <2>2. g \in Framers /\ g.discarding = f.discarding /\ g.event = f.event + 1
        /\ g.outer_seen = f.outer_seen /\ g.in_event = f.in_event
        /\ g.depth = f.depth /\ g.in_string = f.in_string
        /\ g.escaped = f.escaped /\ g.irrecoverable = f.irrecoverable
    BY <1>3
  <2> QED BY <2>1, <2>2, <1>3
<1> QED BY <1>1, <1>2, <1>3

(* What most bytes leave alone.                                             *)
Untouched(f, g) ==
  /\ g.outer_seen = f.outer_seen
  /\ g.in_event = f.in_event
  /\ g.irrecoverable = f.irrecoverable

Fields(f, g) == Untouched(f, g) /\ g.event = f.event

(* A byte of a string may end it, or be a backslash that escapes the next.  *)
LEMMA StringByte ==
  ASSUME NEW f \in Framers, NEW byte
  PROVE  LET g == InString(f, byte)
         IN  /\ g \in Framers /\ Fields(f, g)
             /\ g.depth = f.depth /\ g.discarding = f.discarding
             /\ g.escaped <=> (byte = "backslash" /\ ~f.escaped)
             /\ g.in_string <=> ~(byte = "quote" /\ ~f.escaped)
<1> DEFINE g == [f EXCEPT !.escaped = byte = "backslash" /\ ~f.escaped,
                          !.in_string = ~(byte = "quote" /\ ~f.escaped)]
<1>1. InString(f, byte) = g
  BY DEF InString, EndsString
<1>2. /\ g \in Framers /\ Fields(f, g)
      /\ g.depth = f.depth /\ g.discarding = f.discarding
      /\ g.escaped = (byte = "backslash" /\ ~f.escaped)
      /\ g.in_string = ~(byte = "quote" /\ ~f.escaped)
  BY DEF Framers, Fields, Untouched
<1> QED BY <1>1, <1>2

(* A bracket within an event opens one level more, perhaps one too many.    *)
LEMMA OpeningByte ==
  ASSUME ClicksConstants, NEW f \in Framers, NEW byte, f.event # 1
  PROVE  LET g == Opened(f, byte)
         IN  /\ g \in Framers /\ Fields(f, g)
             /\ g.depth = f.depth + 1
             /\ g.discarding <=> (f.discarding \/ f.depth + 1 > MaxDepth)
             /\ g.escaped = f.escaped /\ g.in_string = f.in_string
<1> DEFINE d == f.depth + 1
           over == f.discarding \/ d > MaxDepth
           g == [f EXCEPT !.depth = d, !.discarding = over]
<1>1. Opened(f, byte) = g
  BY DEF Opened
<1>2. d \in Nat /\ over \in BOOLEAN
  BY DEF Framers, ClicksConstants
<1> HIDE DEF d, over
<1>3. /\ g \in Framers /\ Fields(f, g)
      /\ g.depth = d /\ g.discarding = over
      /\ g.escaped = f.escaped /\ g.in_string = f.in_string
  BY <1>2 DEF Framers, Fields, Untouched
<1> HIDE DEF g
<1> QED BY <1>1, <1>3 DEF d, over

(* What the writer may have open.                                           *)
Bars ==
  [began : BOOLEAN, garbled : BOOLEAN, open : Seq(Opening), string : BOOLEAN,
   escape : BOOLEAN, event : 0..(MaxBytes + 1), deep : BOOLEAN]

(* Between two events nothing of the last one is left in the framer.        *)
BetweenEvents(f, b) ==
  /\ f.outer_seen <=> b.began
  /\ ~f.in_event /\ ~f.in_string /\ ~f.escaped /\ ~f.discarding
  /\ ~b.string /\ ~b.escape /\ ~b.deep /\ b.event = 0

(* Within an event the framer knows how deep it is, whether in a string or  *)
(* after a backslash, and whether the event is to be dropped.               *)
WithinEvent(f, b) ==
  /\ b.began /\ ~b.garbled
  /\ f.outer_seen /\ f.in_event
  /\ f.depth = Len(b.open)
  /\ Len(b.open) > MaxDepth => b.deep
  /\ f.in_string <=> b.string
  /\ f.escaped <=> b.escape
  /\ b.escape => b.string
  /\ f.discarding <=> (b.deep \/ b.event > MaxBytes)
  /\ b.event >= 1 /\ f.event >= 1
  /\ f.discarding => f.event >= 2
  /\ ~f.discarding => f.event = b.event

(* The framer f is where the writer b is.                                   *)
Follows(f, b) ==
  /\ f \in Framers /\ b \in Bars
  /\ f.irrecoverable <=> b.garbled
  /\ ~b.garbled /\ b.open = <<>> => BetweenEvents(f, b)
  /\ b.open # <<>> => WithinEvent(f, b)

(* The inductive invariant.                                                 *)
IInv == Follows(framer, bar) /\ ClicksFramed

(* The framer's count of an event's bytes, and its discarding, stay in step *)
(* with the writer's.                                                       *)
LEMMA KeptWithin ==
  ASSUME ClicksConstants, Follows(framer, bar), bar.open # <<>>
  PROVE  LET g == Kept(framer)
         IN  /\ g \in Framers /\ Untouched(framer, g)
             /\ g.depth = framer.depth
             /\ g.in_string = framer.in_string /\ g.escaped = framer.escaped
             /\ g.event >= 2
             /\ g.discarding <=> (bar.deep \/ Written > MaxBytes)
             /\ ~g.discarding => g.event = Written
<1> DEFINE g == Kept(framer)
<1>1. framer \in Framers /\ bar \in Bars /\ WithinEvent(framer, bar)
  BY DEF Follows
<1>2. /\ g \in Framers
      /\ g.event >= 1
      /\ g.discarding <=> (framer.discarding \/ framer.event = MaxBytes)
      /\ g.event = IF g.discarding THEN framer.event ELSE framer.event + 1
      /\ g.outer_seen = framer.outer_seen
      /\ g.in_event = framer.in_event
      /\ g.depth = framer.depth
      /\ g.in_string = framer.in_string
      /\ g.escaped = framer.escaped
      /\ g.irrecoverable = framer.irrecoverable
  BY <1>1, KeptByte DEF WithinEvent
<1> HIDE DEF g
<1>3. framer.event \in 0..MaxBytes /\ bar.event \in 0..(MaxBytes + 1)
      /\ MaxBytes \in Nat /\ MaxBytes >= 2
      /\ framer.discarding \in BOOLEAN /\ bar.deep \in BOOLEAN
      /\ g.discarding \in BOOLEAN
  BY <1>1, <1>2 DEF Framers, Bars, ClicksConstants
<1>4. Untouched(framer, g)
  BY <1>2 DEF Untouched
<1>5. CASE framer.discarding
  <2>1. g.discarding /\ g.event = framer.event
    BY <1>2, <1>5
  <2>2. bar.deep \/ Written > MaxBytes
    BY <1>1, <1>3, <1>5 DEF WithinEvent, Written
  <2>3. g.event >= 2
    BY <2>1, <1>1, <1>5 DEF WithinEvent
  <2> QED BY <1>2, <1>4, <2>1, <2>2, <2>3 DEF g
<1>6. CASE ~framer.discarding
  <2>1. ~bar.deep /\ bar.event <= MaxBytes /\ framer.event = bar.event
        /\ bar.event >= 1
    BY <1>1, <1>3, <1>6 DEF WithinEvent
  <2>2. Written = bar.event + 1
    BY <2>1, <1>3 DEF Written
  <2>3. CASE framer.event = MaxBytes
    BY <2>1, <2>2, <2>3, <1>2, <1>3, <1>4 DEF g
  <2>4. CASE framer.event # MaxBytes
    BY <2>1, <2>2, <2>4, <1>2, <1>3, <1>4, <1>6 DEF g
  <2> QED BY <2>3, <2>4
<1> QED BY <1>3, <1>5, <1>6

(* The brace that begins an event starts the framer afresh.                 *)
LEMMA BeginsEvent ==
  ASSUME ClicksConstants, NEW f \in Framers, ~f.in_string, ~f.escaped,
         ~f.discarding
  PROVE  LET g == InEvent(Kept([f EXCEPT !.event = 0, !.in_event = TRUE,
                                          !.depth = 1]), "lbrace")
         IN  /\ g.event = NoEvent
             /\ g.framer \in Framers
             /\ g.framer.in_event /\ g.framer.outer_seen = f.outer_seen
             /\ g.framer.irrecoverable = f.irrecoverable
             /\ g.framer.depth = 1 /\ g.framer.event = 1
             /\ ~g.framer.in_string /\ ~g.framer.escaped
             /\ ~g.framer.discarding
<1> DEFINE a == [f EXCEPT !.event = 0, !.in_event = TRUE, !.depth = 1]
           k == [f EXCEPT !.event = 1, !.in_event = TRUE, !.depth = 1]
<1>1. MaxBytes \in Nat /\ MaxBytes >= 2 /\ MaxDepth \in Nat /\ MaxDepth >= 1
  BY DEF ClicksConstants
<1>2. Kept(a) = k
  <2>1. a.event = 0 /\ a.discarding = f.discarding
    BY DEF Framers
  <2>2. [a EXCEPT !.event = 1] = k
    BY DEF Framers
  <2> HIDE DEF a, k
  <2> QED BY <2>1, <2>2, <1>1 DEF Kept
<1>3. /\ k \in Framers /\ k.in_event /\ k.outer_seen = f.outer_seen
      /\ k.irrecoverable = f.irrecoverable
      /\ k.depth = 1 /\ k.event = 1
      /\ ~k.in_string /\ ~k.escaped /\ ~k.discarding
  <2>1. k \in Framers
    <3>1. 1 \in 0..MaxBytes /\ 1 \in Nat
      BY <1>1
    <3> DEFINE I == 0..MaxBytes
    <3> HIDE DEF I
    <3>2. Framers = [outer_seen : BOOLEAN, in_event : BOOLEAN, depth : Nat,
                     in_string : BOOLEAN, escaped : BOOLEAN,
                     discarding : BOOLEAN, irrecoverable : BOOLEAN, event : I]
      BY DEF Framers, I
    <3>3. 1 \in I
      BY <3>1 DEF I
    <3> QED BY <3>1, <3>2, <3>3
  <2>2. /\ k.in_event /\ k.outer_seen = f.outer_seen
        /\ k.irrecoverable = f.irrecoverable
        /\ k.depth = 1 /\ k.event = 1
        /\ k.in_string = f.in_string /\ k.escaped = f.escaped
        /\ k.discarding = f.discarding
    BY DEF Framers
  <2> HIDE DEF k
  <2> QED BY <2>1, <2>2
<1> HIDE DEF a, k
<1>4. Opened(k, "lbrace") = k
  <2>1. Opened(k, "lbrace") = [k EXCEPT !.depth = k.depth,
                                   !.discarding =
                                     k.discarding \/ k.depth > MaxDepth]
    BY <1>3 DEF Opened
  <2>2. (k.discarding \/ k.depth > MaxDepth) = FALSE /\ k.discarding = FALSE
    BY <1>1, <1>3 DEF Framers
  <2>3. [k EXCEPT !.depth = k.depth, !.discarding = FALSE] = k
    BY <1>3, <2>2 DEF Framers
  <2> QED BY <2>1, <2>2, <2>3
<1>5. InEvent(k, "lbrace") = Goes(k)
  BY <1>3, <1>4 DEF InEvent, Opening
<1> QED BY <1>2, <1>3, <1>5 DEF Goes, a

(* A byte written outside any event.                                        *)
LEMMA OutsideStep ==
  ASSUME ClicksConstants, IInv, NEW byte \in Bytes, Read(byte), Write(byte),
         bar.open = <<>>, byte # "lbrace"
  PROVE  IInv'
<1>1. /\ framer \in Framers /\ bar \in Bars /\ ~bar.garbled
      /\ ~framer.irrecoverable /\ BetweenEvents(framer, bar)
  BY DEF IInv, Follows, Write, Bars, Framers
<1>2. byte \in Between
  BY DEF Write, Following
<1> DEFINE b == [bar EXCEPT !.began = bar.began \/ byte = "lbracket"]
           g == [framer EXCEPT !.outer_seen = TRUE]
<1>3. bar' = b /\ wanted' = NoEvent
  BY DEF Write
<1>4. /\ b \in Bars /\ b.open = <<>>
      /\ b.began = (bar.began \/ byte = "lbracket")
      /\ b.garbled = bar.garbled /\ b.string = bar.string
      /\ b.escape = bar.escape /\ b.event = bar.event /\ b.deep = bar.deep
  BY <1>1 DEF Bars
<1>5. /\ g \in Framers /\ g.outer_seen
      /\ g.in_event = framer.in_event /\ g.in_string = framer.in_string
      /\ g.escaped = framer.escaped /\ g.discarding = framer.discarding
      /\ g.irrecoverable = framer.irrecoverable
  BY <1>1 DEF Framers
<1> HIDE DEF b, g
<1>6. CASE bar.began
  <2>1. framer' = framer /\ got' = NoEvent /\ b.began = bar.began
    BY <1>1, <1>2, <1>4, <1>6
       DEF BetweenEvents, Between, Read, Feed, Goes, Spaces, Bars
  <2> QED BY <1>1, <1>3, <1>4, <2>1
          DEF IInv, Follows, BetweenEvents, ClicksFramed
<1>7. CASE ~bar.began /\ byte = "space"
  <2>1. framer' = framer /\ got' = NoEvent /\ b.began = bar.began
    BY <1>1, <1>4, <1>7 DEF BetweenEvents, Read, Feed, Goes, Spaces, Bars
  <2> QED BY <1>1, <1>3, <1>4, <2>1
          DEF IInv, Follows, BetweenEvents, ClicksFramed
<1>8. CASE ~bar.began /\ byte = "lbracket"
  <2>1. framer' = g /\ got' = NoEvent /\ b.began
    BY <1>1, <1>4, <1>8 DEF BetweenEvents, Read, Feed, Goes, Spaces, g
  <2> QED BY <1>1, <1>3, <1>4, <1>5, <2>1
          DEF IInv, Follows, BetweenEvents, ClicksFramed
<1> QED BY <1>2, <1>6, <1>7, <1>8 DEF Between

(* The brace that begins an event.                                          *)
LEMMA BeginStep ==
  ASSUME ClicksConstants, IInv, Read("lbrace"), Write("lbrace"), bar.open = <<>>
  PROVE  IInv'
<1>1. /\ framer \in Framers /\ bar \in Bars /\ ~bar.garbled
      /\ ~framer.irrecoverable /\ BetweenEvents(framer, bar)
  BY DEF IInv, Follows, Write, Bars, Framers
<1>2. bar.began
  BY DEF Write, Following, Between
<1>3. MaxBytes \in Nat /\ MaxBytes >= 2 /\ MaxDepth \in Nat /\ MaxDepth >= 1
  BY DEF ClicksConstants
<1>4. /\ got' = NoEvent
      /\ framer' \in Framers
      /\ framer'.in_event /\ framer'.outer_seen
      /\ ~framer'.irrecoverable
      /\ framer'.depth = 1 /\ framer'.event = 1
      /\ ~framer'.in_string /\ ~framer'.escaped /\ ~framer'.discarding
  <2> DEFINE r == InEvent(Kept([framer EXCEPT !.event = 0, !.in_event = TRUE,
                                              !.depth = 1]), "lbrace")
  <2>1. Feed(framer, "lbrace") = r
    BY <1>1, <1>2 DEF BetweenEvents, Feed, Spaces
  <2>2. framer.outer_seen
    BY <1>1, <1>2 DEF BetweenEvents
  <2>3. ~framer.in_string /\ ~framer.escaped /\ ~framer.discarding
    BY <1>1 DEF BetweenEvents
  <2>4. /\ r.event = NoEvent
        /\ r.framer \in Framers
        /\ r.framer.in_event /\ r.framer.outer_seen = framer.outer_seen
        /\ r.framer.irrecoverable = framer.irrecoverable
        /\ r.framer.depth = 1 /\ r.framer.event = 1
        /\ ~r.framer.in_string /\ ~r.framer.escaped
        /\ ~r.framer.discarding
    BY <1>1, <2>3, BeginsEvent
  <2> HIDE DEF r
  <2>5. framer' = r.framer /\ got' = r.event
    BY <2>1 DEF Read
  <2> QED BY <1>1, <2>2, <2>4, <2>5
<1> DEFINE b == [bar EXCEPT !.open = <<"lbrace">>, !.string = FALSE,
                            !.escape = FALSE, !.event = 1, !.deep = FALSE]
<1>5. Brackets("lbrace") = <<"lbrace">> /\ Written = 1 /\ Len(<<"lbrace">>) = 1
      /\ <<"lbrace">> \in Seq(Opening) /\ <<"lbrace">> # <<>>
  BY <1>1, <1>3 DEF Brackets, BetweenEvents, Opening, Written
<1>6. bar' = b /\ wanted' = NoEvent
  <2>1. (bar.deep \/ Len(<<"lbrace">>) > MaxDepth) = FALSE
    BY <1>1, <1>3, <1>5 DEF BetweenEvents
  <2>2. /\ bar.string = FALSE
        /\ (bar.string /\ "lbrace" = "backslash" /\ ~bar.escape) = FALSE
    BY <1>1 DEF BetweenEvents, Bars
  <2>3. wanted' = NoEvent
    BY <1>5 DEF Write
  <2>4. bar' = [bar EXCEPT
                  !.open = <<"lbrace">>,
                  !.string = IF "lbrace" = "quote" THEN @ = bar.escape ELSE @,
                  !.escape = bar.string /\ "lbrace" = "backslash" /\ ~@,
                  !.event = Written,
                  !.deep = bar.deep \/ Len(<<"lbrace">>) > MaxDepth]
    BY <1>5 DEF Write
  <2> QED BY <2>1, <2>2, <2>3, <2>4, <1>5, <1>1 DEF Bars
<1>7. /\ b \in Bars /\ b.began /\ ~b.garbled /\ b.open = <<"lbrace">>
      /\ ~b.string /\ ~b.escape /\ b.event = 1 /\ ~b.deep
  <2>1. b \in Bars
    <3>1. 1 \in 0..(MaxBytes + 1)
      BY <1>3
    <3> DEFINE I == 0..(MaxBytes + 1)
    <3> HIDE DEF I
    <3>2. Bars = [began : BOOLEAN, garbled : BOOLEAN, open : Seq(Opening),
                  string : BOOLEAN, escape : BOOLEAN, event : I, deep : BOOLEAN]
      BY DEF Bars, I
    <3>3. 1 \in I
      BY <3>1 DEF I
    <3> QED BY <1>1, <1>5, <3>2, <3>3
  <2>2. /\ b.began = bar.began /\ b.garbled = bar.garbled
        /\ b.open = <<"lbrace">>
        /\ ~b.string /\ ~b.escape /\ b.event = 1 /\ ~b.deep
    BY <1>1 DEF Bars
  <2> HIDE DEF b
  <2> QED BY <1>1, <1>2, <2>1, <2>2
<1> HIDE DEF b
<1>8. framer'.discarding <=> (b.deep \/ b.event > MaxBytes)
  BY <1>3, <1>4, <1>7 DEF Framers, Bars
<1>9. Follows(framer', b)
  <2>1. WithinEvent(framer', b)
    <3>1. framer'.depth = Len(b.open)
      BY <1>4, <1>5, <1>7
    <3>2. b.event >= 1 /\ framer'.event >= 1 /\ framer'.event = b.event
      BY <1>4, <1>7
    <3>3. b.began /\ ~b.garbled /\ framer'.outer_seen /\ framer'.in_event
      BY <1>4, <1>7
    <3>4. framer'.in_string <=> b.string
      BY <1>4, <1>7
    <3>5. framer'.escaped <=> b.escape
      BY <1>4, <1>7
    <3>6. b.escape => b.string
      BY <1>7
    <3>7. framer'.discarding => framer'.event >= 2
      BY <1>4
    <3>8. ~(Len(b.open) > MaxDepth)
      BY <1>3, <1>5, <1>7
    <3> QED BY <1>8, <3>1, <3>2, <3>3, <3>4, <3>5, <3>6, <3>7, <3>8
            DEF WithinEvent
  <2> QED BY <1>4, <1>5, <1>7, <2>1 DEF Follows
<1> QED BY <1>4, <1>6, <1>9
        DEF IInv, Follows, BetweenEvents, WithinEvent, ClicksFramed

(* Any other byte that leaves the event open, given the framer after it.    *)
LEMMA InnerStep ==
  ASSUME ClicksConstants, IInv, NEW byte \in Bytes, Write(byte),
         bar.open # <<>>,
         Brackets(byte) # <<>>, Brackets(byte) \in Seq(Opening),
         framer' \in Framers, got' = NoEvent,
         Untouched(framer, framer'),
         framer'.depth = Len(Brackets(byte)),
         framer'.in_string <=> IF byte = "quote" THEN bar.string = bar.escape
                               ELSE bar.string,
         framer'.escaped <=> bar.string /\ byte = "backslash" /\ ~bar.escape,
         framer'.event >= 2,
         framer'.discarding <=> \/ bar.deep \/ Written > MaxBytes
                                \/ Len(Brackets(byte)) > MaxDepth,
         ~framer'.discarding => framer'.event = Written
  PROVE  IInv'
<1>1. /\ framer \in Framers /\ bar \in Bars /\ ~bar.garbled
      /\ WithinEvent(framer, bar)
      /\ framer.irrecoverable <=> bar.garbled
  BY DEF IInv, Follows, Write
<1> DEFINE string == IF byte = "quote" THEN bar.string = bar.escape
                     ELSE bar.string
           escape == bar.string /\ byte = "backslash" /\ ~bar.escape
           deep == bar.deep \/ Len(Brackets(byte)) > MaxDepth
           b == [bar EXCEPT !.open = Brackets(byte), !.string = string,
                            !.escape = escape, !.event = Written,
                            !.deep = deep]
<1>2. bar' = b /\ wanted' = NoEvent
  BY <1>1 DEF Write
<1>3. Written \in 0..(MaxBytes + 1) /\ Written >= 1
  BY <1>1 DEF Written, WithinEvent, Bars, ClicksConstants
<1>4. string \in BOOLEAN /\ escape \in BOOLEAN /\ deep \in BOOLEAN
  BY <1>1 DEF Bars
<1>5. escape => string
  BY <1>1 DEF Bars
<1>6. framer'.discarding <=> deep \/ Written > MaxBytes
  OBVIOUS
<1>7. framer'.in_string <=> string
  OBVIOUS
<1>8. framer'.escaped <=> escape
  OBVIOUS
<1> HIDE DEF string, escape, deep
<1>9. b \in Bars
  <2> DEFINE I == 0..(MaxBytes + 1)
  <2> HIDE DEF I
  <2>1. Bars = [began : BOOLEAN, garbled : BOOLEAN, open : Seq(Opening),
                string : BOOLEAN, escape : BOOLEAN, event : I, deep : BOOLEAN]
    BY DEF Bars, I
  <2>2. Written \in I
    BY <1>3 DEF I
  <2> QED BY <1>1, <1>4, <2>1, <2>2
<1>10. /\ b.began = bar.began /\ b.garbled = bar.garbled
       /\ b.open = Brackets(byte)
       /\ b.string = string /\ b.escape = escape /\ b.event = Written
       /\ b.deep = deep
  BY <1>1 DEF Bars
<1> HIDE DEF b
<1>11. WithinEvent(framer', b)
  <2>1. b.began /\ ~b.garbled /\ framer'.outer_seen /\ framer'.in_event
    BY <1>1, <1>10 DEF WithinEvent, Untouched
  <2>2. framer'.in_string <=> b.string
    BY <1>7, <1>10
  <2>3. framer'.escaped <=> b.escape
    BY <1>8, <1>10
  <2>4. b.escape => b.string
    BY <1>5, <1>10
  <2>5. framer'.discarding <=> (b.deep \/ b.event > MaxBytes)
    BY <1>6, <1>10
  <2>6. b.event >= 1 /\ framer'.event >= 1
    BY <1>3, <1>10 DEF Framers
  <2>7. ~framer'.discarding => framer'.event = b.event
    BY <1>10
  <2>8. framer'.depth = Len(b.open)
    BY <1>10
  <2>9. framer'.discarding => framer'.event >= 2
    OBVIOUS
  <2>10. Len(b.open) > MaxDepth => b.deep
    BY <1>10 DEF deep
  <2> QED BY <2>1, <2>2, <2>3, <2>4, <2>5, <2>6, <2>7, <2>8, <2>9, <2>10
          DEF WithinEvent
<1>12. framer'.irrecoverable <=> b.garbled
  BY <1>1, <1>10 DEF Untouched
<1>13. Follows(framer', b)
  BY <1>9, <1>10, <1>11, <1>12 DEF Follows
<1> QED BY <1>2, <1>13
        DEF IInv, Follows, BetweenEvents, WithinEvent, ClicksFramed

(* A byte within an event is kept before it is looked at.                   *)
LEMMA FedWithin ==
  ASSUME ClicksConstants, IInv, NEW byte \in Bytes, Read(byte), Write(byte),
         bar.open # <<>>
  PROVE  LET k == Kept(framer)
         IN  /\ framer' = InEvent(k, byte).framer
             /\ got' = InEvent(k, byte).event
             /\ k \in Framers /\ Untouched(framer, k)
             /\ k.depth = Len(bar.open) /\ k.depth > 0
             /\ k.in_string <=> bar.string
             /\ k.escaped <=> bar.escape
             /\ k.event >= 2
             /\ k.discarding <=> (bar.deep \/ Written > MaxBytes)
             /\ Len(bar.open) > MaxDepth => bar.deep
             /\ ~k.discarding => k.event = Written
             /\ bar.open \in Seq(Opening)
             /\ bar.escape => bar.string
<1>1. /\ framer \in Framers /\ bar \in Bars /\ ~framer.irrecoverable
      /\ WithinEvent(framer, bar) /\ Follows(framer, bar)
  BY DEF IInv, Follows, Write
<1> DEFINE k == Kept(framer)
<1>2. Feed(framer, byte) = InEvent(k, byte)
  BY <1>1 DEF Feed, WithinEvent
<1>3. /\ k \in Framers /\ Untouched(framer, k)
      /\ k.depth = framer.depth
      /\ k.in_string = framer.in_string /\ k.escaped = framer.escaped
      /\ k.event >= 2
      /\ k.discarding <=> (bar.deep \/ Written > MaxBytes)
      /\ ~k.discarding => k.event = Written
  BY <1>1, KeptWithin
<1>4. framer' = InEvent(k, byte).framer /\ got' = InEvent(k, byte).event
  BY <1>2 DEF Read
<1> HIDE DEF k
<1>5. bar.open \in Seq(Opening) /\ Len(bar.open) > 0
  BY <1>1 DEF Bars
<1>6. k.depth = Len(bar.open) /\ k.depth > 0
  BY <1>1, <1>3, <1>5 DEF WithinEvent
<1>7. (k.in_string <=> bar.string) /\ (k.escaped <=> bar.escape)
  BY <1>1, <1>3 DEF WithinEvent
<1>8. (Len(bar.open) > MaxDepth => bar.deep) /\ (bar.escape => bar.string)
  BY <1>1 DEF WithinEvent
<1> QED BY <1>3, <1>4, <1>5, <1>6, <1>7, <1>8 DEF k

(* A byte of a string.                                                      *)
LEMMA TextStep ==
  ASSUME ClicksConstants, IInv, NEW byte \in Bytes, Read(byte), Write(byte),
         bar.open # <<>>, bar.string
  PROVE  IInv'
<1> DEFINE k == Kept(framer)
           g == InString(k, byte)
<1>1. /\ framer' = InEvent(k, byte).framer
      /\ got' = InEvent(k, byte).event
      /\ k \in Framers /\ Untouched(framer, k)
      /\ k.depth = Len(bar.open) /\ k.depth > 0
      /\ k.in_string <=> bar.string
      /\ k.escaped <=> bar.escape
      /\ k.event >= 2
      /\ k.discarding <=> (bar.deep \/ Written > MaxBytes)
      /\ Len(bar.open) > MaxDepth => bar.deep
      /\ ~k.discarding => k.event = Written
      /\ bar.open \in Seq(Opening)
  BY FedWithin
<1> HIDE DEF k
<1>2. InEvent(k, byte) = Goes(g)
  BY <1>1 DEF InEvent
<1>3. /\ g \in Framers /\ Fields(k, g)
      /\ g.depth = k.depth /\ g.discarding = k.discarding
      /\ g.escaped <=> (byte = "backslash" /\ ~k.escaped)
      /\ g.in_string <=> ~(byte = "quote" /\ ~k.escaped)
  BY <1>1, StringByte
<1> HIDE DEF g
<1>4. framer' = g /\ got' = NoEvent
  BY <1>1, <1>2 DEF Goes
<1>5. Brackets(byte) = bar.open
  BY DEF Brackets
<1>6. Untouched(framer, framer')
  BY <1>1, <1>3, <1>4 DEF Fields, Untouched
<1>7. bar \in Bars
  BY DEF IInv, Follows
<1>8. framer'.in_string <=> IF byte = "quote" THEN bar.string = bar.escape
                            ELSE bar.string
  BY <1>1, <1>3, <1>4, <1>7 DEF Bars
<1>9. framer'.escaped <=> bar.string /\ byte = "backslash" /\ ~bar.escape
  BY <1>1, <1>3, <1>4
<1>10. framer'.event >= 2 /\ (~framer'.discarding => framer'.event = Written)
  BY <1>1, <1>3, <1>4 DEF Fields
<1>11. framer'.discarding <=> \/ bar.deep \/ Written > MaxBytes
                              \/ Len(Brackets(byte)) > MaxDepth
  BY <1>1, <1>3, <1>4, <1>5
<1> QED BY <1>1, <1>3, <1>4, <1>5, <1>6, <1>8, <1>9, <1>10, <1>11, InnerStep

(* A byte outside strings that does not close the event, given the framer   *)
(* g that comes of it.                                                      *)
LEMMA PlainStep ==
  ASSUME ClicksConstants, IInv, NEW byte \in Bytes, Read(byte), Write(byte),
         bar.open # <<>>, ~bar.string, byte # "backslash",
         NEW g \in Framers, InEvent(Kept(framer), byte) = Goes(g),
         Fields(Kept(framer), g),
         Brackets(byte) # <<>>, Brackets(byte) \in Seq(Opening),
         g.depth = Len(Brackets(byte)),
         g.in_string <=> byte = "quote",
         g.escaped = Kept(framer).escaped,
         g.discarding <=> Kept(framer).discarding \/ g.depth > MaxDepth
  PROVE  IInv'
<1> DEFINE k == Kept(framer)
<1>1. /\ framer' = InEvent(k, byte).framer
      /\ got' = InEvent(k, byte).event
      /\ k \in Framers /\ Untouched(framer, k)
      /\ k.escaped <=> bar.escape
      /\ k.event >= 2
      /\ k.discarding <=> (bar.deep \/ Written > MaxBytes)
      /\ ~k.discarding => k.event = Written
      /\ bar.escape => bar.string
  BY FedWithin
<1>2. /\ InEvent(k, byte) = Goes(g) /\ Fields(k, g) /\ g.escaped = k.escaped
      /\ g.discarding <=> k.discarding \/ g.depth > MaxDepth
  OBVIOUS
<1> HIDE DEF k
<1>3. framer' = g /\ got' = NoEvent
  BY <1>1, <1>2 DEF Goes
<1>4. bar \in Bars
  BY DEF IInv, Follows
<1>5. Untouched(framer, framer')
  BY <1>1, <1>2, <1>3 DEF Fields, Untouched
<1>6. framer'.in_string <=> IF byte = "quote" THEN bar.string = bar.escape
                            ELSE bar.string
  BY <1>1, <1>3, <1>4 DEF Bars
<1>7. framer'.escaped <=> bar.string /\ byte = "backslash" /\ ~bar.escape
  BY <1>1, <1>2, <1>3
<1>8. framer'.event >= 2
  BY <1>1, <1>2, <1>3 DEF Fields
<1>9. framer'.discarding <=> \/ bar.deep \/ Written > MaxBytes
                             \/ Len(Brackets(byte)) > MaxDepth
  BY <1>1, <1>2, <1>3
<1>10. ~framer'.discarding => framer'.event = Written
  BY <1>1, <1>2, <1>3 DEF Fields
<1> QED BY <1>3, <1>5, <1>6, <1>7, <1>8, <1>9, <1>10, InnerStep

(* The last bracket that is open is closed: the event is over.              *)
LEMMA EndStep ==
  ASSUME ClicksConstants, IInv, NEW byte \in Closing, Read(byte), Write(byte),
         bar.open # <<>>, ~bar.string, Len(bar.open) = 1
  PROVE  IInv'
<1> DEFINE k == Kept(framer)
           c == [k EXCEPT !.depth = @ - 1]
           r == Reset(c)
           e == [c EXCEPT !.in_event = FALSE]
           b == [NewBar EXCEPT !.began = TRUE]
<1>1. /\ framer' = InEvent(k, byte).framer
      /\ got' = InEvent(k, byte).event
      /\ k \in Framers /\ Untouched(framer, k)
      /\ k.depth = Len(bar.open)
      /\ k.in_string <=> bar.string
      /\ k.escaped <=> bar.escape
      /\ k.discarding <=> (bar.deep \/ Written > MaxBytes)
      /\ ~k.discarding => k.event = Written
      /\ bar.escape => bar.string
      /\ bar.open \in Seq(Opening)
  <2>1. byte \in Bytes
    BY DEF Bytes
  <2> QED BY <2>1, FedWithin
<1> HIDE DEF k
<1>2. /\ framer \in Framers /\ bar \in Bars /\ framer.outer_seen
      /\ ~framer.irrecoverable
      /\ MaxBytes \in Nat /\ MaxDepth \in Nat
  BY DEF IInv, Follows, Write, WithinEvent, ClicksConstants
<1>3. /\ c \in Framers /\ Fields(k, c)
      /\ c.depth = 0
      /\ c.discarding = k.discarding
      /\ c.escaped = k.escaped /\ c.in_string = k.in_string
  BY <1>1 DEF Framers, Fields, Untouched
<1> HIDE DEF c
<1>4. InEvent(k, byte) = ClosedTo(c)
  BY <1>1 DEF InEvent, Opening, Closing, c
<1>5. /\ byte # "lbrace" /\ byte \notin Opening
      /\ Brackets(byte) = <<>>
  BY <1>1 DEF Closing, Opening, Brackets
<1>6. bar' = b /\ wanted' = IF Fits(Written, bar.deep) THEN Written ELSE NoEvent
  <2>1. (bar.deep \/ Len(<<>>) > MaxDepth) = bar.deep
    BY <1>2 DEF Bars
  <2> QED BY <1>5, <2>1 DEF Write
<1>7. /\ b \in Bars /\ b.began /\ ~b.garbled /\ b.open = <<>>
      /\ ~b.string /\ ~b.escape /\ ~b.deep /\ b.event = 0
  <2>1. 0 \in 0..(MaxBytes + 1) /\ <<>> \in Seq(Opening)
    BY <1>2
  <2>2. NewBar \in Bars
    BY <2>1 DEF NewBar, Bars
  <2>3. b \in Bars
    BY <2>2 DEF Bars
  <2>4. /\ b.began /\ ~b.garbled /\ b.open = <<>>
        /\ ~b.string /\ ~b.escape /\ ~b.deep /\ b.event = 0
    BY DEF NewBar
  <2> QED BY <2>3, <2>4
<1> HIDE DEF b
<1>8. CASE c.discarding
  <2>1. framer' = r /\ got' = NoEvent
    BY <1>1, <1>3, <1>4, <1>8 DEF ClosedTo, Goes
  <2>2. /\ r \in Framers /\ r.outer_seen /\ ~r.irrecoverable
        /\ ~r.in_event /\ ~r.in_string /\ ~r.escaped /\ ~r.discarding
    <3>1. 0 \in 0..MaxBytes
      BY <1>2
    <3>2. r \in Framers
      BY <1>3, <3>1 DEF Reset, Fresh, Framers
    <3>3. /\ r.outer_seen = c.outer_seen /\ ~r.irrecoverable
          /\ ~r.in_event /\ ~r.in_string /\ ~r.escaped /\ ~r.discarding
      BY DEF Reset, Fresh
    <3>4. c.outer_seen
      BY <1>1, <1>2, <1>3 DEF Fields, Untouched
    <3> QED BY <3>2, <3>3, <3>4
  <2>3. wanted' = NoEvent
    <3>1. bar.deep \/ Written > MaxBytes
      BY <1>1, <1>3, <1>8
    <3>2. Written \in Nat
      BY <1>2 DEF Written, Bars
    <3>3. ~Fits(Written, bar.deep)
      BY <1>2, <3>1, <3>2 DEF Fits
    <3> QED BY <1>6, <3>3
  <2> HIDE DEF r
  <2>4. Follows(framer', b)
    BY <1>7, <2>1, <2>2 DEF Follows, BetweenEvents
  <2> QED BY <1>6, <2>1, <2>3, <2>4
          DEF IInv, Follows, BetweenEvents, WithinEvent, ClicksFramed
<1>9. CASE ~c.discarding
  <2>1. framer' = e /\ got' = c.event
    BY <1>1, <1>3, <1>4, <1>9 DEF ClosedTo
  <2>2. /\ e \in Framers /\ e.outer_seen = c.outer_seen
        /\ e.irrecoverable = c.irrecoverable
        /\ ~e.in_event /\ e.in_string = c.in_string
        /\ e.escaped = c.escaped /\ e.discarding = c.discarding
    BY <1>3 DEF Framers
  <2> HIDE DEF e
  <2>3. wanted' = c.event
    BY <1>1, <1>2, <1>3, <1>6, <1>9 DEF Fits, Fields, Written, Bars
  <2>4. Follows(framer', b)
    BY <1>1, <1>2, <1>3, <1>7, <1>9, <2>1, <2>2
       DEF Follows, BetweenEvents, Fields, Untouched
  <2> QED BY <1>6, <2>1, <2>3, <2>4
          DEF IInv, Follows, BetweenEvents, WithinEvent, ClicksFramed
<1> QED BY <1>8, <1>9

(* A byte within an event, outside strings.                                 *)
LEMMA StructureStep ==
  ASSUME ClicksConstants, IInv, NEW byte \in Bytes, Read(byte), Write(byte),
         bar.open # <<>>, ~bar.string
  PROVE  IInv'
<1> DEFINE k == Kept(framer)
<1>1. /\ k \in Framers /\ k.event >= 2
      /\ k.depth = Len(bar.open) /\ k.depth > 0
      /\ k.in_string <=> bar.string
      /\ k.discarding <=> (bar.deep \/ Written > MaxBytes)
      /\ Len(bar.open) > MaxDepth => bar.deep
      /\ bar.open \in Seq(Opening)
  BY FedWithin
<1>2. MaxDepth \in Nat
  BY DEF ClicksConstants
<1>3. byte \in {"x", "quote"} \cup Opening \cup Closing
  BY DEF Write, Following, Within
<1> HIDE DEF k
<1>4. CASE byte = "x"
  <2>1. InEvent(k, byte) = Goes(k) /\ Brackets(byte) = bar.open
    BY <1>1, <1>4 DEF InEvent, Brackets, Opening, Closing
  <2>2. Fields(k, k) /\ (k.discarding <=> k.discarding \/ k.depth > MaxDepth)
    BY <1>1 DEF Fields, Untouched
  <2> QED BY <1>1, <1>4, <2>1, <2>2, PlainStep DEF k
<1>5. CASE byte = "quote"
  <2> DEFINE g == [k EXCEPT !.in_string = TRUE]
  <2>1. InEvent(k, byte) = Goes(g) /\ Brackets(byte) = bar.open
    BY <1>1, <1>5 DEF InEvent, Brackets, Opening, Closing
  <2>2. /\ g \in Framers /\ Fields(k, g)
        /\ g.depth = k.depth /\ g.discarding = k.discarding
        /\ g.escaped = k.escaped /\ g.in_string
    BY <1>1 DEF Framers, Fields, Untouched
  <2> HIDE DEF g
  <2>3. g.discarding <=> k.discarding \/ g.depth > MaxDepth
    BY <1>1, <2>2
  <2> QED BY <1>1, <1>5, <2>1, <2>2, <2>3, PlainStep DEF k
<1>6. CASE byte \in Opening
  <2> DEFINE g == Opened(k, byte)
  <2>1. /\ InEvent(k, byte) = Goes(g)
        /\ Brackets(byte) = Append(bar.open, byte)
    BY <1>1, <1>6 DEF InEvent, Brackets, Opening
  <2>2. /\ g \in Framers /\ Fields(k, g)
        /\ g.depth = k.depth + 1
        /\ g.discarding <=> (k.discarding \/ k.depth + 1 > MaxDepth)
        /\ g.escaped = k.escaped /\ g.in_string = k.in_string
    BY <1>1, OpeningByte
  <2> HIDE DEF g
  <2>3. /\ Append(bar.open, byte) \in Seq(Opening)
        /\ Append(bar.open, byte) # <<>>
        /\ Len(Append(bar.open, byte)) = g.depth
    BY <1>1, <1>6, <2>2
  <2>4. byte # "quote" /\ byte # "backslash"
    BY <1>6 DEF Opening
  <2>5. g.in_string <=> byte = "quote"
    BY <1>1, <2>2, <2>4
  <2>6. g.discarding <=> k.discarding \/ g.depth > MaxDepth
    BY <2>2
  <2> QED BY <2>1, <2>2, <2>3, <2>4, <2>5, <2>6, PlainStep DEF k
<1>7. CASE byte \in Closing /\ Len(bar.open) = 1
  BY <1>7, EndStep
<1>8. CASE byte \in Closing /\ Len(bar.open) # 1
  <2> DEFINE g == [k EXCEPT !.depth = @ - 1]
             inner == SubSeq(bar.open, 1, Len(bar.open) - 1)
  <2>1. /\ g \in Framers /\ Fields(k, g)
        /\ g.depth = k.depth - 1 /\ g.discarding = k.discarding
        /\ g.escaped = k.escaped /\ g.in_string = k.in_string
    BY <1>1 DEF Framers, Fields, Untouched
  <2>2. byte # "quote" /\ byte # "backslash" /\ byte \notin Opening
    BY <1>8 DEF Opening, Closing
  <2>3. /\ InEvent(k, byte) = ClosedTo(g)
        /\ Brackets(byte) = inner
    BY <1>1, <1>8, <2>2 DEF InEvent, Brackets
  <2> HIDE DEF g
  <2>4. InEvent(k, byte) = Goes(g)
    BY <1>1, <1>8, <2>1, <2>3 DEF ClosedTo
  <2>5. inner \in Seq(Opening) /\ Len(inner) = Len(bar.open) - 1
    BY <1>1
  <2> HIDE DEF inner
  <2>6. inner # <<>> /\ g.depth = Len(inner)
    <3>1. Len(bar.open) \in Nat /\ Len(bar.open) > 0
      BY <1>1
    <3>2. Len(bar.open) # 1
      BY <1>8
    <3>3. Len(inner) = Len(bar.open) - 1
      BY <2>5
    <3>4. Len(inner) > 0
      <4>1. \A n \in Nat : n > 0 /\ n # 1 => n - 1 > 0
        OBVIOUS
      <4> QED BY <3>1, <3>2, <3>3, <4>1
    <3> QED BY <1>1, <2>1, <3>3, <3>4
  <2>7. g.in_string <=> byte = "quote"
    BY <1>1, <2>1, <2>2
  <2>8. g.discarding <=> k.discarding \/ g.depth > MaxDepth
    BY <1>1, <1>2, <2>1, <2>5, <2>6
  <2> QED BY <2>1, <2>2, <2>3, <2>4, <2>5, <2>6, <2>7, <2>8, PlainStep DEF k
<1> QED BY <1>3, <1>4, <1>5, <1>6, <1>7, <1>8

(* The bar writes something else between two events, or has done so.        *)
LEMMA GarbleStep ==
  ASSUME ClicksConstants, IInv, NEW byte \in Bytes, Read(byte), Garble(byte),
         ~bar.garbled
  PROVE  IInv'
<1> DEFINE b == [NewBar EXCEPT !.garbled = TRUE]
           g == [framer EXCEPT !.irrecoverable = TRUE]
<1>1. /\ framer \in Framers /\ bar \in Bars /\ ~framer.irrecoverable
      /\ BetweenEvents(framer, bar) /\ MaxBytes \in Nat
  BY DEF IInv, Follows, Garble, ClicksConstants
<1>2. bar' = b /\ wanted' = NoEvent /\ byte \notin Between
  BY DEF Garble
<1>3. framer' = g /\ got' = NoEvent
  <2>1. Feed(framer, byte) = Irrecoverable(framer)
    BY <1>1, <1>2 DEF Feed, BetweenEvents, Between, Spaces
  <2> QED BY <2>1 DEF Read, Irrecoverable, Goes
<1>4. g \in Framers /\ g.irrecoverable
  BY <1>1 DEF Framers
<1>5. b \in Bars /\ b.garbled /\ b.open = <<>>
  <2>1. 0 \in 0..(MaxBytes + 1) /\ <<>> \in Seq(Opening)
    BY <1>1
  <2>2. NewBar \in Bars
    BY <2>1 DEF NewBar, Bars
  <2>3. b \in Bars
    BY <2>2 DEF Bars
  <2>4. b.garbled /\ b.open = <<>>
    BY DEF NewBar
  <2> QED BY <2>3, <2>4
<1> HIDE DEF b, g
<1>6. Follows(g, b)
  BY <1>4, <1>5 DEF Follows
<1> QED BY <1>2, <1>3, <1>6
        DEF IInv, Follows, BetweenEvents, WithinEvent, ClicksFramed

(* After something else was written, the framer stays irrecoverable.        *)
LEMMA BabbleStep ==
  ASSUME ClicksConstants, IInv, NEW byte \in Bytes, Read(byte), bar.garbled,
         Garble(byte) \/ Babble
  PROVE  IInv'
<1>1. framer.irrecoverable /\ bar.open = <<>> /\ MaxBytes \in Nat
  BY DEF IInv, Follows, WithinEvent, ClicksConstants
<1>2. framer' = framer /\ got' = NoEvent
  BY <1>1 DEF Read, Feed, Goes
<1>3. wanted' = NoEvent /\ bar'.garbled /\ bar'.open = <<>> /\ bar' \in Bars
  <2>1. CASE Babble
    BY <1>1, <2>1 DEF Babble, IInv, Follows
  <2>2. CASE Garble(byte)
    <3>1. 0 \in 0..(MaxBytes + 1) /\ <<>> \in Seq(Opening)
      BY <1>1
    <3>2. NewBar \in Bars
      BY <3>1 DEF NewBar, Bars
    <3>3. [NewBar EXCEPT !.garbled = TRUE] \in Bars
      BY <3>2 DEF Bars
    <3>4. /\ [NewBar EXCEPT !.garbled = TRUE].garbled
          /\ [NewBar EXCEPT !.garbled = TRUE].open = <<>>
      BY DEF NewBar
    <3> QED BY <2>2, <3>3, <3>4 DEF Garble
  <2> QED BY <2>1, <2>2
<1>4. framer \in Framers
  BY DEF IInv, Follows
<1>5. Follows(framer', bar')
  BY <1>1, <1>2, <1>3, <1>4 DEF Follows
<1> QED BY <1>2, <1>3, <1>5
        DEF IInv, Follows, BetweenEvents, WithinEvent, ClicksFramed

(* At first nothing was written and nothing read.                           *)
LEMMA IInvInit == ASSUME ClicksConstants, Init PROVE IInv
<1>1. MaxBytes \in Nat
  BY DEF ClicksConstants
<1>2. 0 \in 0..(MaxBytes + 1) /\ 0 \in 0..MaxBytes /\ <<>> \in Seq(Opening)
  BY <1>1
<1>3. NewBar \in Bars /\ Fresh \in Framers
  BY <1>2 DEF NewBar, Bars, Fresh, Framers
<1>4. /\ ~Fresh.irrecoverable /\ ~NewBar.garbled /\ NewBar.open = <<>>
      /\ BetweenEvents(Fresh, NewBar)
  BY DEF Fresh, NewBar, BetweenEvents
<1> QED BY <1>3, <1>4 DEF Init, IInv, Follows, ClicksFramed

(* Every byte keeps framer and writer in step, whichever it is.             *)
LEMMA IInvNext == ASSUME ClicksConstants, IInv, [Next]_vars PROVE IInv'
<1>1. CASE Next
  <2>1. PICK byte \in Bytes :
          Read(byte) /\ (Write(byte) \/ Garble(byte) \/ Babble)
    BY <1>1 DEF Next
  <2>2. CASE Write(byte) /\ bar.open = <<>> /\ byte # "lbrace"
    BY <2>1, <2>2, OutsideStep
  <2>3. CASE Write(byte) /\ bar.open = <<>> /\ byte = "lbrace"
    BY <2>1, <2>3, BeginStep
  <2>4. CASE Write(byte) /\ bar.open # <<>> /\ bar.string
    BY <2>1, <2>4, TextStep
  <2>5. CASE Write(byte) /\ bar.open # <<>> /\ ~bar.string
    BY <2>1, <2>5, StructureStep
  <2>6. CASE Garble(byte) /\ ~bar.garbled
    BY <2>1, <2>6, GarbleStep
  <2>7. CASE (Garble(byte) \/ Babble) /\ bar.garbled
    BY <2>1, <2>7, BabbleStep
  <2> QED BY <2>1, <2>2, <2>3, <2>4, <2>5, <2>6, <2>7 DEF Babble
<1>2. CASE UNCHANGED vars
  BY <1>2 DEF vars, IInv, Follows, BetweenEvents, WithinEvent, ClicksFramed
<1> QED BY <1>1, <1>2

(* Every event of the bar within the limits is dispatched at its last byte, *)
(* and nothing else is (click.c), for all limits and however the bar nests. *)
THEOREM ClicksAreFramed == ASSUME ClicksConstants PROVE Spec => []ClicksFramed
<1>1. Init => IInv
  BY IInvInit
<1>2. IInv /\ [Next]_vars => IInv'
  BY IInvNext
<1>3. IInv => ClicksFramed
  BY DEF IInv
<1> QED BY <1>1, <1>2, <1>3, PTL DEF Spec
=============================================================================
