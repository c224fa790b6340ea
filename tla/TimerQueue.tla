----------------------------- MODULE TimerQueue -----------------------------
(***************************************************************************)
(* What timer.c promises its callers: a queue of timers by deadline, first *)
(* come first served among equal deadlines, from which any timer can be    *)
(* taken out and the first one taken when it is due.                       *)
(***************************************************************************)
EXTENDS Integers, Sequences

CONSTANTS
  Timers,     (* the timers that can be queued                              *)
  NoTimer,    (* pop_due found nothing due                                  *)
  MaxTime     (* the last representable time                                *)

VARIABLES
  queue,      (* the queued timers, earliest first                          *)
  deadline,   (* deadline[t] of the queued timers, 0 for the others         *)
  popped      (* what the last call of pop_due returned                     *)

vars == <<queue, deadline, popped>>

Queued == {queue[i] : i \in DOMAIN queue}

(* How many timers are served before one added now for deadline d.         *)
Ahead(d) == {i \in DOMAIN queue : deadline[queue[i]] <= d}

Add(t, d) ==
  /\ t \notin Queued
  /\ \E n \in 0..Len(queue) :
       /\ Ahead(d) = 1..n
       /\ queue' = SubSeq(queue, 1, n) \o <<t>> \o SubSeq(queue, n + 1, Len(queue))
  /\ deadline' = [deadline EXCEPT ![t] = d]
  /\ popped' = NoTimer

Remove(i) ==
  /\ queue' = SubSeq(queue, 1, i - 1) \o SubSeq(queue, i + 1, Len(queue))
  /\ deadline' = [deadline EXCEPT ![queue[i]] = 0]

Cancel(i) ==
  /\ Remove(i)
  /\ popped' = NoTimer

PopDue(now) ==
  /\ queue # <<>>
  /\ deadline[Head(queue)] <= now
  /\ Remove(1)
  /\ popped' = Head(queue)

NothingDue(now) ==
  /\ queue # <<>> => deadline[Head(queue)] > now
  /\ popped' = NoTimer
  /\ UNCHANGED <<queue, deadline>>

(* The timer pop_due returned is not queued again.                         *)
LetGo ==
  /\ popped # NoTimer
  /\ popped' = NoTimer
  /\ UNCHANGED <<queue, deadline>>

Init ==
  /\ queue = <<>>
  /\ deadline = [t \in Timers |-> 0]
  /\ popped = NoTimer

Next ==
  \/ \E t \in Timers, d \in 0..MaxTime : Add(t, d)
  \/ \E i \in DOMAIN queue : Cancel(i)
  \/ \E now \in 0..MaxTime : PopDue(now) \/ NothingDue(now)
  \/ LetGo

Spec == Init /\ [][Next]_vars
=============================================================================
