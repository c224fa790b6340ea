------------------------------ MODULE TimerHeap ------------------------------
(***************************************************************************)
(* src/src/timer.c: the binary heap of timers in an array, with the index  *)
(* of its slot kept in every timer so that it can be cancelled in place.   *)
(* items is the array (from 1 here), each slot a timer.  What an inactive  *)
(* timer's fields hold matters only for the one pop_due just returned,     *)
(* which may be rescheduled; the fields of the others are cleared.         *)
(***************************************************************************)
EXTENDS Integers, Sequences, FiniteSets

CONSTANTS
  Timers,
  NoTimer,
  Intervals,  (* the intervals timers are added with, 0 for one shot        *)
  MaxTime,    (* UINT64_MAX, the last representable time                    *)
  MaxSequence (* bound on heap->next_sequence, which never wraps in fact    *)

TimerHeapConstants ==
  /\ NoTimer \notin Timers
  /\ Intervals \subseteq Nat
  /\ MaxTime \in Nat
  /\ MaxSequence \in Nat

VARIABLES
  items,         (* heap->items and, as its length, heap->len               *)
  tm,            (* the fields of each timer                                *)
  next_sequence, (* heap->next_sequence                                     *)
  popped         (* what the last call of pop_due returned, or NoTimer      *)

vars == <<items, tm, next_sequence, popped>>

Inactive == [deadline |-> 0, interval |-> 0, sequence |-> 0, heap_index |-> 0,
             active |-> FALSE]

(* timer_before                                                            *)
Before(left, right) ==
  \/ left.deadline < right.deadline
  \/ left.deadline = right.deadline /\ left.sequence < right.sequence

-----------------------------------------------------------------------------
(* A heap h has an array and the timers' fields.                           *)

At(h, i) == h.tm[h.items[i]]

(* timer_swap                                                              *)
Swap(h, i, j) ==
  [items |-> [h.items EXCEPT ![i] = h.items[j], ![j] = h.items[i]],
   tm |-> [h.tm EXCEPT ![h.items[j]].heap_index = i,
                       ![h.items[i]].heap_index = j]]

RECURSIVE SiftUp(_, _)
SiftUp(h, i) ==
  IF i > 1 /\ Before(At(h, i), At(h, i \div 2))
  THEN SiftUp(Swap(h, i, i \div 2), i \div 2)
  ELSE h

(* The earliest of a slot and its children.                                *)
Earliest(h, i) ==
  CHOOSE e \in {i, 2 * i, 2 * i + 1} \cap (1..Len(h.items)) :
    \A c \in {i, 2 * i, 2 * i + 1} \cap (1..Len(h.items)) :
      ~ Before(At(h, c), At(h, e))

RECURSIVE SiftDown(_, _)
SiftDown(h, i) ==
  LET e == Earliest(h, i)
  IN  IF e = i THEN h ELSE SiftDown(Swap(h, i, e), e)

Pushed(h, t, d, interval, sequence) ==
  LET n == Len(h.items) + 1
  IN  SiftUp([items |-> Append(h.items, t),
              tm |-> [h.tm EXCEPT ![t] =
                        [deadline |-> d, interval |-> interval,
                         sequence |-> sequence, heap_index |-> n,
                         active |-> TRUE]]],
             n)

(* Faulty variant: the moved timer is only ever sifted down.               *)
ResiftDown(h, i) == SiftDown(h, i)

Resift(h, i) ==
  IF i > 1 /\ Before(At(h, i), At(h, i \div 2))
  THEN SiftUp(h, i)
  ELSE SiftDown(h, i)

(* i3sd_timer_cancel: the last timer takes the slot of the cancelled one.  *)
Without(h, t) ==
  LET i    == h.tm[t].heap_index
      last == Len(h.items)
      cut  == [items |-> SubSeq(h.items, 1, last - 1),
               tm |-> [h.tm EXCEPT ![t].active = FALSE]]
      moved == [items |-> [cut.items EXCEPT ![i] = h.items[last]],
                tm |-> [cut.tm EXCEPT ![h.items[last]].heap_index = i]]
  IN  IF i = last THEN cut ELSE Resift(moved, i)

heap == [items |-> items, tm |-> tm]

(* The fields of the timers a caller can no longer use are cleared.        *)
Become(h, returned) ==
  /\ items' = h.items
  /\ tm' = [t \in Timers |->
              IF h.tm[t].active \/ t = returned THEN h.tm[t] ELSE Inactive]
  /\ popped' = returned

-----------------------------------------------------------------------------
(* The operations.                                                         *)

Init ==
  /\ items = <<>>
  /\ tm = [t \in Timers |-> Inactive]
  /\ next_sequence = 0
  /\ popped = NoTimer

(* i3sd_timer_add                                                          *)
Add(t, d, interval) ==
  /\ ~ tm[t].active
  /\ next_sequence < MaxSequence
  /\ next_sequence' = next_sequence + 1
  /\ Become(Pushed(heap, t, d, interval, next_sequence'), NoTimer)

Cancel(t) ==
  /\ tm[t].active
  /\ Become(Without(heap, t), NoTimer)
  /\ UNCHANGED next_sequence

(* i3sd_timer_pop_due                                                      *)
PopDue(now) ==
  /\ UNCHANGED next_sequence
  /\ IF items = <<>> \/ tm[items[1]].deadline > now
     THEN Become(heap, NoTimer)
     ELSE Become(Without(heap, items[1]), items[1])

(* Faulty variant: the sum is not checked.                                 *)
FitsAlways(t, periods) == TRUE

(* The next deadline is representable.                                     *)
Fits(t, periods) == periods <= (MaxTime - tm[t].deadline) \div tm[t].interval

(* i3sd_timer_reschedule_fixed of the timer pop_due returned; without room *)
(* for the deadline the caller faults the block and the timer is gone.     *)
Reschedule(now) ==
  LET t == popped
      periods == IF now >= tm[t].deadline
                 THEN (now - tm[t].deadline) \div tm[t].interval + 1 ELSE 1
  IN  /\ popped # NoTimer
      /\ tm[popped].interval # 0
      /\ \/ /\ Fits(popped, periods)
            /\ next_sequence < MaxSequence
            /\ next_sequence' = next_sequence + 1
            /\ Become(Pushed(heap, t, tm[t].deadline + periods * tm[t].interval,
                             tm[t].interval, next_sequence'), NoTimer)
         \/ /\ ~ Fits(popped, periods)
            /\ Become(heap, NoTimer)
            /\ UNCHANGED next_sequence

Next ==
  \/ \E t \in Timers, d \in 0..MaxTime, i \in Intervals : Add(t, d, i)
  \/ \E t \in Timers : Cancel(t)
  \/ \E now \in 0..MaxTime : PopDue(now) \/ Reschedule(now)

Spec == Init /\ [][Next]_vars

-----------------------------------------------------------------------------
(* Properties.                                                             *)

TypeOK ==
  /\ items \in Seq(Timers)
  /\ tm \in [Timers -> [deadline : 0..MaxTime, interval : Intervals \cup {0},
                        sequence : 0..MaxSequence, heap_index : Nat,
                        active : BOOLEAN]]
  /\ next_sequence \in 0..MaxSequence
  /\ popped \in Timers \cup {NoTimer}

(* The active timers, earliest first.                                      *)
Active == {t \in Timers : tm[t].active}

InOrder ==
  [i \in 1..Cardinality(Active) |->
     CHOOSE t \in Active :
       Cardinality({u \in Active : Before(tm[u], tm[t])}) = i - 1]

Queue == INSTANCE TimerQueue WITH
  queue <- InOrder,
  deadline <- [t \in Timers |-> IF tm[t].active THEN tm[t].deadline ELSE 0]

(* The array implements the queue: after any mix of adding, cancelling,    *)
(* popping and rescheduling, pop_due returns the earliest due timer, and   *)
(* the one added first among equals.                                       *)
QueueSpec == Queue!Spec
=============================================================================
