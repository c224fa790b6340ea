--------------------------- MODULE RealtimeProofs ---------------------------
(***************************************************************************)
(* Observers hear of a jump of the wall clock before the timers it made     *)
(* due, for any timers, observers, blocks, clocks and budget.               *)
(***************************************************************************)
EXTENDS Realtime, TLAPS

(* What is owed is owed to observers there are, and while it is, the jump   *)
(* is either still in the kernel or noted for the next processing, or all   *)
(* who are to hear are on the walk; nothing is owed once timers run.        *)
OwedToObservers == owed \subseteq unheard /\ unheard \subseteq observers

JumpKept ==
  owed # {} /\ pc \notin {"notify", "dispatch"} => clock_changed \/ moved

OnTheWalk == pc = "notify" => owed \subseteq walk

NothingOwed ==
  /\ pc = "dispatch" => owed = {}
  /\ owed = {} => early = {}

IInv == OwedToObservers /\ JumpKept /\ OnTheWalk /\ NothingOwed

-----------------------------------------------------------------------------
(* Ticks, jumps and what the program does not say of them.                  *)
LEMMA JumpInv ==
  ASSUME IInv, NEW w \in 0..MaxWall, Jump(w)
  PROVE  IInv'
<1>1. /\ moved' = (moved \/ cancelable)
      /\ unheard' = IF cancelable THEN observers ELSE unheard
      /\ owed' = IF cancelable /\ ~Processing THEN observers ELSE owed
      /\ owed' = {} => early' = {}
      /\ UNCHANGED <<observers, pc, walk, clock_changed>>
  BY DEF Jump, registered, loop
<1> QED BY <1>1 DEF IInv, OwedToObservers, JumpKept, OnTheWalk, NothingOwed,
           Processing

(* What a callback leaves is still owed to observers there are.             *)
LEMMA HeardInv ==
  ASSUME IInv, NEW told, Heard(told),
         UNCHANGED <<pc, clock_changed, moved>>,
         pc = "notify" => walk' = walk \ told
  PROVE  IInv'
<1>1. /\ unheard' = (unheard \cap observers') \ told
      /\ owed' = (owed \cap observers') \ told
      /\ owed' = {} => early' = {}
  BY DEF Heard
<1> QED BY <1>1 DEF IInv, OwedToObservers, JumpKept, OnTheWalk, NothingOwed

(* Arming keeps a jump that settime reports, and closing forgets one only   *)
(* if nobody is left to hear of it.                                         *)
LEMMA ReconcileInv ==
  ASSUME IInv, Close \/ CreateFails \/ Arm
  PROVE  IInv'
<1>1. CASE Close
  <2>1. observers = {} /\ UNCHANGED <<observers, unheard, owed, early>>
        /\ pc' = "wait"
    BY <1>1 DEF Close, Needed, registered, history
  <2> QED BY <2>1 DEF IInv, OwedToObservers, JumpKept, OnTheWalk, NothingOwed
<1>2. CASE CreateFails
  <2>1. pc = "reconcile" /\ pc' = "wait"
        /\ UNCHANGED <<observers, unheard, owed, early, clock_changed, moved>>
    BY <1>2 DEF CreateFails, registered, history, kernel
  <2> QED BY <2>1 DEF IInv, OwedToObservers, JumpKept, OnTheWalk, NothingOwed
<1>3. CASE Arm
  <2>1. /\ pc = "reconcile" /\ pc' = "wait"
        /\ UNCHANGED <<observers, unheard, owed, early>>
    BY <1>3 DEF Arm, registered, history
  <2>2. \/ clock_changed' = Reported
        \/ UNCHANGED <<clock_changed, moved>>
    BY <1>3 DEF Arm
  <2>3. clock_changed \/ moved => clock_changed' \/ moved'
    BY <2>2 DEF Reported
  <2> QED BY <2>1, <2>3 DEF IInv, OwedToObservers, JumpKept, OnTheWalk,
             NothingOwed
<1> QED BY <1>1, <1>2, <1>3

(* A processing puts everybody on the walk, if there was a jump.            *)
LEMMA ProcessInv ==
  ASSUME IInv, ClockEvent \/ LateProcess
  PROVE  IInv'
<1>1. /\ pc \in {"events", "late"} /\ pc' = "notify"
      /\ walk' = Announced
      /\ UNCHANGED <<observers, unheard, owed, early>>
  BY DEF ClockEvent, LateProcess, Process, registered, history
<1> QED BY <1>1 DEF IInv, OwedToObservers, JumpKept, OnTheWalk, NothingOwed,
           Announced

(* The rest of the turn: where the loop goes next.                          *)
LEMMA TurnInv ==
  ASSUME IInv, \/ Wake \/ EventsDone \/ LateDone \/ NotifyDone
               \/ DispatchDone \/ NextTurn
  PROVE  IInv'
<1>1. UNCHANGED <<observers, unheard, owed, early, clock_changed, moved, walk>>
  BY DEF Wake, EventsDone, LateDone, NotifyDone, DispatchDone, NextTurn,
         registered, history, kernel
<1>2. CASE NotifyDone
  <2>1. pc = "notify" /\ walk = {} /\ pc' = "dispatch"
    BY <1>2 DEF NotifyDone
  <2> QED BY <1>1, <2>1 DEF IInv, OwedToObservers, JumpKept, OnTheWalk,
             NothingOwed
<1>3. CASE DispatchDone
  <2>1. pc = "dispatch" /\ pc' \in {"timers", "late"}
    BY <1>3 DEF DispatchDone
  <2> QED BY <1>1, <2>1 DEF IInv, OwedToObservers, JumpKept, OnTheWalk,
             NothingOwed
<1>4. CASE Wake \/ EventsDone \/ LateDone \/ NextTurn
  <2>1. /\ pc \notin {"notify", "dispatch"}
        /\ pc' \notin {"notify", "dispatch"}
    BY <1>4 DEF Wake, EventsDone, LateDone, NextTurn
  <2> QED BY <1>1, <2>1 DEF IInv, OwedToObservers, JumpKept, OnTheWalk,
             NothingOwed
<1> QED BY <1>2, <1>3, <1>4

(* Callbacks of observers, of timers and of everything else.                *)
LEMMA CallbackInv ==
  ASSUME IInv,
         \/ \E o \in Observers : Notify(o)
         \/ \E t \in Timers : PopDue(t)
         \/ \E b \in Blocks : OtherCallback(b)
  PROVE  IInv'
<1>1. CASE \E o \in Observers : Notify(o)
  <2>1. PICK o \in Observers : Notify(o)
    BY <1>1
  <2>2. /\ pc = "notify" /\ walk' = walk \ {o}
        /\ UNCHANGED <<pc, clock_changed, moved>>
    BY <2>1 DEF Notify, kernel
  <2>3. CASE o \in observers
    <3>1. Heard({o})
      BY <2>1, <2>3 DEF Notify
    <3> QED BY <2>2, <3>1, HeardInv
  <2>4. CASE o \notin observers
    <3>1. UNCHANGED <<observers, unheard, owed, early>>
      BY <2>1, <2>4 DEF Notify, registered, history
    <3> QED BY <2>2, <2>4, <3>1 DEF IInv, OwedToObservers, JumpKept, OnTheWalk,
               NothingOwed
  <2> QED BY <2>3, <2>4
<1>2. CASE \E t \in Timers : PopDue(t)
  <2>1. Heard({}) /\ pc # "notify" /\ UNCHANGED <<pc, clock_changed, moved>>
    BY <1>2 DEF PopDue, kernel
  <2> QED BY <2>1, HeardInv
<1>3. CASE \E b \in Blocks : OtherCallback(b)
  <2>1. Heard({}) /\ pc # "notify" /\ UNCHANGED <<pc, clock_changed, moved>>
    BY <1>3 DEF OtherCallback, kernel, loop
  <2> QED BY <2>1, HeardInv
<1> QED BY <1>1, <1>2, <1>3

LEMMA IInvNext == ASSUME IInv, [Next]_vars PROVE IInv'
<1>1. CASE Tick
  <2>1. UNCHANGED <<pc, observers, unheard, owed, early, clock_changed, moved,
                    walk>>
    BY <1>1 DEF Tick, registered, history, loop
  <2> QED BY <2>1 DEF IInv, OwedToObservers, JumpKept, OnTheWalk, NothingOwed
<1>2. CASE Commit
  <2>1. unheard' = {} /\ owed' = {} /\ early' = {}
    BY <1>2 DEF Commit
  <2> QED BY <2>1 DEF IInv, OwedToObservers, JumpKept, OnTheWalk, NothingOwed
<1>3. CASE UNCHANGED vars
  <2>1. UNCHANGED <<pc, observers, unheard, owed, early, clock_changed, moved,
                    walk>>
    BY <1>3 DEF vars, kernel, registered, history, loop
  <2> QED BY <2>1 DEF IInv, OwedToObservers, JumpKept, OnTheWalk, NothingOwed
<1> QED BY <1>1, <1>2, <1>3, JumpInv, ReconcileInv, ProcessInv, TurnInv,
           CallbackInv DEF Next, Turn

(* The inductive invariant of the realtime clock.                           *)
THEOREM RealtimeInductive == Spec => []IInv
<1>1. Init => IInv
  BY DEF Init, IInv, OwedToObservers, JumpKept, OnTheWalk, NothingOwed
<1> QED BY <1>1, IInvNext, PTL DEF Spec

(* Observers hear of a jump before the timers it made due run (realtime.c), *)
(* so that they may cancel or replace them.                                 *)
THEOREM ObserversHearFirst == Spec => ObserversFirst
<1>1. IInv => (pc = "dispatch" => early = {})
  BY DEF IInv, NothingOwed
<1> DEFINE Kept ==
      pc = "dispatch" => \A t \in early : t \in heap' \/ left' = left
<1>2. IInv => Kept
  BY <1>1
<1> QED BY <1>2, RealtimeInductive, PTL DEF ObserversFirst
=============================================================================
