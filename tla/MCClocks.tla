------------------------------ MODULE MCClocks ------------------------------
(* The three clocks of the loop, one of them chosen by the initial state:   *)
(* the heap of monotonic timers with six timers and two deadlines, the      *)
(* smallest heap in which the timer that takes a cancelled one's slot may   *)
(* have to move up; the life of two Lua timers, whose callbacks keep        *)
(* creating timers due at once, with a budget of one a turn; and two        *)
(* realtime timers and an observer on a wall clock that jumps.              *)
EXTENDS Integers, Sequences, FiniteSets

CONSTANTS
  HeapTimers, NoTimer, MaxTime, MaxSequence,
  Timers, Handles, Gens, NoHandle, NoBlock, NoGen, MaxTimers, Budget, Delays,
  Intervals, MaxLate,
  Observers, Blocks, RealtimeBlocks, MaxWall, MaxJumps, Far, MaxTroubles

VARIABLES
  kind,
  items, fields, next_sequence, popped,
  pc, role, faulted, todo, lua, on, run, linked, tm, count, handle, owner, mono,
  real, due, older, elapsed, left, phase,
  wall, jumps, clock_fd, cancelable, expiry, expired, moved, armed,
  clock_changed, heap, deadline, observers, turn, late, walk, now, budget,
  troubles, unheard, owed, early

(* Every block is polled.                                                  *)
Poll == [b \in Blocks |-> 2]

(* A realtime timer of each block; the observer is of the first's.          *)
Owner ==
  LET first == CHOOSE t \in Timers : TRUE
      block == CHOOSE b \in RealtimeBlocks : TRUE
  IN  [x \in Timers \cup Observers |->
         IF x = first \/ x \in Observers THEN block
         ELSE CHOOSE b \in RealtimeBlocks : b # block]

Heap == INSTANCE TimerHeap WITH
  Timers <- HeapTimers, Intervals <- {1}, tm <- fields

Lua == INSTANCE Timers

Wall == INSTANCE Realtime WITH
  Blocks <- RealtimeBlocks, pc <- turn, left <- budget

ASSUME /\ Heap!TimerHeapConstants
       /\ Wall!RealtimeConstants

heap_vars == <<items, fields, next_sequence, popped>>
lua_vars == <<pc, role, faulted, todo, lua, on, run, linked, tm, count, handle,
              owner, mono, real, due, older, elapsed, left, phase>>
wall_vars == <<wall, jumps, clock_fd, cancelable, expiry, expired, moved, armed,
               clock_changed, heap, deadline, observers, turn, late, walk, now,
               budget, troubles, unheard, owed, early>>
vars == <<kind, heap_vars, lua_vars, wall_vars>>

(* The clocks that were not chosen stay in one initial state.               *)
Init ==
  /\ kind \in {"heap", "timers", "wall"}
  /\ Heap!Init
  /\ Lua!Init
  /\ kind = "timers" \/ lua = CHOOSE g \in Gens : TRUE
  /\ Wall!Init
  /\ kind = "wall" \/ wall = 0

(* Idle timers of the heap are all alike: the first of them is added.       *)
FirstIdle ==
  \A t, u \in HeapTimers :
    /\ ~ fields[t].active /\ fields'[t].active /\ t # popped
    /\ ~ fields[u].active /\ u # popped
    => t <= u

HeapStep ==
  /\ kind = "heap"
  /\ Heap!Next
  /\ FirstIdle
  /\ UNCHANGED <<kind, lua_vars, wall_vars>>

LuaStep(A) == kind = "timers" /\ A /\ UNCHANGED <<kind, heap_vars, wall_vars>>

WallStep(A) == kind = "wall" /\ A /\ UNCHANGED <<kind, heap_vars, lua_vars>>

Next ==
  \/ HeapStep
  \/ LuaStep(Lua!Next)
  \/ WallStep(Wall!Next)

(* The fairness of Timers and of Realtime.                                  *)
Spec ==
  /\ Init
  /\ [][Next]_vars
  /\ WF_vars(LuaStep(Lua!Turn))
  /\ SF_vars(LuaStep(Lua!BeginDispatch))
  /\ WF_vars(WallStep(Wall!Turn))
  /\ WF_vars(WallStep(Wall!Tick))
  /\ WF_vars(WallStep(Wall!WakeNeeded))
  /\ SF_vars(WallStep(Wall!ClockEvent))

(* The types of the heap's and the wall clock's state; those of Timers are  *)
(* checked by MCTimers.                                                     *)
TypeOK == Heap!TypeOK /\ Wall!TypeOK

(* timer.c: the array implements the queue.                                 *)
QueueSpec == Heap!QueueSpec

(* main.c: a due timer is popped, whatever callbacks create.                *)
DueFires == Lua!DueFires

(* realtime.c: observers hear of a jump before the timers it made due.      *)
ObserversFirst == Wall!ObserversFirst

(* realtime.c: a realtime timer fires, however the clock jumps.             *)
WallDueFires == Wall!WallDueFires

(* realtime.c: every observer hears of a jump.                              *)
JumpsHeard == Wall!JumpsHeard
=============================================================================
