------------------------------ MODULE Realtime ------------------------------
(***************************************************************************)
(* src/src/realtime.c: the one timerfd for ctx:at_realtime and             *)
(* ctx:on_clock_change, on a wall clock that ticks and jumps.              *)
(*                                                                         *)
(* The kernel's side is that of Linux's fs/timerfd.c with                  *)
(* TFD_TIMER_CANCEL_ON_SET: a jump is remembered until a read, or a        *)
(* settime, reports it with ECANCELED; settime arms the timer all the same.*)
(***************************************************************************)
EXTENDS Naturals, FiniteSets

CONSTANTS
  Timers,       (* memory for realtime timers, used again once they ran     *)
  Observers,    (* memory for on_clock_change registrations                 *)
  Blocks,
  Owner,        (* the block that creates a timer or observer               *)
  MaxWall,      (* bound on the wall clock                                  *)
  MaxJumps,     (* bound on its jumps                                       *)
  Far,          (* I3SD_CLOCK_SENTINEL_DELAY_NS                             *)
  Budget,       (* I3SD_REALTIME_BUDGET                                     *)
  MaxTroubles   (* bound on failures of timerfd_create and timerfd_settime  *)

RealtimeConstants ==
  /\ Owner \in [Timers \cup Observers -> Blocks]
  /\ {MaxWall, MaxJumps, MaxTroubles} \subseteq Nat
  /\ {Far, Budget} \subseteq Nat \ {0}

VARIABLES
  wall,         (* CLOCK_REALTIME                                           *)
  jumps,
  clock_fd,     (* the timerfd exists                                       *)
  cancelable,   (* it was armed, so the kernel tells it of jumps            *)
  expiry,       (* when it expires, or 0                                    *)
  expired,      (* it has expired since it was read or set                  *)
  moved,        (* the clock has jumped since it was read or set            *)
  armed,        (* app.clock_armed_ns                                       *)
  clock_changed,
  heap,         (* the timers in app.realtime_heap                          *)
  deadline,     (* their deadlines                                          *)
  observers,    (* observers that are not cancelled, of healthy blocks      *)
  pc,
  late,         (* i3sd_realtime_process was called late in the turn        *)
  walk,         (* observers notify_clock_change still has to visit         *)
  now,          (* now_ns of dispatch_due                                   *)
  left,         (* what remains of its budget                               *)
  troubles,
  unheard,      (* history: observers that are to hear of a jump            *)
  owed,         (* history: those that are to hear before anything is       *)
                (* dispatched: the jump was before the timerfd was read     *)
  early         (* history: timers which that jump made due                 *)

kernel == <<wall, jumps, cancelable, expiry, expired, moved>>
registered == <<heap, deadline, observers>>
loop == <<pc, late, walk, now, left>>
history == <<unheard, owed, early>>
vars == <<kernel, clock_fd, armed, clock_changed, registered, loop, troubles,
          history>>

(* I3SD_CLOCK_SENTINEL: later than any deadline.                            *)
Sentinel == MaxWall + Far + 1

Needed == heap # {} \/ observers # {}
Due(t) == deadline[t] <= wall
Readable == clock_fd /\ (expired \/ moved)

Init ==
  /\ wall \in 0..MaxWall
  /\ jumps = 0
  /\ clock_fd = FALSE
  /\ cancelable = FALSE
  /\ expiry = 0
  /\ expired = FALSE
  /\ moved = FALSE
  /\ armed = 0
  /\ clock_changed = FALSE
  /\ heap = {}
  /\ deadline = [t \in Timers |-> 0]
  /\ observers = {}
  /\ pc = "timers"
  /\ late = FALSE
  /\ walk = {}
  /\ now = 0
  /\ left = 0
  /\ troubles = 0
  /\ unheard = {}
  /\ owed = {}
  /\ early = {}

-----------------------------------------------------------------------------
(* The wall clock and the kernel's timer.                                  *)

(* The timer expires as the clock gets to w.                                *)
ClockAt(w) ==
  /\ wall' = w
  /\ IF expiry # 0 /\ expiry <= w
       THEN expired' = TRUE /\ expiry' = 0
       ELSE UNCHANGED <<expired, expiry>>

Tick ==
  /\ wall < MaxWall
  /\ ClockAt(wall + 1)
  /\ UNCHANGED <<jumps, cancelable, moved, clock_fd, armed, clock_changed,
                 registered, loop, troubles, history>>

(* Whether i3sd may already have read the timerfd for this processing.      *)
Processing == pc \in {"notify", "dispatch"}

(* The clock is set, or the machine resumes.                                *)
Jump(w) ==
  /\ jumps < MaxJumps
  /\ w # wall
  /\ jumps' = jumps + 1
  /\ ClockAt(w)
  /\ moved' = (moved \/ cancelable)
  /\ unheard' = IF cancelable THEN observers ELSE unheard
  /\ owed' = IF cancelable /\ ~Processing THEN observers ELSE owed
  /\ early' = {t \in heap :
                 /\ owed' # {}
                 /\ deadline[t] <= w
                 /\ t \in early \/ (cancelable /\ ~Processing /\ ~Due(t))}
  /\ UNCHANGED <<cancelable, clock_fd, armed, clock_changed, registered, loop,
                 troubles>>

(* timerfd_settime for w; 0 disarms.                                        *)
SetTime(w) ==
  /\ expired' = (w # 0 /\ w <= wall)
  /\ expiry' = IF w > wall THEN w ELSE 0
  /\ cancelable' = TRUE
  /\ moved' = FALSE

-----------------------------------------------------------------------------
(* i3sd_realtime_reconcile.                                                *)

Trouble == troubles < MaxTroubles /\ troubles' = troubles + 1

Close ==
  /\ pc = "reconcile"
  /\ ~Needed
  /\ clock_fd' = FALSE
  /\ armed' = 0
  /\ cancelable' = FALSE
  /\ expiry' = 0
  /\ expired' = FALSE
  /\ moved' = FALSE
  /\ pc' = "wait"
  /\ UNCHANGED <<wall, jumps, clock_changed, registered, late, walk, now, left,
                 troubles, history>>

CreateFails ==
  /\ pc = "reconcile"
  /\ Needed /\ ~clock_fd
  /\ Trouble
  /\ pc' = "wait"
  /\ UNCHANGED <<kernel, clock_fd, armed, clock_changed, registered, late, walk,
                 now, left, history>>

(* Faulty variant: a deadline of zero is taken as it is.                    *)
WantedZero ==
  IF heap = {} THEN Sentinel
  ELSE CHOOSE d \in 0..MaxWall : /\ \E t \in heap : deadline[t] = d
                                 /\ \A t \in heap : deadline[t] >= d

(* The earliest deadline; 0 would disarm the timer.                         *)
Wanted ==
  IF heap = {} THEN Sentinel
  ELSE LET first == CHOOSE t \in heap : \A u \in heap : deadline[t] <= deadline[u]
       IN  IF deadline[first] = 0 THEN 1 ELSE deadline[first]

(* Faulty variant: ECANCELED of settime is taken for success.               *)
ReportedNever == clock_changed

(* settime reports a jump nobody has read.                                  *)
Reported == clock_changed \/ moved

(* A new timerfd starts disarmed.                                           *)
Arm ==
  /\ pc = "reconcile"
  /\ Needed
  /\ clock_fd' = TRUE
  /\ pc' = "wait"
  /\ UNCHANGED <<wall, jumps, registered, late, walk, now, left, history>>
  /\ \/ /\ Wanted = armed
        /\ UNCHANGED <<cancelable, expiry, expired, moved, armed, clock_changed,
                       troubles>>
     \/ /\ Wanted # armed
        /\ SetTime(IF Wanted = Sentinel THEN wall + Far ELSE Wanted)
        /\ armed' = Wanted
        /\ clock_changed' = Reported
        /\ UNCHANGED troubles
     \/ /\ Wanted # armed
        /\ Trouble
        /\ UNCHANGED <<cancelable, expiry, expired, moved, armed, clock_changed>>

-----------------------------------------------------------------------------
(* The turn of run_event_loop.                                             *)

(* epoll_wait returns: its timeout is 0 if clock_changed.                   *)
Wake ==
  /\ pc = "wait"
  /\ pc' = "events"
  /\ UNCHANGED <<kernel, clock_fd, armed, clock_changed, registered, late, walk,
                 now, left, troubles, history>>

WakeNeeded == Wake /\ (Readable \/ clock_changed)

(* Faulty variant: what this read reports is left to the next processing.   *)
AnnouncedLater == IF clock_changed THEN observers ELSE {}

(* Who is to hear: everybody, of a jump reported by this read or before it. *)
Announced == IF clock_changed \/ moved THEN observers ELSE {}

(* i3sd_realtime_process: the timerfd is read, and a jump, reported by this *)
(* read or by an earlier settime, announced.                                *)
Process ==
  /\ pc' = "notify"
  /\ moved' = FALSE
  /\ expired' = FALSE
  /\ armed' = IF Readable THEN 0 ELSE armed
  /\ clock_changed' = FALSE
  /\ walk' = Announced
  /\ UNCHANGED <<wall, jumps, cancelable, expiry, clock_fd, registered, now,
                 left, troubles, history>>

ClockEvent ==
  /\ pc = "events"
  /\ Readable
  /\ late' = FALSE
  /\ Process

EventsDone ==
  /\ pc = "events"
  /\ pc' = "late"
  /\ UNCHANGED <<kernel, clock_fd, armed, clock_changed, registered, late, walk,
                 now, left, troubles, history>>

(* A jump reported while arming the timerfd.                                *)
LateProcess ==
  /\ pc = "late"
  /\ clock_changed
  /\ late' = TRUE
  /\ Process

LateDone ==
  /\ pc = "late"
  /\ ~clock_changed
  /\ pc' = "timers"
  /\ UNCHANGED <<kernel, clock_fd, armed, clock_changed, registered, late, walk,
                 now, left, troubles, history>>

(* What a callback of a block may do: nothing, add a timer, cancel anything, *)
(* or fail, which faults its block.  `gone` are timers that end with it.    *)
Callback(b, gone) ==
  \/ /\ heap' = heap \ gone
     /\ UNCHANGED <<deadline, observers>>
  \/ \E t \in Timers \ heap, d \in 0..MaxWall :
       /\ Owner[t] = b
       /\ heap' = (heap \ gone) \cup {t}
       /\ deadline' = [deadline EXCEPT ![t] = d]
       /\ UNCHANGED observers
  \/ \E x \in heap \cup observers :
       /\ heap' = heap \ (gone \cup {x})
       /\ observers' = observers \ {x}
       /\ UNCHANGED deadline
  \/ /\ heap' = {t \in heap \ gone : Owner[t] # b}
     /\ observers' = {o \in observers : Owner[o] # b}
     /\ UNCHANGED deadline

(* Histories after a step that tells those of `told`; a jump is over once   *)
(* everyone heard of it.                                                    *)
Heard(told) ==
  /\ unheard' = (unheard \cap observers') \ told
  /\ owed' = (owed \cap observers') \ told
  /\ early' = IF owed' = {} THEN {} ELSE early \cap heap'

(* notify_clock_change visits an observer.                                  *)
Notify(o) ==
  /\ pc = "notify"
  /\ o \in walk
  /\ walk' = walk \ {o}
  /\ IF o \in observers THEN Callback(Owner[o], {}) /\ Heard({o})
                        ELSE UNCHANGED <<registered, history>>
  /\ UNCHANGED <<kernel, clock_fd, armed, clock_changed, pc, late, now, left,
                 troubles>>

(* dispatch_due reads the clock once.                                       *)
NotifyDone ==
  /\ pc = "notify"
  /\ walk = {}
  /\ pc' = "dispatch"
  /\ now' = wall
  /\ left' = Budget
  /\ UNCHANGED <<kernel, clock_fd, armed, clock_changed, registered, late, walk,
                 troubles, history>>

(* The earliest due timer is taken and its callback runs; with several as   *)
(* early the one added first (TimerHeap).                                   *)
PopDue(t) ==
  /\ pc = "dispatch"
  /\ left > 0
  /\ t \in heap
  /\ deadline[t] <= now
  /\ \A u \in heap : deadline[t] <= deadline[u]
  /\ left' = left - 1
  /\ Callback(Owner[t], {t})
  /\ Heard({})
  /\ UNCHANGED <<kernel, clock_fd, armed, clock_changed, pc, late, walk, now,
                 troubles>>

DispatchDone ==
  /\ pc = "dispatch"
  /\ left = 0 \/ \A t \in heap : deadline[t] > now
  /\ pc' = IF late THEN "timers" ELSE "late"
  /\ now' = 0
  /\ left' = 0
  /\ UNCHANGED <<kernel, clock_fd, armed, clock_changed, registered, late, walk,
                 troubles, history>>

(* A callback of another source, or of a monotonic timer; it may also       *)
(* register an observer.                                                    *)
OtherCallback(b) ==
  /\ pc = "timers"
  /\ \/ Callback(b, {})
     \/ \E o \in Observers \ observers :
          /\ Owner[o] = b
          /\ observers' = observers \cup {o}
          /\ UNCHANGED <<heap, deadline>>
  /\ Heard({})
  /\ UNCHANGED <<kernel, clock_fd, armed, clock_changed, loop, troubles>>

(* A reload replaces all timers and observers.                              *)
Commit ==
  /\ pc = "timers"
  /\ heap' \in SUBSET Timers
  /\ \E d \in [heap' -> 0..MaxWall] :
       deadline' = [t \in Timers |-> IF t \in heap' THEN d[t] ELSE 0]
  /\ observers' \in SUBSET Observers
  /\ unheard' = {}
  /\ owed' = {}
  /\ early' = {}
  /\ UNCHANGED <<kernel, clock_fd, armed, clock_changed, loop, troubles>>

NextTurn ==
  /\ pc = "timers"
  /\ pc' = "reconcile"
  /\ UNCHANGED <<kernel, clock_fd, armed, clock_changed, registered, late, walk,
                 now, left, troubles, history>>

-----------------------------------------------------------------------------
Turn ==
  \/ Close \/ CreateFails \/ Arm
  \/ ClockEvent \/ EventsDone \/ LateProcess \/ LateDone
  \/ \E o \in Observers : Notify(o)
  \/ NotifyDone
  \/ \E t \in Timers : PopDue(t)
  \/ DispatchDone
  \/ NextTurn

Next ==
  \/ Turn \/ Wake \/ Tick \/ Commit
  \/ \E w \in 0..MaxWall : Jump(w)
  \/ \E b \in Blocks : OtherCallback(b)

Spec == Init /\ [][Next]_vars

(* The loop goes round and time passes; the loop is woken by its timerfd or *)
(* not at all, and handles what woke it.                                    *)
FairSpec ==
  /\ Spec
  /\ WF_vars(Turn)
  /\ WF_vars(Tick)
  /\ WF_vars(WakeNeeded)
  /\ SF_vars(ClockEvent)

-----------------------------------------------------------------------------
TypeOK ==
  /\ wall \in 0..MaxWall
  /\ jumps \in 0..MaxJumps
  /\ {clock_fd, cancelable, expired, moved, clock_changed, late} \subseteq BOOLEAN
  /\ expiry \in 0..(MaxWall + Far)
  /\ armed \in 0..Sentinel
  /\ (cancelable \/ armed # 0) => clock_fd
  /\ heap \subseteq Timers
  /\ deadline \in [Timers -> 0..MaxWall]
  /\ observers \subseteq Observers
  /\ pc \in {"reconcile", "wait", "events", "notify", "dispatch", "late",
             "timers"}
  /\ walk \subseteq Observers
  /\ now \in 0..MaxWall
  /\ left \in 0..Budget
  /\ troubles \in 0..MaxTroubles
  /\ owed \subseteq unheard /\ unheard \subseteq observers
  /\ early \subseteq heap

(* PLAN: observers hear of a jump before the timers it made due run, so     *)
(* that they may cancel or replace them.  A jump that comes while the       *)
(* callbacks of an earlier wakeup run is left out: the clock is read again. *)
ObserversFirst ==
  [][pc = "dispatch" => \A t \in early : t \in heap' \/ left' = left]_vars

(* A realtime timer fires, however the clock jumps, though the timerfd alone *)
(* wakes the loop for it: unless it is cancelled or replaced by a reload, or *)
(* callbacks keep adding timers that go before it.                          *)
Overtaken(t) ==
  \/ Commit
  \/ \E u \in heap' \ heap : deadline'[u] <= deadline[t]

WallDueFires ==
  \A t \in Timers :
    <>[](t \in heap /\ troubles = 0) => []<><<Overtaken(t)>>_vars

(* Every observer hears of a jump, unless it is cancelled.                  *)
JumpsHeard == \A o \in Observers : o \in unheard ~> o \notin unheard
=============================================================================
