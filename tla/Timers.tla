------------------------------- MODULE Timers -------------------------------
(***************************************************************************)
(* The life of a Lua timer: ctx:after, ctx:every, ctx:at_realtime, their   *)
(* handles, the polling timers of commit_generation, the two dispatchers,  *)
(* block faults and the replacement of a generation (src/src/main.c and    *)
(* src/src/realtime.c).                                                    *)
(*                                                                         *)
(* A timer has three owners that must agree: its generation's list, which  *)
(* frees it, one of the two heaps while it is armed, and the Lua handle    *)
(* that cancels it, by a call or by being collected, at any moment, also   *)
(* while the timer's own callback runs.  Freed memory is reused, so a      *)
(* pointer nobody cleared would reach some other timer.                    *)
(*                                                                         *)
(* The heaps are sets here; TimerHeap models the array.  Deadlines are     *)
(* relative to now.  older[t] are the timers in the heap when t was added, *)
(* which is what the sequence numbers of timer.c record.                   *)
(***************************************************************************)
EXTENDS Integers, FiniteSets

CONSTANTS
  Timers,     (* addresses of struct logical_timer                          *)
  Handles,    (* addresses of timer handles, the Lua userdata               *)
  Blocks,     (* the blocks of a configuration                              *)
  Gens,       (* addresses of struct generation                             *)
  NoTimer, NoHandle, NoBlock, NoGen,
  MaxTimers,  (* I3SD_MAX_TIMERS                                            *)
  Budget,     (* I3SD_TIMER_BUDGET                                          *)
  Delays,     (* the delays ctx:after is called with, in ticks              *)
  Intervals,  (* the intervals ctx:every is called with                     *)
  Poll,       (* Poll[b]: block b's interval, 0 if it is not polled         *)
  MaxLate     (* bound on how late the loop runs                            *)

ASSUME TimersAssumption ==
  /\ IsFiniteSet(Timers)
  /\ NoTimer \notin Timers
  /\ NoHandle \notin Handles
  /\ NoBlock \notin Blocks
  /\ NoGen \notin Gens
  /\ MaxTimers \in Nat
  /\ Budget \in Nat \ {0}
  /\ Delays \subseteq Nat
  /\ Intervals \subseteq Nat \ {0}
  /\ Poll \in [Blocks -> Nat]
  /\ MaxLate \in Nat

VARIABLES
  pc,       (* the part of the turn of run_event_loop                       *)
  role,     (* what app makes of each generation                            *)
  faulted,  (* faulted[g]: the blocks of g that are faulted                 *)
  todo,     (* the blocks commit_generation still has to refresh            *)
  lua,      (* the generation whose Lua code is running, or NoGen           *)
  on,       (* the block whose callback that is                             *)
  run,      (* the timer whose callback that is, if it is a timer's         *)
  linked,   (* the allocated timers, on their generation's list             *)
  tm,       (* the fields of each timer                                     *)
  count,    (* generation->timer_count                                      *)
  handle,   (* handle->timer of each handle                                 *)
  owner,    (* the generation whose Lua state holds the handle, or NoGen    *)
  mono,     (* the timers in app.timer_heap                                 *)
  real,     (* the timers in app.realtime_heap                              *)
  due,      (* deadline_ns - now of the timers in mono, and of run          *)
  older,    (* see above                                                    *)
  elapsed,  (* now - the now_ns of dispatch_timers, or the activation_ns of *)
            (* commit_generation                                            *)
  left,     (* what remains of this dispatch's budget                       *)
  phase     (* history: a repeating timer's first deadline - now, modulo    *)
            (* its interval                                                 *)

loop == <<pc, role, faulted, todo>>
stack == <<lua, on, run>>
memory == <<linked, tm, count>>
handles == <<handle, owner>>
clock == <<due, older, phase>>
dispatch == <<elapsed, left>>
vars == <<loop, stack, memory, handles, mono, real, clock, dispatch>>

Unused == [gen |-> NoGen, block |-> NoBlock, kind |-> "none", delay |-> 0,
           cancelled |-> FALSE, handle |-> NoHandle]

(* timer.interval_ns                                                       *)
Interval(t) == IF tm[t].kind \in {"every", "poll"} THEN tm[t].delay ELSE 0

OfGen(g) == {t \in linked : tm[t].gen = g}
OfBlock(g, b) == {t \in OfGen(g) : tm[t].block = b}

-----------------------------------------------------------------------------
(* Cancelling and releasing.                                               *)

(* What a step leaves of the clock's fields: they matter for the timers in *)
(* the heap and for the running one.                                       *)
Settle(d, p, o) ==
  /\ due' = [t \in Timers |-> IF t \in mono' \cup {run'} THEN d[t] ELSE 0]
  /\ phase' = [t \in Timers |-> IF t \in mono' \cup {run'} THEN p[t] ELSE 0]
  /\ older' = [t \in Timers |-> IF t \in mono' THEN o[t] \cap mono' ELSE {}]

(* i3sd_timer_cancel, from cancelling (C) or releasing (R) a timer.        *)
Disarm(C, R) ==
  /\ mono' = mono \ (C \cup R)
  /\ real' = real \ (C \cup R)

(* Faulty variant: the released timer's handle keeps its pointer.          *)
DetachNone(R) == handle

(* The handles of released timers turn into no-ops.                        *)
Detach(R) ==
  [h \in Handles |->
     IF handle[h] \in R /\ tm[handle[h]].handle = h THEN NoTimer ELSE handle[h]]

(* The timers of C are marked cancelled, those of R released, and those of *)
(* D lose their handle.                                                    *)
Retire(C, R, D) ==
  /\ Disarm(C, R)
  /\ linked' = linked \ R
  /\ tm' = [t \in Timers |->
              IF t \in R THEN Unused
              ELSE [tm[t] EXCEPT !.cancelled = @ \/ t \in C,
                                 !.handle = IF t \in D THEN NoHandle ELSE @]]
  /\ count' = [g \in Gens |->
                 count[g] - Cardinality({t \in R : tm[t].gen = g})]
  /\ Settle(due, phase, older)

(* Faulty variant: a timer is freed under its own callback.                *)
ReleasedAtOnce(t) == {t}

(* cancel_lua_timer leaves a running timer to the dispatcher.              *)
ReleasedNow(t) == {t} \ {run}

(* What i3sd_fault_block cancels.                                          *)
FaultCancels(g, b) == {t \in OfBlock(g, b) : ~ tm[t].cancelled}

-----------------------------------------------------------------------------
(* Lua code: the callbacks the loop calls, and the collector.              *)

(* ctx:after, ctx:every and ctx:at_realtime on the context of block b.     *)
Create(t, h, b, kind, delay) ==
  LET armed == role[lua] # "staging"
  IN  /\ lua # NoGen
      /\ t \notin linked
      /\ owner[h] = NoGen
      /\ count[lua] # MaxTimers
      /\ linked' = linked \cup {t}
      /\ tm' = [tm EXCEPT ![t] = [gen |-> lua, block |-> b, kind |-> kind,
                                  delay |-> delay, cancelled |-> FALSE,
                                  handle |-> h]]
      /\ count' = [count EXCEPT ![lua] = @ + 1]
      /\ handle' = [handle EXCEPT ![h] = t]
      /\ owner' = [owner EXCEPT ![h] = lua]
      /\ mono' = IF armed /\ kind # "realtime" THEN mono \cup {t} ELSE mono
      /\ real' = IF armed /\ kind = "realtime" THEN real \cup {t} ELSE real
      /\ UNCHANGED <<loop, stack, dispatch>>
      /\ Settle([due EXCEPT ![t] = delay], phase, [older EXCEPT ![t] = mono])

CreateAny ==
  \E t \in Timers, h \in Handles, b \in Blocks :
    \/ \E d \in Delays : Create(t, h, b, "after", d)
    \/ \E d \in Intervals : Create(t, h, b, "every", d)
    \/ Create(t, h, b, "realtime", 0)

(* handle:cancel()                                                         *)
CancelHandle(h) ==
  LET t == handle[h]
  IN  /\ lua # NoGen
      /\ owner[h] = lua
      /\ t # NoTimer
      /\ ~ tm[t].cancelled
      /\ UNCHANGED <<loop, stack, dispatch, owner>>
      /\ Retire({t}, ReleasedNow(t), {})
      /\ handle' = Detach(ReleasedNow(t))

(* The handle is collected, while Lua code runs or while the loop builds   *)
(* the arguments of a callback.                                            *)
Collect(h) ==
  LET mine == {t \in linked : t = handle[h]}
      live == {t \in mine : ~ tm[t].cancelled}
  IN  /\ owner[h] # NoGen
      /\ \/ owner[h] = lua
         \/ lua = NoGen /\ pc = "events" /\ role[owner[h]] = "current"
      /\ owner' = [owner EXCEPT ![h] = NoGen]
      /\ handle' = [handle EXCEPT ![h] = NoTimer]
      /\ UNCHANGED <<loop, stack, dispatch>>
      /\ Retire(live, live \ {run}, mine)

(* The event handlers call back a block of the current generation.         *)
SourceCallback(g, b) ==
  /\ pc = "events"
  /\ lua = NoGen
  /\ role[g] = "current"
  /\ b \notin faulted[g]
  /\ lua' = g
  /\ on' = b
  /\ UNCHANGED <<loop, run, memory, handles, mono, real, clock, dispatch>>

Return ==
  /\ lua' = NoGen
  /\ on' = NoBlock
  /\ run' = NoTimer

SourceReturn ==
  /\ pc = "events"
  /\ run = NoTimer
  /\ lua # NoGen
  /\ Return
  /\ UNCHANGED <<loop, memory, handles, mono, real, clock, dispatch>>

(* The callback raised an error: i3sd_fault_block.                         *)
SourceFails ==
  /\ pc = "events"
  /\ run = NoTimer
  /\ lua # NoGen
  /\ Return
  /\ faulted' = [faulted EXCEPT ![lua] = @ \cup {on}]
  /\ UNCHANGED <<pc, role, todo, handles, dispatch>>
  /\ Retire(FaultCancels(lua, on), {}, {})

-----------------------------------------------------------------------------
(* dispatch_timers and the realtime dispatch_due.                          *)

(* Faulty variant: timers with one deadline run newest first.              *)
BeforeLifo(t, u) == due[t] < due[u] \/ (due[t] = due[u] /\ u \in older[t])

(* timer_before                                                            *)
Before(t, u) == due[t] < due[u] \/ (due[t] = due[u] /\ t \in older[u])

(* Faulty variant: one timer too many is popped.                           *)
BudgetLeftLate == left >= 0

BudgetLeft == left > 0

BeginDispatch ==
  /\ pc = "events"
  /\ lua = NoGen
  /\ pc' = "dispatch"
  /\ elapsed' = 0
  /\ left' = Budget
  /\ UNCHANGED <<role, faulted, todo, stack, memory, handles, mono, real, clock>>

(* A popped timer that must not run is left on its list.                   *)
Skipped(t) ==
  \/ tm[t].cancelled
  \/ role[tm[t].gen] # "current"
  \/ tm[t].block \in faulted[tm[t].gen]

Enter(t) ==
  IF Skipped(t)
  THEN UNCHANGED stack
  ELSE /\ lua' = tm[t].gen
       /\ on' = tm[t].block
       /\ run' = t

(* i3sd_timer_pop_due and the call.                                        *)
PopDue(t) ==
  /\ pc = "dispatch"
  /\ lua = NoGen
  /\ BudgetLeft
  /\ t \in mono
  /\ due[t] <= - elapsed
  /\ \A u \in mono \ {t} : ~ Before(u, t)
  /\ left' = left - 1
  /\ mono' = mono \ {t}
  /\ Enter(t)
  /\ UNCHANGED <<loop, memory, handles, real, elapsed>>
  /\ Settle(due, phase, older)

DispatchDone ==
  /\ pc = "dispatch"
  /\ lua = NoGen
  /\ ~ BudgetLeft \/ \A t \in mono : due[t] > - elapsed
  /\ pc' = "reload"
  /\ elapsed' = 0
  /\ left' = 0
  /\ UNCHANGED <<role, faulted, todo, stack, memory, handles, mono, real, clock>>

(* The wall clock may jump anywhere, so any armed timer may come up.       *)
PopRealtime(t) ==
  /\ pc = "events"
  /\ lua = NoGen
  /\ t \in real
  /\ real' = real \ {t}
  /\ Enter(t)
  /\ UNCHANGED <<loop, memory, handles, mono, dispatch>>
  /\ Settle(due, phase, older)

(* Faulty variants: a late timer catches up one interval at a time, or its *)
(* intervals are counted from now.                                         *)
NextDueBurst(t) == due[t] + Interval(t)
NextDueDrift(t) == Interval(t) - elapsed

(* i3sd_timer_reschedule_fixed: the first deadline of the timer's grid     *)
(* after the now_ns of the dispatch.                                       *)
NextDue(t) ==
  due[t] + (((- elapsed) - due[t]) \div Interval(t) + 1) * Interval(t)

(* The timer's callback returned.                                          *)
TimerReturn ==
  LET again == Interval(run) # 0 /\ ~ tm[run].cancelled
      freed == IF again THEN {} ELSE {run}
  IN  /\ run # NoTimer
      /\ Return
      /\ UNCHANGED <<loop, owner, dispatch>>
      /\ IF again
         THEN /\ mono' = mono \cup {run}
              /\ UNCHANGED <<memory, handle, real>>
              /\ Settle([due EXCEPT ![run] = NextDue(run)], phase,
                        [older EXCEPT ![run] = mono])
         ELSE /\ Retire({}, {run}, {})
              /\ handle' = Detach({run})

(* The timer's callback raised an error: the block is faulted and the      *)
(* timer, which the fault cancelled, released.                             *)
TimerFails ==
  /\ run # NoTimer
  /\ Return
  /\ faulted' = [faulted EXCEPT ![lua] = @ \cup {on}]
  /\ UNCHANGED <<pc, role, todo, owner, dispatch>>
  /\ Retire(FaultCancels(lua, on), {run}, {})
  /\ handle' = Detach({run})

-----------------------------------------------------------------------------
(* stage_generation and commit_generation.                                 *)

NoReload ==
  /\ pc = "reload"
  /\ pc' = "events"
  /\ UNCHANGED <<role, faulted, todo, stack, memory, handles, mono, real, clock,
                 dispatch>>

(* The configuration chunk and the blocks' init and update run.            *)
Stage(g) ==
  /\ pc = "reload"
  /\ role[g] = "none"
  /\ role' = [role EXCEPT ![g] = "staging"]
  /\ pc' = "staging"
  /\ lua' = g
  /\ UNCHANGED <<faulted, todo, on, run, memory, handles, mono, real, clock,
                 dispatch>>

(* generation_destroy: heap entries are cancelled and handles detached     *)
(* before lua_close collects every handle; then the timers are freed.      *)
Destroy(g) ==
  /\ mono' = mono \ OfGen(g)
  /\ real' = real \ OfGen(g)
  /\ linked' = linked \ OfGen(g)
  /\ tm' = [t \in Timers |-> IF t \in OfGen(g) THEN Unused ELSE tm[t]]
  /\ count' = [count EXCEPT ![g] = 0]
  /\ handle' = [h \in Handles |-> IF owner[h] = g THEN NoTimer ELSE handle[h]]
  /\ owner' = [h \in Handles |-> IF owner[h] = g THEN NoGen ELSE owner[h]]
  /\ faulted' = [faulted EXCEPT ![g] = {}]
  /\ role' = [role EXCEPT ![g] = "none"]
  /\ Settle(due, phase, older)

StageFails ==
  /\ pc = "staging"
  /\ \E g \in Gens : role[g] = "current"
  /\ pc' = "events"
  /\ Return
  /\ UNCHANGED <<todo, dispatch>>
  /\ Destroy(lua)

(* Faulty variant: configured realtime timers are not armed.               *)
ActivatedMono(F) ==
  {t \in OfGen(lua) : /\ ~ tm[t].cancelled
                      /\ tm[t].block \notin F
                      /\ tm[t].kind # "realtime"}

(* The staged timers a commit arms; F are the blocks whose directory feed  *)
(* cannot be activated, which faults them.                                 *)
Activated(F) ==
  {t \in OfGen(lua) : ~ tm[t].cancelled /\ tm[t].block \notin F}

(* commit_generation up to the refresh of the blocks.                      *)
Commit(F) ==
  LET staged == {t \in OfGen(lua) : ~ tm[t].cancelled}
      armed  == Activated(F)
  IN  /\ pc = "staging"
      /\ pc' = "refresh"
      /\ role' = [g \in Gens |-> IF g = lua THEN "current"
                                 ELSE IF role[g] = "current" THEN "old"
                                 ELSE role[g]]
      /\ faulted' = [faulted EXCEPT ![lua] = F]
      /\ todo' = Blocks
      /\ tm' = [t \in Timers |->
                  [tm[t] EXCEPT !.cancelled =
                     @ \/ (t \in staged /\ tm[t].block \in F)]]
      /\ mono' = mono \cup {t \in armed : tm[t].kind # "realtime"}
      /\ real' = real \cup {t \in armed : tm[t].kind = "realtime"}
      /\ Return
      /\ UNCHANGED <<linked, count, handles, dispatch>>
      /\ Settle([t \in Timers |-> IF t \in staged THEN tm[t].delay ELSE due[t]],
                phase,
                [t \in Timers |-> IF t \in staged THEN mono ELSE older[t]])

(* The live refresh of block b.                                            *)
Refresh(g, b) ==
  /\ pc = "refresh"
  /\ lua = NoGen
  /\ role[g] = "current"
  /\ b \in todo \ faulted[g]
  /\ lua' = g
  /\ on' = b
  /\ UNCHANGED <<loop, run, memory, handles, mono, real, clock, dispatch>>

(* add_poll_timer for block b.  The limit on timers is not looked at.      *)
AddPollTimer(g, b, t) ==
  /\ todo' = todo \ {b}
  /\ UNCHANGED <<pc, role, faulted, handles, real, dispatch>>
  /\ \/ /\ Poll[b] = 0
        /\ UNCHANGED <<memory, mono, clock>>
     \/ /\ Poll[b] # 0
        /\ t \notin linked
        /\ linked' = linked \cup {t}
        /\ tm' = [tm EXCEPT ![t] =
                    [gen |-> g, block |-> b, kind |-> "poll",
                     delay |-> Poll[b], cancelled |-> FALSE,
                     handle |-> NoHandle]]
        /\ count' = [count EXCEPT ![g] = @ + 1]
        /\ mono' = mono \cup {t}
        /\ Settle([due EXCEPT ![t] = Poll[b] - elapsed],
                  [phase EXCEPT ![t] = (Poll[b] - elapsed) % Poll[b]],
                  [older EXCEPT ![t] = mono])

RefreshReturn(t) ==
  /\ pc = "refresh"
  /\ lua # NoGen
  /\ Return
  /\ AddPollTimer(lua, on, t)

(* call_block_ref does not call a faulted block, and reports success; if   *)
(* there is no memory for its timer it is faulted as it was.               *)
RefreshSkipped(g, b, t) ==
  /\ pc = "refresh"
  /\ lua = NoGen
  /\ role[g] = "current"
  /\ b \in todo \cap faulted[g]
  /\ UNCHANGED stack
  /\ \/ AddPollTimer(g, b, t)
     \/ /\ linked = Timers
        /\ todo' = todo \ {b}
        /\ UNCHANGED <<pc, role, faulted, memory, handles, mono, real, clock,
                       dispatch>>

RefreshFails ==
  /\ pc = "refresh"
  /\ lua # NoGen
  /\ Return
  /\ todo' = todo \ {on}
  /\ faulted' = [faulted EXCEPT ![lua] = @ \cup {on}]
  /\ UNCHANGED <<pc, role, handles, dispatch>>
  /\ Retire(FaultCancels(lua, on), {}, {})

(* The old generation is destroyed last.                                   *)
CommitDone ==
  /\ pc = "refresh"
  /\ lua = NoGen
  /\ todo = {}
  /\ pc' = "events"
  /\ elapsed' = 0
  /\ UNCHANGED <<todo, stack, left>>
  /\ \/ /\ \A g \in Gens : role[g] # "old"
        /\ UNCHANGED <<role, faulted, memory, handles, mono, real, clock>>
     \/ \E g \in Gens : role[g] = "old" /\ Destroy(g)

-----------------------------------------------------------------------------
(* The program starts by staging a first generation.  (If that fails it    *)
(* commits an empty one, which has no timers and is left out.)             *)
Init ==
  /\ pc = "staging"
  /\ \E g \in Gens :
       /\ role = [f \in Gens |-> IF f = g THEN "staging" ELSE "none"]
       /\ lua = g
  /\ faulted = [g \in Gens |-> {}]
  /\ todo = {}
  /\ on = NoBlock
  /\ run = NoTimer
  /\ linked = {}
  /\ tm = [t \in Timers |-> Unused]
  /\ count = [g \in Gens |-> 0]
  /\ handle = [h \in Handles |-> NoTimer]
  /\ owner = [h \in Handles |-> NoGen]
  /\ mono = {}
  /\ real = {}
  /\ due = [t \in Timers |-> 0]
  /\ older = [t \in Timers |-> {}]
  /\ elapsed = 0
  /\ left = 0
  /\ phase = [t \in Timers |-> 0]

(* Time passes, also while Lua code runs.                                  *)
Tick ==
  LET ticking == mono \cup ({run} \ {NoTimer})
      counting == pc \in {"dispatch", "refresh"}
  IN  /\ \A t \in ticking : due[t] > - MaxLate
      /\ counting => elapsed < MaxLate
      /\ elapsed' = IF counting THEN elapsed + 1 ELSE elapsed
      /\ due' = [t \in Timers |-> IF t \in ticking THEN due[t] - 1 ELSE due[t]]
      /\ phase' = [t \in Timers |->
                     IF t \in ticking /\ Interval(t) # 0
                     THEN (phase[t] - 1) % Interval(t) ELSE phase[t]]
      /\ UNCHANGED <<loop, stack, memory, handles, mono, real, older, left>>

LuaStep ==
  \/ CreateAny
  \/ \E h \in Handles : CancelHandle(h) \/ Collect(h)

Events ==
  \/ \E g \in Gens, b \in Blocks : SourceCallback(g, b)
  \/ \E t \in Timers : PopRealtime(t)

(* What the loop gets to once the Lua code it called has returned.         *)
Turn ==
  \/ SourceReturn
  \/ SourceFails
  \/ \E t \in Timers : PopDue(t)
  \/ DispatchDone
  \/ TimerReturn
  \/ TimerFails
  \/ NoReload
  \/ \E g \in Gens : Stage(g)
  \/ StageFails
  \/ \E F \in SUBSET Blocks : Commit(F)
  \/ \E g \in Gens, b \in Blocks : Refresh(g, b)
  \/ \E t \in Timers : RefreshReturn(t)
  \/ \E g \in Gens, b \in Blocks, t \in Timers : RefreshSkipped(g, b, t)
  \/ RefreshFails
  \/ CommitDone

Next ==
  \/ LuaStep
  \/ Events
  \/ BeginDispatch
  \/ Turn
  \/ Tick

Spec == Init /\ [][Next]_vars

(* Lua code returns, the loop goes on, and a turn handles finitely many    *)
(* events before its dispatch.                                             *)
FairSpec == Spec /\ WF_vars(Turn) /\ SF_vars(BeginDispatch)

-----------------------------------------------------------------------------
(* Properties.                                                             *)

TypeOK ==
  /\ pc \in {"events", "dispatch", "reload", "staging", "refresh"}
  /\ role \in [Gens -> {"none", "staging", "current", "old"}]
  /\ faulted \in [Gens -> SUBSET Blocks]
  /\ todo \subseteq Blocks
  /\ lua \in Gens \cup {NoGen}
  /\ on \in Blocks \cup {NoBlock}
  /\ run \in Timers \cup {NoTimer}
  /\ linked \subseteq Timers
  /\ tm \in [Timers ->
       [gen : Gens \cup {NoGen}, block : Blocks \cup {NoBlock},
        kind : {"none", "after", "every", "realtime", "poll"}, delay : Nat,
        cancelled : BOOLEAN, handle : Handles \cup {NoHandle}]]
  /\ count \in [Gens -> Nat]
  /\ handle \in [Handles -> Timers \cup {NoTimer}]
  /\ owner \in [Handles -> Gens \cup {NoGen}]
  /\ mono \subseteq Timers
  /\ real \subseteq Timers
  /\ due \in [Timers -> Int]
  /\ older \in [Timers -> SUBSET Timers]
  /\ elapsed \in Nat
  /\ left \in 0..Budget
  /\ phase \in [Timers -> Nat]

(* No pointer in a heap, and no callback on the dispatcher's stack, is of  *)
(* a timer that was freed: not after a cancel, a collected handle, a fault *)
(* or the end of a generation, also from within the callback itself.       *)
(* What is in a heap was not cancelled and belongs to a generation that    *)
(* was committed.                                                          *)
HeapsLive ==
  /\ mono \cup real \cup ({run} \ {NoTimer}) \subseteq linked
  /\ mono \cap real = {}
  /\ \A t \in mono \cup real :
       /\ t # run
       /\ ~ tm[t].cancelled
       /\ role[tm[t].gen] \in {"current", "old"}

(* A handle points to the timer that points back at it, whatever memory    *)
(* was freed and reused in between: cancelling it, or collecting it, never *)
(* touches another timer.  The limit counts what is on the list.           *)
OwnersAgree ==
  /\ \A h \in Handles :
       handle[h] # NoTimer =>
         /\ handle[h] \in linked
         /\ tm[handle[h]].handle = h
         /\ tm[handle[h]].gen = owner[h]
  /\ \A t \in linked :
       tm[t].handle # NoHandle => handle[tm[t].handle] = t
  /\ \A g \in Gens : count[g] = Cardinality(OfGen(g))

(* A timer nobody cancelled stays armed until it fires: no cancel, fault,  *)
(* reschedule or reload loses the timer of a healthy block.                *)
ArmedUntilDone ==
  \A t \in linked :
    \/ tm[t].cancelled
    \/ t = run
    \/ role[tm[t].gen] # "current"
    \/ tm[t].block \in faulted[tm[t].gen]
    \/ t \in mono \cup real

(* ctx:every and polling keep the phase of their first deadline: late      *)
(* dispatches do not make them drift.                                      *)
PhaseKept ==
  \A t \in mono : Interval(t) # 0 => due[t] % Interval(t) = phase[t]

(* However late the loop runs, a repeating timer makes up for it with one  *)
(* call: it is never due again in the dispatch that ran it.                *)
NoBurst ==
  [][\A t \in Timers :
       run = t /\ t \in mono' => due'[t] > - elapsed']_vars

(* A due timer does not wait forever, with a budget per dispatch and       *)
(* callbacks that keep creating timers that are due at once.               *)
DueFires ==
  \A t \in Timers : t \in mono /\ due[t] <= 0 ~> t \notin mono

(* PLAN.rst, "logical timers: 4096 per generation".                        *)
TimerLimit == \A g \in Gens : count[g] <= MaxTimers
=============================================================================
