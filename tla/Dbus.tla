-------------------------------- MODULE Dbus --------------------------------
(***************************************************************************)
(* src/src/dbus.c: the D-Bus operations of Lua on one of the two buses.    *)
(* Calls, matches and connect watches are entries of the generation's      *)
(* lists; a turn of the event loop starts those that are new to the        *)
(* connection, and sd-bus calls back with answers and signals.  Every      *)
(* callback may create and cancel operations, of lists being walked too,   *)
(* fail (which faults its block), or just return.                          *)
(*                                                                         *)
(* The two buses share the lists and nothing else.  A list is a set here:  *)
(* it is walked newest first, in the order Lua happened to create.         *)
(***************************************************************************)
EXTENDS Naturals, FiniteSets

CONSTANTS
  Calls, Matches, Watches, (* memory for operations, used again once freed  *)
  Observed,     (* the matches that have an install callback                *)
  Blocks,
  Owner,        (* the block whose bus object creates an operation          *)
  NoBlock,
  MaxOps,       (* I3SD_DBUS_OPERATION_LIMIT                                *)
  MaxTroubles   (* bound on failures of the connection                      *)

Ops == Calls \cup Matches \cup Watches

ASSUME DbusConstants ==
  /\ IsFiniteSet(Ops)
  /\ Calls \cap Matches = {}
  /\ Calls \cap Watches = {}
  /\ Matches \cap Watches = {}
  /\ Observed \subseteq Matches
  /\ Owner \in [Ops -> Blocks]
  /\ NoBlock \notin Blocks
  /\ MaxOps \in Nat \ {0}
  /\ MaxTroubles \in Nat

VARIABLES
  pc,         (* where the event loop is                                    *)
  turn,       (* what called dbus.c: the top of the turn, an event, or the  *)
              (* unconditional processing late in the turn                  *)
  walk,       (* operations the running walk over a list still has to visit *)
  lua,        (* the block whose callback runs                              *)
  linked,     (* operations in the lists of app.current                     *)
  cancelled,
  sent, completed,
  slot,       (* operations whose callback is registered with sd-bus        *)
  stamped,    (* matches and watches started on this connection: attempted_ *)
              (* epoch or delivered_epoch is the transport's epoch          *)
  installing, (* matches whose AddMatch is unanswered                       *)
  faulted,
  bus,        (* the connection; "closing" once the daemon is gone          *)
  retry,      (* retry_deadline_ns: none, in the future, or past            *)
  met,        (* history: matches and watches started on the connection     *)
              (* there is                                                   *)
  heard,      (* history: how often each call's callback was called         *)
  troubles

operations == <<linked, cancelled, sent, completed, slot, stamped, installing,
                met, heard>>
connection == <<bus, retry, troubles>>
vars == <<pc, turn, walk, lua, operations, faulted, connection>>

OfBlocks(B) == {x \in linked : Owner[x] \in B}
Settled == completed \cup cancelled

(* dbus_callback_allowed; the lists are those of the current generation.    *)
Allowed(x) == Owner[x] \notin faulted

(* dbus_transport_needed.                                                   *)
Needed == linked \ Settled # {}

(* Settled calls that sd-bus no longer knows: reap_dbus_calls frees them.   *)
Reapable(slots) == (linked \cap Calls \cap Settled) \ slots

(* reap_dbus_calls, with `slots` the registrations that are left.           *)
Reap(slots) ==
  LET freed == Reapable(slots)
  IN  /\ linked' = linked \ freed
      /\ cancelled' = cancelled \ freed
      /\ sent' = sent \ freed
      /\ completed' = completed \ freed
      /\ heard' = [c \in Calls |-> IF c \in freed THEN 0 ELSE heard[c]]

(* Where the loop goes once dbus.c returns to it.                           *)
After == CASE turn = "top" -> "wait"
           [] turn = "event" -> "events"
           [] turn = "late" -> "timers"

Trouble == troubles < MaxTroubles /\ troubles' = troubles + 1

-----------------------------------------------------------------------------
Init ==
  /\ pc = "reconcile"
  /\ turn = "top"
  /\ lua = NoBlock
  /\ linked \in {S \in SUBSET Ops : Cardinality(S) <= MaxOps}
  /\ walk = {}
  /\ cancelled = {}
  /\ sent = {}
  /\ completed = {}
  /\ slot = {}
  /\ stamped = {}
  /\ installing = {}
  /\ faulted = {}
  /\ bus = "none"
  /\ retry = "no"
  /\ met = {}
  /\ heard = [c \in Calls |-> 0]
  /\ troubles = 0

-----------------------------------------------------------------------------
(* What a running callback does.                                           *)

(* lua_dbus_call, lua_dbus_match, lua_dbus_on_connect.  The bus object may  *)
(* be another block's: they share the Lua state.                            *)
CreateOp(x) ==
  /\ lua # NoBlock
  /\ x \in Ops \ linked
  /\ Cardinality(linked) < MaxOps
  /\ linked' = linked \cup {x}
  /\ UNCHANGED <<pc, turn, walk, lua, cancelled, sent, completed, slot,
                 stamped, met, installing, heard, faulted, connection>>

(* Faulty variant: cancelling leaves the callback with sd-bus.              *)
ForgetSlots(X) ==
  /\ cancelled' = cancelled \cup X
  /\ UNCHANGED <<slot, installing>>

(* The flag and the slot: what cancelling an operation consists of.         *)
Forget(X) ==
  /\ cancelled' = cancelled \cup X
  /\ slot' = slot \ X
  /\ installing' = installing \ X

(* The handle is cancelled, or collected.                                   *)
CancelOp(x) ==
  /\ lua # NoBlock
  /\ x \in linked \ cancelled
  /\ Forget({x})
  /\ UNCHANGED <<pc, turn, walk, lua, linked, sent, completed, stamped, met,
                 heard, faulted, connection>>

Return ==
  /\ lua # NoBlock
  /\ lua' = NoBlock
  /\ UNCHANGED <<pc, turn, walk, operations, faulted, connection>>

(* finish_dbus_callback and fault_dbus_owner.                               *)
Fail ==
  /\ lua # NoBlock
  /\ lua' = NoBlock
  /\ faulted' = faulted \cup {lua}
  /\ Forget(OfBlocks({lua}))
  /\ UNCHANGED <<pc, turn, walk, linked, sent, completed, stamped, met, heard,
                 connection>>

(* The callback of x runs.                                                  *)
CallBack(x) == lua' = Owner[x]

(* A call's callback is called for the last time.                           *)
Answer(c) ==
  /\ completed' = completed \cup {c}
  /\ heard' = [heard EXCEPT ![c] = @ + 1]
  /\ CallBack(c)

-----------------------------------------------------------------------------
(* reconcile_dbus_transport.                                               *)

Idle == lua = NoBlock

(* Nothing wants the bus: it is closed if it is open.                       *)
CloseUnneeded ==
  /\ Idle /\ pc = "reconcile"
  /\ ~Needed
  /\ bus' = "none"
  /\ slot' = IF bus = "none" THEN slot ELSE {}
  /\ installing' = IF bus = "none" THEN installing ELSE {}
  /\ stamped' = IF bus = "none" THEN stamped ELSE stamped \ Matches
  /\ met' = {}
  /\ Reap(slot')
  /\ pc' = After
  /\ UNCHANGED <<turn, walk, lua, faulted, retry, troubles>>

(* The bus could not be opened a moment ago.                                *)
RetryLater ==
  /\ Idle /\ pc = "reconcile"
  /\ Needed /\ bus = "none" /\ retry = "wait"
  /\ Reap(slot)
  /\ pc' = After
  /\ UNCHANGED <<turn, walk, lua, slot, stamped, met, installing, faulted,
                 connection>>

OpenFails ==
  /\ Idle /\ pc = "reconcile"
  /\ Needed /\ bus = "none" /\ retry # "wait"
  /\ Trouble
  /\ retry' = "wait"
  /\ Reap(slot)
  /\ pc' = After
  /\ UNCHANGED <<turn, walk, lua, slot, stamped, met, installing, faulted, bus>>

(* activate_dbus_operations visits these; what a callback cancels or adds   *)
(* meanwhile is looked at when the walk gets there, or not at all.          *)
StartsMatch(m) == m \in Matches /\ m \notin cancelled /\ m \notin stamped
StartsCall(c) == c \in Calls /\ c \notin Settled /\ c \notin sent
StartsWatch(w) ==
  w \in Watches /\ w \notin cancelled /\ w \notin stamped /\ Allowed(w)

(* Faulty variant: the epoch is not raised.                                 *)
OpenSameEpoch ==
  /\ bus = "none"
  /\ retry # "wait"
  /\ bus' = "hello"
  /\ retry' = "no"
  /\ UNCHANGED stamped

(* open_dbus_transport: a new connection epoch.                             *)
Open ==
  /\ bus = "none"
  /\ retry # "wait"
  /\ bus' = "hello"
  /\ retry' = "no"
  /\ stamped' = {}

(* Faulty variant: operations are started when the bus is opened only.      *)
ActivateOnce ==
  /\ Idle /\ pc = "reconcile"
  /\ Needed
  /\ \/ Open /\ pc' = "matches"
     \/ bus # "none" /\ pc' = "register" /\ UNCHANGED <<bus, retry, stamped>>
  /\ Reap(slot)
  /\ walk' = IF bus = "none" THEN linked \cap Matches ELSE {}
  /\ UNCHANGED <<turn, lua, slot, met, installing, faulted, troubles>>

(* The bus is open, or opened, and activate_dbus_operations begins.         *)
Activate ==
  /\ Idle /\ pc = "reconcile"
  /\ Needed
  /\ \/ Open
     \/ bus # "none" /\ UNCHANGED <<bus, retry, stamped>>
  /\ Reap(slot)
  /\ pc' = "matches"
  /\ walk' = linked \cap Matches
  /\ UNCHANGED <<turn, lua, slot, met, installing, faulted, troubles>>

(* sd_bus_add_match_async sends AddMatch, or fails, on a closing bus always. *)
VisitMatch(m) ==
  /\ Idle /\ pc = "matches"
  /\ m \in walk /\ StartsMatch(m)
  /\ walk' = walk \ {m}
  /\ stamped' = stamped \cup {m}
  /\ met' = met \cup {m}
  /\ \/ /\ bus # "closing"
        /\ slot' = slot \cup {m}
        /\ installing' = installing \cup {m}
        /\ UNCHANGED lua
     \/ /\ IF m \in Observed /\ Allowed(m) THEN CallBack(m) ELSE UNCHANGED lua
        /\ UNCHANGED <<slot, installing>>
  /\ UNCHANGED <<pc, turn, linked, cancelled, sent, completed, heard, faulted,
                 connection>>

MatchesDone ==
  /\ Idle /\ pc = "matches"
  /\ \A m \in walk : ~StartsMatch(m)
  /\ pc' = "calls"
  /\ walk' = linked \cap Calls
  /\ UNCHANGED <<turn, lua, operations, faulted, connection>>

(* Faulty variant: a call that could not be sent is not marked completed.   *)
VisitCallUnmarked(c) ==
  /\ Idle /\ pc = "calls"
  /\ c \in walk /\ StartsCall(c)
  /\ walk' = walk \ {c}
  /\ sent' = sent \cup {c}
  /\ \/ /\ bus # "closing"
        /\ slot' = slot \cup {c}
        /\ UNCHANGED <<completed, heard, lua>>
     \/ /\ IF Allowed(c)
             THEN /\ heard' = [heard EXCEPT ![c] = @ + 1]
                  /\ CallBack(c)
                  /\ UNCHANGED completed
             ELSE UNCHANGED <<completed, heard, lua>>
        /\ UNCHANGED slot
  /\ UNCHANGED <<pc, turn, linked, cancelled, stamped, met, installing, faulted,
                 connection>>

(* start_dbus_call; encoding the arguments may fail too: Lua can change the *)
(* table it passed.                                                         *)
VisitCall(c) ==
  /\ Idle /\ pc = "calls"
  /\ c \in walk /\ StartsCall(c)
  /\ walk' = walk \ {c}
  /\ sent' = sent \cup {c}
  /\ \/ /\ bus # "closing"
        /\ slot' = slot \cup {c}
        /\ UNCHANGED <<completed, heard, lua>>
     \/ /\ IF Allowed(c) THEN Answer(c)
                         ELSE UNCHANGED <<completed, heard, lua>>
        /\ UNCHANGED slot
  /\ UNCHANGED <<pc, turn, linked, cancelled, stamped, met, installing, faulted,
                 connection>>

CallsDone ==
  /\ Idle /\ pc = "calls"
  /\ \A c \in walk : ~StartsCall(c)
  /\ pc' = "watches"
  /\ walk' = linked \cap Watches
  /\ UNCHANGED <<turn, lua, operations, faulted, connection>>

(* invoke_dbus_connect_watch.                                               *)
VisitWatch(w) ==
  /\ Idle /\ pc = "watches"
  /\ w \in walk /\ StartsWatch(w)
  /\ walk' = walk \ {w}
  /\ stamped' = stamped \cup {w}
  /\ met' = met \cup {w}
  /\ CallBack(w)
  /\ UNCHANGED <<pc, turn, linked, cancelled, sent, completed, slot, installing,
                 heard, faulted, connection>>

(* Faulty variant: calls are reaped before the operations start, not after. *)
WatchesDoneUnreaped ==
  /\ Idle /\ pc = "watches"
  /\ \A w \in walk : ~StartsWatch(w)
  /\ pc' = "register"
  /\ walk' = {}
  /\ UNCHANGED <<turn, lua, operations, faulted, connection>>

WatchesDone ==
  /\ Idle /\ pc = "watches"
  /\ \A w \in walk : ~StartsWatch(w)
  /\ pc' = "register"
  /\ walk' = {}
  /\ Reap(slot)
  /\ UNCHANGED <<turn, lua, slot, stamped, met, installing, faulted,
                 connection>>

(* The connection is in the epoll set, with the events sd-bus asks for.     *)
Registered ==
  /\ pc = "register"
  /\ pc' = After
  /\ UNCHANGED <<turn, walk, lua, operations, faulted, connection>>

-----------------------------------------------------------------------------
(* close_dbus_transport(transport, true) and reset_dbus_slots.             *)

InFlight == {c \in Calls : c \in sent /\ c \notin Settled}

(* Faulty variant: the calls are dropped as for a bus nobody needs.         *)
LoseSilently ==
  /\ pc' = "lost"
  /\ walk' = {}
  /\ slot' = {}
  /\ installing' = {}
  /\ stamped' = stamped \ Matches
  /\ UNCHANGED <<turn, lua, linked, cancelled, sent, completed, met, heard,
                 faulted, bus, retry>>

(* The matches' slots go first; then the calls are visited one by one.      *)
Lose ==
  /\ pc' = "lost"
  /\ walk' = {c \in Calls : c \in slot \cup InFlight}
  /\ slot' = slot \ Matches
  /\ installing' = {}
  /\ stamped' = stamped \ Matches
  /\ UNCHANGED <<turn, lua, linked, cancelled, sent, completed, met, heard,
                 faulted, bus, retry>>

(* The descriptor cannot be watched.                                        *)
RegisterFails ==
  /\ pc = "register"
  /\ Trouble
  /\ Lose

(* The walk reaches a call: answered with an error if it was in flight.     *)
LostCall(c) ==
  /\ Idle /\ pc = "lost"
  /\ c \in walk
  /\ walk' = walk \ {c}
  /\ slot' = slot \ {c}
  /\ IF c \in InFlight /\ Allowed(c) THEN Answer(c)
                                     ELSE UNCHANGED <<completed, heard, lua>>
  /\ UNCHANGED <<pc, turn, linked, cancelled, sent, stamped, met,
                 installing, faulted, connection>>

(* reap_dbus_calls and sd_bus_flush_close_unref.                            *)
LostDone ==
  /\ Idle /\ pc = "lost"
  /\ walk = {}
  /\ Reap(slot)
  /\ bus' = "none"
  /\ met' = {}
  /\ pc' = After
  /\ UNCHANGED <<turn, walk, lua, slot, stamped, installing, faulted, retry,
                 troubles>>

-----------------------------------------------------------------------------
(* process_dbus_transport: sd_bus_process dispatches one thing at a time,  *)
(* I3SD_DBUS_PROCESS_BUDGET times or until nothing is left.                *)

Processing == Idle /\ pc = "process"

Hello ==
  /\ Processing /\ bus = "hello"
  /\ bus' = "open"
  /\ UNCHANGED <<pc, turn, walk, lua, operations, faulted, retry, troubles>>

(* dbus_call_completed: the answer, or its timeout, or the error sd-bus     *)
(* makes up when the connection is gone.                                    *)
AnswerCall(c) ==
  /\ Processing
  /\ c \in slot
  /\ slot' = slot \ {c}
  /\ IF Allowed(c) /\ c \notin Settled
       THEN Answer(c)
       ELSE UNCHANGED <<completed, heard, lua>>
  /\ UNCHANGED <<pc, turn, walk, linked, cancelled, sent, stamped, met,
                 installing, faulted, connection>>

(* dbus_match_installed.                                                    *)
InstallReply(m) ==
  /\ Processing
  /\ m \in installing
  /\ installing' = installing \ {m}
  /\ IF m \in Observed /\ Allowed(m) /\ m \notin cancelled THEN CallBack(m)
                                                         ELSE UNCHANGED lua
  /\ UNCHANGED <<pc, turn, walk, linked, cancelled, sent, completed, slot,
                 stamped, met, heard, faulted, connection>>

(* dbus_match_message: a signal matches the rule.                           *)
Signal(m) ==
  /\ Processing /\ bus = "open"
  /\ m \in Matches \cap slot
  /\ Allowed(m) /\ m \notin cancelled
  /\ CallBack(m)
  /\ UNCHANGED <<pc, turn, walk, operations, faulted, connection>>

(* sd_bus_process fails: after the last answer of a closing connection, or  *)
(* for a reason of its own.                                                 *)
ProcessFails ==
  /\ Processing
  /\ \/ bus = "closing" /\ slot \cap Calls = {} /\ installing = {}
        /\ UNCHANGED troubles
     \/ bus # "closing" /\ Trouble
  /\ Lose

(* Nothing is left, or the budget is spent; a closing bus keeps sd-bus busy  *)
(* until it fails.                                                          *)
ProcessDone ==
  /\ Processing /\ bus # "closing"
  /\ pc' = "reconcile"
  /\ UNCHANGED <<turn, walk, lua, operations, faulted, connection>>

(* The daemon closes the connection; sd-bus notices.                        *)
Disconnect ==
  /\ bus \in {"hello", "open"}
  /\ Trouble
  /\ bus' = "closing"
  /\ UNCHANGED <<pc, turn, walk, lua, operations, faulted, retry>>

-----------------------------------------------------------------------------
(* run_event_loop around them.                                             *)

(* epoll_wait returns, for one of the many reasons of the program.          *)
Wake ==
  /\ Idle /\ pc = "wait"
  /\ pc' = "events"
  /\ UNCHANGED <<turn, walk, lua, operations, faulted, connection>>

(* The retry deadline passes.                                               *)
RetryDue ==
  /\ retry = "wait"
  /\ retry' = "due"
  /\ UNCHANGED <<pc, turn, walk, lua, operations, faulted, bus, troubles>>

(* A callback of another part of the program.                               *)
SourceCallback(b) ==
  /\ Idle /\ pc \in {"events", "timers"}
  /\ b \in Blocks \ faulted
  /\ lua' = b
  /\ UNCHANGED <<pc, turn, walk, operations, faulted, connection>>

(* i3sd_dbus_process_cookie.                                                *)
ProcessEvent ==
  /\ Idle /\ pc = "events"
  /\ bus # "none"
  /\ turn' = "event"
  /\ pc' = "process"
  /\ UNCHANGED <<walk, lua, operations, faulted, connection>>

(* i3sd_dbus_process, once the events are handled.                          *)
ProcessLate ==
  /\ Idle /\ pc = "events"
  /\ turn' = "late"
  /\ pc' = IF bus = "none" THEN "timers" ELSE "process"
  /\ UNCHANGED <<walk, lua, operations, faulted, connection>>

(* Faulty variant: i3sd_dbus_generation_deactivate leaves the slots of the  *)
(* generation that is freed.                                                *)
CommitSlots ==
  /\ Idle /\ pc = "timers"
  /\ \E new \in SUBSET (Ops \ linked), F \in SUBSET Blocks :
       /\ Cardinality(new) <= MaxOps
       /\ linked' = new
       /\ cancelled' = {x \in new : Owner[x] \in F}
       /\ faulted' = F
  /\ sent' = {}
  /\ completed' = {}
  /\ stamped' = {}
  /\ met' = {}
  /\ heard' = [c \in Calls |-> 0]
  /\ UNCHANGED <<pc, turn, walk, lua, slot, installing, connection>>

(* commit_generation: the operations of the new generation, created by its  *)
(* blocks' init functions, replace the old ones, whose slots are dropped    *)
(* (i3sd_dbus_generation_deactivate) before they are freed; blocks that     *)
(* failed in their first refresh are faulted.  The connection stays.        *)
Commit ==
  /\ Idle /\ pc = "timers"
  /\ \E new \in SUBSET (Ops \ linked), F \in SUBSET Blocks :
       /\ Cardinality(new) <= MaxOps
       /\ linked' = new
       /\ cancelled' = {x \in new : Owner[x] \in F}
       /\ faulted' = F
  /\ sent' = {}
  /\ completed' = {}
  /\ slot' = {}
  /\ stamped' = {}
  /\ met' = {}
  /\ installing' = {}
  /\ heard' = [c \in Calls |-> 0]
  /\ UNCHANGED <<pc, turn, walk, lua, connection>>

NextTurn ==
  /\ Idle /\ pc = "timers"
  /\ turn' = "top"
  /\ pc' = "reconcile"
  /\ UNCHANGED <<walk, lua, operations, faulted, connection>>

-----------------------------------------------------------------------------
LuaStep == (\E x \in Ops : CreateOp(x) \/ CancelOp(x)) \/ Return \/ Fail

ReconcileStep ==
  \/ CloseUnneeded \/ RetryLater \/ OpenFails \/ Activate
  \/ \E m \in Matches : VisitMatch(m)
  \/ MatchesDone
  \/ \E c \in Calls : VisitCall(c)
  \/ CallsDone
  \/ \E w \in Watches : VisitWatch(w)
  \/ WatchesDone \/ Registered \/ RegisterFails
  \/ \E c \in Calls : LostCall(c)
  \/ LostDone

ProcessStep ==
  \/ Hello \/ ProcessFails \/ ProcessDone
  \/ \E c \in Calls : AnswerCall(c)
  \/ \E m \in Matches : InstallReply(m) \/ Signal(m)

LoopStep ==
  \/ Wake \/ RetryDue \/ ProcessEvent \/ ProcessLate \/ Commit \/ NextTurn
  \/ \E b \in Blocks : SourceCallback(b)

Next == LuaStep \/ ReconcileStep \/ ProcessStep \/ LoopStep \/ Disconnect

Spec == Init /\ [][Next]_vars

-----------------------------------------------------------------------------
(* What the kernel and sd-bus wake the loop for: the descriptor of a bus    *)
(* that is setting up or going down, an answer or the timeout of a call     *)
(* that was sent, or the retry deadline (i3sd_dbus_deadline).               *)
Due ==
  \/ bus \in {"hello", "closing"}
  \/ slot \cap Calls # {}
  \/ installing # {}
  \/ bus = "none" /\ Needed /\ retry = "due"

(* The loop going round.                                                    *)
Progress ==
  \/ ReconcileStep \/ ProcessDone \/ ProcessLate \/ NextTurn
  \/ ProcessFails /\ UNCHANGED troubles
  \/ bus = "closing" /\ \E m \in Matches : InstallReply(m)

(* Callbacks return and the loop goes round; a call that was sent is        *)
(* answered or expires, and is dispatched in some turn; what is due wakes   *)
(* the loop.                                                                *)
FairSpec ==
  /\ Spec
  /\ WF_vars(Return)
  /\ SF_vars(Progress)
  /\ \A c \in Calls : SF_vars(AnswerCall(c))
  /\ WF_vars(RetryDue)
  /\ WF_vars(Due /\ Wake)

(* Moreover something else wakes the loop now and then: a timer of a block  *)
(* that shows a clock or polls.                                             *)
PolledSpec == FairSpec /\ WF_vars(Wake)

-----------------------------------------------------------------------------
TypeOK ==
  /\ pc \in {"reconcile", "matches", "calls", "watches", "register", "lost",
             "wait", "events", "process", "timers"}
  /\ turn \in {"top", "event", "late"}
  /\ walk \subseteq linked
  /\ lua \in Blocks \cup {NoBlock}
  /\ linked \subseteq Ops
  /\ Cardinality(linked) <= MaxOps
  /\ cancelled \subseteq linked
  /\ sent \subseteq linked \cap Calls
  /\ completed \subseteq sent
  /\ slot \subseteq linked \ Watches
  /\ stamped \cup met \subseteq linked \ Calls
  /\ installing \subseteq slot \cap Matches
  /\ faulted \subseteq Blocks
  /\ bus \in {"none", "hello", "open", "closing"}
  /\ retry \in {"no", "wait", "due"}
  /\ heard \in [Calls -> 0..2]
  /\ troubles \in 0..MaxTroubles

(* A callback that sd-bus holds belongs to an operation that exists, was    *)
(* started on this connection and still waits: otherwise sd-bus would call  *)
(* back into freed memory, or into a generation that is gone.               *)
SlotsLive ==
  \A x \in slot :
    /\ bus # "none"
    /\ x \in linked \ Settled
    /\ x \in sent \cup met

(* A call that was sent and is not settled is known to the connection, or   *)
(* the walk over a lost one will get to it: it is never left to wait for an *)
(* answer that cannot come.                                                 *)
NoCallForgotten ==
  \A c \in InFlight :
    Allowed(c) => c \in slot \/ (pc = "lost" /\ c \in walk)

(* When the loop waits, no settled call takes up one of the 1024 operations. *)
NothingRetained == pc = "wait" => Settled \cap Calls \cap linked = {}

(* A call is answered once: not twice, not after it was cancelled, not in a *)
(* block that was faulted.                                                  *)
AnsweredProperly ==
  [][\A c \in Calls : heard'[c] > heard[c] =>
       heard[c] = 0 /\ c \in linked \ cancelled /\ Owner[c] \notin faulted]_vars

(* A call of a healthy block is answered, cancelled, or gone with a reload. *)
Waiting(c) == c \in linked \ Settled /\ Allowed(c)
CallsSettle == \A c \in Calls : Waiting(c) ~> ~Waiting(c)

(* A match or a watch is started on the connection there is, after every    *)
(* loss of the connection again.                                            *)
Unstarted(x) == x \in linked \ (cancelled \cup met) /\ Allowed(x)
OperationsStart == \A x \in Matches \cup Watches : Unstarted(x) ~> ~Unstarted(x)
=============================================================================
