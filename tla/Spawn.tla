-------------------------------- MODULE Spawn --------------------------------
(***************************************************************************)
(* The child processes of ctx:spawn: the slots of src/src/spawn.c, their   *)
(* pipes, deadlines and cancellation, and the turns of the event loop that *)
(* serve them (src/src/main.c).                                            *)
(*                                                                         *)
(* A child leads a process group.  The descendants it forks are one more   *)
(* process of the group that holds the same pipe.  Output is counted in    *)
(* chunks.  Process ids are used again once the kernel may use them again. *)
(* Time is left out but for deadlines that pass.                           *)
(***************************************************************************)
EXTENDS Integers

CONSTANTS
  NSlots,     (* I3SD_MAX_SPAWNS                                            *)
  Blocks,     (* the blocks of every generation                             *)
  NoBlock,    (* the block of an inactive slot                              *)
  Pids,       (* process ids                                                *)
  NoPid,      (* no process id, or one that is not in use any more          *)
  MaxSpawns,  (* bound on the number of ctx:spawn calls                     *)
  MaxWrite,   (* bound on the chunks the child of each call, and its        *)
              (* descendants, write                                         *)
  Limit       (* stdout_limit in chunks                                     *)

ASSUME SpawnAssumption ==
  /\ {NSlots, MaxSpawns, Limit} \subseteq Nat
  /\ MaxWrite \in [1..MaxSpawns -> Nat]
  /\ NoBlock \notin Blocks
  /\ NoPid \notin Pids

Slots == 1..NSlots
Serials == 1..MaxSpawns

VARIABLES
  slots,      (* app.spawns                                                 *)
  faulted,    (* the faulted blocks of app.current                          *)
  serial,     (* app.next_spawn_serial                                      *)
  pc,         (* where the event loop is                                    *)
  batch,      (* events epoll_wait returned that are not handled yet        *)
  cursor,     (* the slot i3sd_spawn_expire looks at next                   *)
  runner,     (* the block whose Lua callback runs                          *)
  back,       (* where the loop goes on when it returns                     *)
  procs,      (* the processes with each id                                 *)
  sigchld,    (* SIGCHLD is pending                                         *)
  unread,     (* chunks in the pipe of each child                           *)
  written,    (* history: chunks each child and its descendants wrote       *)
  died,       (* history: how the child of each slot ended                  *)
  fate,       (* history: what became of each call of ctx:spawn             *)
  delivered   (* history: chunks its callback got with success              *)

loop == <<faulted, batch, cursor, runner, back>>
kernel == <<procs, sigchld, unread, written, died>>
history == <<fate, delivered>>
vars == <<slots, serial, pc, loop, kernel, history>>

FreeSlot ==
  [active |-> FALSE, pid |-> NoPid, open |-> FALSE, block |-> NoBlock,
   old |-> FALSE, serial |-> 0, deadline |-> "none", status |-> "no", output |-> 0,
   closed |-> FALSE, exited |-> FALSE, overflow |-> FALSE, io_error |-> FALSE,
   timed_out |-> FALSE, pending |-> FALSE]

NoProcess == [leader |-> "none", family |-> FALSE, serial |-> 0]

(* The sources of epoll events other than the slots.                       *)
Signalfd == 0
Other == -1

-----------------------------------------------------------------------------
(* The kernel: processes, pipes and signals.                               *)

(* Processes act at any time.  Only waiting, reading and reaping tell when; *)
(* what they do during the rest of a turn may as well come before or after.*)
Looking == pc \in {"wait", "events", "reap"}

Writers(x) ==
  \E p \in Pids : /\ procs[p].serial = x
                  /\ procs[p].leader = "running" \/ procs[p].family

(* Nobody asks how a child without a slot ends.                            *)
Ended(x, status) ==
  IF \E s \in Slots : slots[s].active /\ slots[s].serial = x
  THEN [died EXCEPT ![x] = status] ELSE died

(* An id is free once the leader is reaped and its group is empty.         *)
Normal(process) ==
  IF process.leader = "none" /\ ~ process.family THEN NoProcess ELSE process

Alive(p) == procs[p].leader \in {"running", "quiet"}

(* The child closes its output and runs on.                                *)
Quieten(p) ==
  /\ Looking
  /\ procs[p].leader = "running"
  /\ procs' = [procs EXCEPT ![p].leader = "quiet"]
  /\ UNCHANGED <<slots, serial, pc, loop, sigchld, unread, written, died,
                 history>>

Exit(p, status) ==
  /\ Looking
  /\ Alive(p)
  /\ procs' = [procs EXCEPT ![p].leader = "zombie"]
  /\ died' = Ended(procs[p].serial, status)
  /\ sigchld' = TRUE
  /\ UNCHANGED <<slots, serial, pc, loop, unread, written, history>>

Fork(p) ==
  /\ Looking
  /\ procs[p].leader = "running"
  /\ ~ procs[p].family
  /\ procs' = [procs EXCEPT ![p].family = TRUE]
  /\ UNCHANGED <<slots, serial, pc, loop, sigchld, unread, written, died,
                 history>>

FamilyExits(p) ==
  /\ Looking
  /\ procs[p].family
  /\ procs' = [procs EXCEPT ![p] = Normal([@ EXCEPT !.family = FALSE])]
  /\ UNCHANGED <<slots, serial, pc, loop, sigchld, unread, written, died,
                 history>>

(* Writes to a pipe whose read end is closed are of no interest.           *)
Write(p) ==
  LET x == procs[p].serial
  IN  /\ Looking
      /\ procs[p].leader = "running" \/ procs[p].family
      /\ \E s \in Slots : slots[s].open /\ slots[s].serial = x
      /\ written[x] < MaxWrite[x]
      /\ unread' = [unread EXCEPT ![x] = @ + 1]
      /\ written' = [written EXCEPT ![x] = @ + 1]
      /\ UNCHANGED <<slots, serial, pc, loop, procs, sigchld, died, history>>

(* kill(-pid, SIGKILL).  SIGTERM may be ignored, and a process may exit at *)
(* any time without it: it changes nothing here.                           *)
KillGroup(pid) ==
  IF pid = NoPid THEN UNCHANGED <<procs, died, sigchld>>
  ELSE LET x == procs[pid].serial
           alive == Alive(pid)
       IN  /\ procs' = [procs EXCEPT ![pid] = Normal(
                [@ EXCEPT !.leader = IF alive THEN "zombie"
                                     ELSE procs[pid].leader,
                          !.family = FALSE])]
           /\ died' = IF alive THEN Ended(x, "other") ELSE died
           /\ sigchld' = (sigchld \/ alive)

(* A deadline passes.  The clock is read before i3sd_spawn_expire.         *)
Elapse(s) ==
  /\ slots[s].active
  /\ slots[s].deadline = "later"
  /\ Looking
  /\ slots' = [slots EXCEPT ![s].deadline = "due"]
  /\ UNCHANGED <<serial, pc, loop, kernel, history>>

-----------------------------------------------------------------------------
(* Completion and cancellation.                                            *)

Finished(slot) == slot.active /\ slot.closed /\ slot.exited

(* Faulty variant: what could not be kept does not count.                  *)
SucceededTruncated(slot) ==
  slot.status = "zero" /\ ~ slot.io_error /\ ~ slot.timed_out

Succeeded(slot) ==
  slot.status = "zero" /\ ~ slot.overflow /\ ~ slot.io_error /\ ~ slot.timed_out

Outcome(slot) ==
  IF slot.timed_out THEN "timeout"
  ELSE IF Succeeded(slot) THEN "success" ELSE "failure"

Enter(block, return) ==
  /\ pc' = "callback"
  /\ runner' = block
  /\ back' = return

(* Store a slot and try to finish it (finish_process): the slot is free    *)
(* before the callback runs.  The loop goes on at return.                  *)
Settle(s, slot, return) ==
  IF ~ Finished(slot)
  THEN /\ slots' = [slots EXCEPT ![s] = slot]
       /\ pc' = return
       /\ UNCHANGED <<history, runner, back>>
  ELSE /\ slots' = [slots EXCEPT ![s] = FreeSlot]
       /\ IF ~ slot.old /\ slot.block \notin faulted
          THEN /\ fate' = [fate EXCEPT ![slot.serial] = Outcome(slot)]
               /\ delivered' = [delivered EXCEPT ![slot.serial] =
                    IF Succeeded(slot) THEN slot.output ELSE 0]
               /\ Enter(slot.block, return)
          ELSE /\ fate' = [fate EXCEPT ![slot.serial] = "cancelled"]
               /\ pc' = return
               /\ UNCHANGED <<delivered, runner, back>>

(* Faulty variant: a cancelled child keeps its slot until it is done.      *)
ReleasedLater(slot) == slot

(* release_slot after cancel_process.  A closed pipe drops what is in it.  *)
Released(slot) == FreeSlot

Cancel(which) ==
  /\ slots' = [s \in Slots |-> IF s \in which THEN Released(slots[s])
                               ELSE slots[s]]
  /\ fate' = [x \in Serials |->
                IF \E s \in which : slots[s].serial = x THEN "cancelled"
                ELSE fate[x]]
  /\ unread' = [x \in Serials |->
                  IF \E s \in which : slots[s].serial = x THEN 0 ELSE unread[x]]
  /\ UNCHANGED delivered

-----------------------------------------------------------------------------
(* What a Lua callback does.                                               *)

(* The free slot i3sd_spawn_open takes.                                    *)
Free(s) == ~ slots[s].active /\ \A t \in 1..(s - 1) : slots[t].active

NewSlot(timeout) ==
  [FreeSlot EXCEPT !.active = TRUE, !.block = runner,
                   !.serial = serial + 1, !.deadline = timeout]

Spawn(s, timeout) ==
  /\ pc = "callback"
  /\ serial < MaxSpawns
  /\ Free(s)
  /\ serial' = serial + 1
  /\ \E p \in Pids :
       /\ procs[p] = NoProcess
       /\ procs' = [procs EXCEPT ![p] = [NoProcess EXCEPT !.leader = "running",
                                                          !.serial = serial']]
       /\ slots' = [slots EXCEPT ![s] = [NewSlot(timeout) EXCEPT !.pid = p,
                                                                !.open = TRUE]]
  /\ fate' = [fate EXCEPT ![serial'] = "pending"]
  /\ UNCHANGED <<pc, loop, sigchld, unread, written, died, delivered>>

(* The pipe cannot be registered: the child runs on, without a slot.  The  *)
(* other failures of the setup leave nothing behind.                       *)
SetupFails ==
  /\ pc = "callback"
  /\ serial < MaxSpawns
  /\ \E s \in Slots : Free(s)
  /\ serial' = serial + 1
  /\ \E p \in Pids :
       /\ procs[p] = NoProcess
       /\ procs' = [procs EXCEPT ![p] = [NoProcess EXCEPT !.leader = "running",
                                                          !.serial = serial']]
  /\ fate' = [fate EXCEPT ![serial'] = "refused"]
  /\ UNCHANGED <<slots, pc, loop, sigchld, unread, written, died, delivered>>

(* The command cannot be executed: status 127, delivered later.            *)
ExecFails(s) ==
  /\ pc = "callback"
  /\ serial < MaxSpawns
  /\ Free(s)
  /\ serial' = serial + 1
  /\ slots' = [slots EXCEPT ![s] =
       [NewSlot("none") EXCEPT !.status = "other", !.exited = TRUE,
                               !.closed = TRUE, !.pending = TRUE]]
  /\ died' = [died EXCEPT ![serial'] = "other"]
  /\ fate' = [fate EXCEPT ![serial'] = "pending"]
  /\ UNCHANGED <<pc, loop, procs, sigchld, unread, written, delivered>>

(* cancel() on any handle of the generation.                               *)
CancelSerial(s) ==
  /\ pc = "callback"
  /\ slots[s].active
  /\ ~ slots[s].old
  /\ Cancel({s})
  /\ UNCHANGED <<serial, pc, loop, procs, sigchld, written, died>>

CallbackReturns ==
  /\ pc = "callback"
  /\ pc' = back
  /\ runner' = NoBlock
  /\ back' = "wait"
  /\ UNCHANGED <<slots, serial, faulted, batch, cursor, kernel, history>>

(* Faulty variant: a faulted block keeps its children.                     *)
OwnedNone(block) == {}

(* The slots i3sd_spawn_cancel_owned finds for a block.                    *)
Owned(block) ==
  {s \in Slots : slots[s].active /\ slots[s].block = block /\ ~ slots[s].old}

(* i3sd_fault_block.                                                       *)
CallbackFails ==
  /\ pc = "callback"
  /\ faulted' = faulted \cup {runner}
  /\ Cancel(Owned(runner))
  /\ pc' = back
  /\ runner' = NoBlock
  /\ back' = "wait"
  /\ UNCHANGED <<serial, batch, cursor, procs, sigchld, written, died>>

-----------------------------------------------------------------------------
(* A turn of the event loop.                                               *)

Ready ==
  {s \in Slots : /\ slots[s].open
                 /\ unread[slots[s].serial] > 0 \/ ~ Writers(slots[s].serial)}
  \cup {x \in {Signalfd} : sigchld}

(* Faulty variant: a completion without a child wakes nobody.              *)
DeadlineNoPending ==
  \E s \in Slots : slots[s].active /\ slots[s].deadline = "due"

(* i3sd_spawn_deadline has passed.                                         *)
Deadline ==
  \E s \in Slots : slots[s].active /\ (slots[s].pending \/
                                       slots[s].deadline = "due")

Wake(events) ==
  /\ pc = "wait"
  /\ Ready # {} \/ Deadline \/ Other \in events
  /\ pc' = "events"
  /\ batch' = events
  /\ UNCHANGED <<slots, serial, faulted, cursor, runner, back,
                 kernel, history>>

(* The event of another source runs a callback: a click, a bus message.    *)
HandleOther(b) ==
  /\ pc = "events"
  /\ Other \in batch
  /\ b \notin faulted
  /\ batch' = batch \ {Other}
  /\ Enter(b, "events")
  /\ UNCHANGED <<slots, serial, faulted, cursor, kernel, history>>

(* SIGCHLD.                                                                *)
ReadSignal ==
  /\ pc = "events"
  /\ Signalfd \in batch
  /\ batch' = batch \ {Signalfd}
  /\ sigchld' = FALSE
  /\ pc' = "reap"
  /\ UNCHANGED <<slots, serial, faulted, cursor, runner, back,
                 procs, unread, written, died, history>>

(* Faulty variant: the slot keeps the id of the reaped child.              *)
ReapedKeepsPid(slot) ==
  [slot EXCEPT !.exited = TRUE, !.status = died[slot.serial]]

Reaped(slot) == [slot EXCEPT !.pid = NoPid, !.exited = TRUE,
                             !.status = died[slot.serial]]

(* One round of waitpid: the child of a slot, or one that lost its slot.   *)
Reap(p) ==
  /\ pc = "reap"
  /\ procs[p].leader = "zombie"
  /\ procs' = [procs EXCEPT ![p] = Normal([@ EXCEPT !.leader = "none"])]
  /\ \/ \E s \in Slots : /\ slots[s].active
                         /\ slots[s].pid = p
                         /\ Settle(s, Reaped(slots[s]), "reap")
     \/ /\ \A s \in Slots : slots[s].active => slots[s].pid # p
        /\ UNCHANGED <<slots, pc, runner, back, history>>
  /\ UNCHANGED <<serial, faulted, batch, cursor, sigchld, unread,
                 written, died>>

ReapDone ==
  /\ pc = "reap"
  /\ \A p \in Pids : procs[p].leader # "zombie"
  /\ pc' = "events"
  /\ UNCHANGED <<slots, serial, loop, kernel, history>>

Kept(slot, n) ==
  [slot EXCEPT !.output = IF @ + n < Limit THEN @ + n ELSE Limit,
               !.overflow = @ \/ slot.output + n > Limit]

Closed(slot, io_error) ==
  [slot EXCEPT !.open = FALSE, !.closed = TRUE, !.io_error = @ \/ io_error]

(* i3sd_spawn_read takes n chunks: until the pipe is empty, its budget is  *)
(* used up, it is at its end, or reading fails.  A slot may have another   *)
(* child than when the event came, or none.                                *)
ReadNothing(s) ==
  /\ pc = "events"
  /\ s \in batch
  /\ ~ slots[s].open
  /\ batch' = batch \ {s}
  /\ UNCHANGED <<slots, serial, pc, faulted, cursor, runner, back,
                 kernel, history>>

Read(s) ==
  LET x == slots[s].serial
      end(n) == n = unread[x] /\ ~ Writers(x)
      taken(n) == Kept(slots[s], n)
  IN  /\ pc = "events"
      /\ s \in batch
      /\ slots[s].open
      /\ batch' = batch \ {s}
      /\ \E n \in 0..unread[x] :
           \/ /\ n > 0 \/ (unread[x] = 0 /\ ~ end(n))
              /\ unread' = [unread EXCEPT ![x] = @ - n]
              /\ Settle(s, taken(n), "events")
           \/ /\ end(n)
              /\ unread' = [unread EXCEPT ![x] = 0]
              /\ Settle(s, Closed(taken(n), FALSE), "events")
           \/ /\ unread' = [unread EXCEPT ![x] = 0]
              /\ Settle(s, Closed(taken(n), TRUE), "events")
      /\ UNCHANGED <<serial, faulted, cursor, procs, sigchld,
                     written, died>>

BeginExpire ==
  /\ pc = "events"
  /\ batch \subseteq {Other}
  /\ batch' = {}
  /\ pc' = "expire"
  /\ cursor' = 1
  /\ UNCHANGED <<slots, serial, faulted, runner, back, kernel,
                 history>>

(* The output of a child past its deadline is waited for no longer.        *)
Expired(slot) ==
  Closed([slot EXCEPT !.deadline = "none", !.timed_out = TRUE], FALSE)

Expire ==
  LET slot == slots[cursor]
  IN  /\ pc = "expire"
      /\ cursor \in Slots
      /\ cursor' = cursor + 1
      /\ \/ /\ slot.active /\ slot.pending
            /\ Settle(cursor, [slot EXCEPT !.pending = FALSE], "expire")
            /\ UNCHANGED <<procs, died, sigchld, unread>>
         \/ /\ slot.active /\ ~ slot.pending /\ slot.deadline = "due"
            /\ KillGroup(slot.pid)
            /\ unread' = [unread EXCEPT ![slot.serial] = 0]
            /\ Settle(cursor, Expired(slot), "expire")
         \/ /\ slot.active => ~ slot.pending /\ slot.deadline # "due"
            /\ UNCHANGED <<slots, pc, runner, back, procs, died, sigchld,
                           unread, history>>
      /\ UNCHANGED <<serial, faulted, batch, written>>

ExpireDone ==
  /\ pc = "expire"
  /\ cursor \notin Slots
  /\ pc' = "timers"
  /\ cursor' = 1
  /\ UNCHANGED <<slots, serial, faulted, batch, runner, back, kernel, history>>

(* A timer's callback, or the live refresh of a block.  One of each a turn *)
(* will do: callbacks of several blocks are those of several turns.        *)
Call(b) ==
  /\ pc \in {"timers", "refresh"}
  /\ b \notin faulted
  /\ Enter(b, IF pc = "timers" THEN "turn" ELSE "destroy")
  /\ UNCHANGED <<slots, serial, faulted, batch, cursor, kernel, history>>

EndTurn ==
  /\ pc \in {"timers", "turn"}
  /\ pc' = "wait"
  /\ UNCHANGED <<slots, serial, loop, kernel, history>>

(* commit_generation makes the candidate current; the children of the old  *)
(* generation go with it, after the live refresh.  ctx:spawn does nothing  *)
(* while a candidate is staged.                                            *)
Commit ==
  /\ pc \in {"timers", "turn"}
  /\ pc' = "refresh"
  /\ faulted' = {}
  /\ slots' = [s \in Slots |-> [slots[s] EXCEPT !.old = slots[s].active]]
  /\ UNCHANGED <<serial, batch, cursor, runner, back, kernel, history>>

DestroyOld ==
  /\ pc \in {"refresh", "destroy"}
  /\ Cancel({s \in Slots : slots[s].old})
  /\ pc' = "wait"
  /\ UNCHANGED <<serial, loop, procs, sigchld, written, died>>

-----------------------------------------------------------------------------
Init ==
  /\ slots = [s \in Slots |-> FreeSlot]
  /\ faulted = {}
  /\ serial = 0
  /\ pc = "wait"
  /\ batch = {}
  /\ cursor = 1
  /\ runner = NoBlock
  /\ back = "wait"
  /\ procs = [p \in Pids |-> NoProcess]
  /\ sigchld = FALSE
  /\ unread = [x \in Serials |-> 0]
  /\ written = [x \in Serials |-> 0]
  /\ died = [x \in Serials |-> "no"]
  /\ fate = [x \in Serials |-> "unused"]
  /\ delivered = [x \in Serials |-> 0]

Environment ==
  \/ \E p \in Pids : Exit(p, "zero") \/ Exit(p, "other") \/ Quieten(p)
                     \/ Fork(p) \/ FamilyExits(p) \/ Write(p)
  \/ \E s \in Slots : Elapse(s)
  \/ Wake(Ready \cup {Other})

Lua ==
  \/ \E s \in Slots : \/ Spawn(s, "none") \/ Spawn(s, "later")
                      \/ ExecFails(s) \/ CancelSerial(s)
  \/ SetupFails

Loop ==
  \/ CallbackReturns \/ CallbackFails
  \/ Wake(Ready)
  \/ \E b \in Blocks : HandleOther(b) \/ Call(b)
  \/ ReadSignal
  \/ \E p \in Pids : Reap(p)
  \/ ReapDone
  \/ \E s \in Slots : ReadNothing(s) \/ Read(s)
  \/ BeginExpire \/ Expire \/ ExpireDone
  \/ EndTurn \/ Commit \/ DestroyOld

Next == Environment \/ Lua \/ Loop

Spec == Init /\ [][Next]_vars

(* Callbacks return, the loop goes round as long as it has work, and time  *)
(* passes.                                                                 *)
FairSpec ==
  /\ Spec
  /\ WF_vars(Loop)
  /\ \A s \in Slots : SF_vars(Elapse(s))

-----------------------------------------------------------------------------
(* Properties.                                                             *)

Fates == {"unused", "refused", "pending", "cancelled", "success", "failure",
          "timeout"}

SlotStates ==
  [active : BOOLEAN, pid : Pids \cup {NoPid}, open : BOOLEAN,
   block : Blocks \cup {NoBlock}, old : BOOLEAN, serial : 0..MaxSpawns,
   deadline : {"none", "later", "due"}, status : {"no", "zero", "other"},
   output : 0..Limit, closed : BOOLEAN, exited : BOOLEAN, overflow : BOOLEAN,
   io_error : BOOLEAN, timed_out : BOOLEAN, pending : BOOLEAN]

Processes ==
  [leader : {"none", "running", "quiet", "zombie"}, family : BOOLEAN,
   serial : 0..MaxSpawns]

TypeOK ==
  /\ slots \in [Slots -> SlotStates]
  /\ faulted \subseteq Blocks
  /\ serial \in 0..MaxSpawns
  /\ pc \in {"wait", "events", "reap", "expire", "timers", "turn", "refresh",
              "destroy", "callback"}
  /\ batch \subseteq Slots \cup {Signalfd, Other}
  /\ cursor \in 1..(NSlots + 1)
  /\ runner \in Blocks \cup {NoBlock}
  /\ back \in {"wait", "events", "reap", "expire", "turn", "destroy"}
  /\ procs \in [Pids -> Processes]
  /\ sigchld \in BOOLEAN
  /\ {unread, written} \subseteq [Serials -> Nat]
  /\ \A x \in Serials : unread[x] <= written[x] /\ written[x] <= MaxWrite[x]
  /\ died \in [Serials -> {"no", "zero", "other"}]
  /\ fate \in [Serials -> Fates]
  /\ delivered \in [Serials -> 0..Limit]

(* The process id in a slot names the slot's own child, which is not       *)
(* reaped yet: a signal never reaches, and a wait status never comes from, *)
(* a process that got the same id later.                                   *)
PidsOwned ==
  \A s \in Slots : slots[s].active /\ slots[s].pid # NoPid =>
    /\ procs[slots[s].pid].leader # "none"
    /\ procs[slots[s].pid].serial = slots[s].serial

(* Every call that returned a handle, and was neither answered nor         *)
(* cancelled, has exactly one slot, of a block that may still be called.   *)
PendingHasSlot ==
  /\ \A x \in Serials :
       fate[x] = "pending" <=> \E s \in Slots : slots[s].active
                                                /\ slots[s].serial = x
  /\ \A s, t \in Slots :
       slots[s].active /\ slots[t].active /\ slots[s].serial = slots[t].serial
         => s = t
  /\ \A s \in Slots : slots[s].active =>
       IF slots[s].old THEN pc \in {"refresh", "destroy"} \/ back = "destroy"
                       ELSE slots[s].block \notin faulted

(* A call is answered once, and never after it was cancelled.              *)
AnsweredOnce ==
  [][\A x \in Serials : fate[x] \notin {"unused", "pending"} =>
       fate'[x] = fate[x]]_vars

(* Success is reported only for a child that ended with status zero, with  *)
(* everything it and its descendants wrote.                                *)
HonestSuccess ==
  \A x \in Serials : fate[x] = "success" =>
    died[x] = "zero" /\ delivered[x] = written[x]

(* A call whose child has ended and whose pipe is closed is answered, and  *)
(* so is one with a timeout, whatever its processes do.                    *)
Answered ==
  \A x \in Serials :
    (/\ fate[x] = "pending"
     /\ \/ died[x] # "no" /\ ~ Writers(x)
        \/ \E s \in Slots : /\ slots[s].active /\ slots[s].serial = x
                            /\ slots[s].deadline # "none")
      ~> fate[x] # "pending"

(* PLAN.rst: a timeout sends SIGKILL to the child's process group.         *)
TimeoutKillsGroup ==
  \A x \in Serials : fate[x] = "timeout" => ~ Writers(x)
=============================================================================
