----------------------------- MODULE SpawnProofs -----------------------------
(***************************************************************************)
(* Child processes: a slot never holds a process id that is not its own    *)
(* child's, a pending call never loses its slot, success is reported for   *)
(* complete output only and every call is answered at most once, for any   *)
(* blocks, process ids, slots, limits and sizes of output.                 *)
(***************************************************************************)
EXTENDS Spawn, TLAPS

(* What an open pipe, a doomed slot and an occupied slot have.             *)
Occupied ==
  \A s \in Slots : /\ slots[s].open => slots[s].active /\ ~ slots[s].closed
                   /\ slots[s].old => slots[s].active
                   /\ slots[s].active => slots[s].block \in Blocks

(* Serial numbers are handed out upwards, and a process belongs to one     *)
(* call: nothing is known yet of a call that was not made.                 *)
Numbered ==
  /\ \A s \in Slots : slots[s].active => slots[s].serial \in 1..serial
  /\ \A x \in Serials : x > serial => fate[x] = "unused" /\ written[x] = 0
  /\ \A p \in Pids : procs[p].serial <= serial
  /\ \A p, q \in Pids :
       procs[p].serial = procs[q].serial /\ procs[p].serial # 0 => p = q

(* A callback runs for a block that has not failed; outside one there is   *)
(* nothing to return to.                                                   *)
Called ==
  IF pc = "callback" THEN runner \in Blocks \ faulted ELSE back = "wait"

(* A slot that saw its child end holds the status the child ended with,    *)
(* and no process of that call is alive.                                   *)
Tracked ==
  \A s \in Slots : slots[s].active /\ slots[s].exited =>
    /\ slots[s].status = died[slots[s].serial]
    /\ \A p \in Pids : procs[p].serial = slots[s].serial => ~ Alive(p)

(* Nothing that was written was thrown away.                               *)
Whole(slot) == ~ slot.overflow /\ ~ slot.io_error /\ ~ slot.timed_out

(* What was kept and what is still in the pipe is what was written, and a  *)
(* closed pipe holds nothing.                                              *)
Counted ==
  \A s \in Slots : slots[s].active /\ Whole(slots[s]) =>
    LET x == slots[s].serial
    IN  /\ slots[s].output + unread[x] = written[x]
        /\ slots[s].closed => unread[x] = 0

(* The inductive invariant.                                                *)
Core ==
  TypeOK /\ Occupied /\ Numbered /\ Called /\ Tracked /\ Counted /\ PidsOwned
  /\ PendingHasSlot /\ HonestSuccess

(* The states of a group leader.                                           *)
Leaders == {"none", "running", "quiet", "zombie"}

(* The fields of a process.                                                *)
LEMMA ProcessFields ==
  ASSUME NEW q \in Processes
  PROVE  /\ q.serial \in 0..MaxSpawns /\ q.family \in BOOLEAN
         /\ q.leader \in Leaders
  BY DEF Processes, Leaders

(* A change of the leader or of the family of a process leaves the rest.   *)
LEMMA ProcessChange ==
  ASSUME NEW q \in Processes, NEW l \in Leaders, NEW f \in BOOLEAN
  PROVE  /\ [q EXCEPT !.leader = l] \in Processes
         /\ [q EXCEPT !.leader = l].leader = l
         /\ [q EXCEPT !.leader = l].family = q.family
         /\ [q EXCEPT !.leader = l].serial = q.serial
         /\ [q EXCEPT !.family = f] \in Processes
         /\ [q EXCEPT !.family = f].leader = q.leader
         /\ [q EXCEPT !.family = f].serial = q.serial
         /\ [q EXCEPT !.leader = l, !.family = f] \in Processes
         /\ [q EXCEPT !.leader = l, !.family = f].leader = l
         /\ [q EXCEPT !.leader = l, !.family = f].serial = q.serial
  BY DEF Processes, Leaders

(* The child that a fork makes.                                            *)
LEMMA NewProcess ==
  ASSUME NEW x \in 0..MaxSpawns
  PROVE  LET q == [NoProcess EXCEPT !.leader = "running", !.serial = x]
         IN  /\ q \in Processes
             /\ q.leader = "running" /\ q.serial = x
  BY DEF Processes, NoProcess

(* A free process id.                                                      *)
LEMMA EmptyProcess ==
  /\ NoProcess \in Processes
  /\ NoProcess.leader = "none" /\ NoProcess.serial = 0
  BY SpawnAssumption DEF Processes, NoProcess

(* A process id is free once the leader and the family are gone.           *)
LEMMA NormalProcess ==
  ASSUME NEW q \in Processes
  PROVE  /\ Normal(q) \in Processes
         /\ Normal(q).leader = q.leader
         /\ Normal(q).serial \in {0, q.serial}
         /\ q.leader # "none" => Normal(q) = q
  BY EmptyProcess, ProcessFields DEF Normal

(* A slot that spawn_slot_release cleared.                                 *)
LEMMA FreeSlotState ==
  /\ FreeSlot \in SlotStates
  /\ ~ FreeSlot.active /\ ~ FreeSlot.open /\ ~ FreeSlot.old
  /\ ~ FreeSlot.exited /\ ~ FreeSlot.closed /\ FreeSlot.output = 0
  /\ FreeSlot.pid = NoPid
  BY SpawnAssumption DEF FreeSlot, SlotStates

(* A slot as ctx:spawn fills it, before the child runs.                    *)
LEMMA NewSlotState ==
  ASSUME NEW timeout \in {"none", "later"},
         serial + 1 \in 1..MaxSpawns, runner \in Blocks \cup {NoBlock}
  PROVE  LET q == NewSlot(timeout)
         IN /\ q \in SlotStates
            /\ q.active /\ ~ q.open /\ ~ q.old /\ ~ q.exited /\ ~ q.closed
            /\ q.pid = NoPid
            /\ q.serial = serial + 1 /\ q.block = runner /\ q.output = 0
<1>1. serial + 1 \in 0..MaxSpawns
  BY SpawnAssumption
<1> QED BY <1>1, FreeSlotState DEF NewSlot, SlotStates

(* The slot once the child runs.                                           *)
LEMMA SpawnedState ==
  ASSUME NEW q \in SlotStates, NEW p \in Pids
  PROVE  LET r == [q EXCEPT !.pid = p, !.open = TRUE]
         IN /\ r \in SlotStates
            /\ r.active = q.active /\ r.old = q.old /\ r.exited = q.exited
            /\ r.closed = q.closed
            /\ r.serial = q.serial /\ r.block = q.block /\ r.output = q.output
            /\ r.open /\ r.pid = p
  BY DEF SlotStates

(* The slot when the child could not be executed.                          *)
LEMMA FailedState ==
  ASSUME NEW q \in SlotStates
  PROVE  LET r == [q EXCEPT !.status = "other", !.exited = TRUE,
                            !.closed = TRUE, !.pending = TRUE]
         IN /\ r \in SlotStates
            /\ r.active = q.active /\ r.old = q.old /\ r.open = q.open
            /\ r.serial = q.serial /\ r.block = q.block
            /\ r.output = q.output /\ r.pid = q.pid
            /\ r.exited /\ r.closed /\ r.status = "other"
  BY DEF SlotStates

(* The slot after the child was reaped, as a record.                       *)
LEMMA ReapedState ==
  ASSUME NEW q \in SlotStates, died[q.serial] \in {"no", "zero", "other"}
  PROVE  Reaped(q) \in SlotStates
  BY SpawnAssumption DEF Reaped, SlotStates

(* Reaping sets the exit status and gives the process id up.               *)
LEMMA ReapedFields ==
  ASSUME NEW q \in SlotStates
  PROVE  LET r == Reaped(q)
         IN /\ r.active = q.active /\ r.block = q.block /\ r.old = q.old
            /\ r.serial = q.serial
            /\ r.open = q.open /\ r.closed = q.closed /\ r.output = q.output
            /\ r.overflow = q.overflow /\ r.io_error = q.io_error
            /\ r.timed_out = q.timed_out
            /\ r.pid = NoPid /\ r.exited /\ r.status = died[q.serial]
  BY DEF Reaped, SlotStates

(* The slot after a read: what fits is kept, the rest is marked.           *)
LEMMA KeptState ==
  ASSUME NEW q \in SlotStates, NEW n \in Nat
  PROVE  LET r == Kept(q, n)
         IN /\ r \in SlotStates
            /\ r.active = q.active /\ r.block = q.block /\ r.old = q.old
            /\ r.serial = q.serial
            /\ r.open = q.open /\ r.closed = q.closed /\ r.exited = q.exited
            /\ r.io_error = q.io_error /\ r.timed_out = q.timed_out
            /\ r.pid = q.pid /\ r.status = q.status
            /\ ~ r.overflow => ~ q.overflow /\ r.output = q.output + n
<1> DEFINE o == IF q.output + n < Limit THEN q.output + n ELSE Limit
           e == q.overflow \/ q.output + n > Limit
           r == [q EXCEPT !.output = o, !.overflow = e]
<1>1. q.output \in Nat /\ o \in 0..Limit
  BY SpawnAssumption DEF SlotStates
<1>2. e \in BOOLEAN
  BY DEF SlotStates
<1>3. Kept(q, n) = r
  BY DEF Kept
<1>4. ~ e => ~ q.overflow /\ o = q.output + n
  BY <1>1, SpawnAssumption
<1> HIDE DEF o, e
<1>5.       /\ r \in SlotStates
            /\ r.active = q.active /\ r.block = q.block /\ r.old = q.old
            /\ r.serial = q.serial
            /\ r.open = q.open /\ r.closed = q.closed /\ r.exited = q.exited
            /\ r.io_error = q.io_error /\ r.timed_out = q.timed_out
            /\ r.pid = q.pid /\ r.status = q.status
            /\ r.output = o /\ (~ r.overflow => ~ e)
  BY <1>1, <1>2 DEF SlotStates
<1> HIDE DEF r
<1> QED BY <1>3, <1>5, <1>4

(* The slot after its pipe was closed, as a record.                        *)
LEMMA ClosedState ==
  ASSUME NEW q \in SlotStates, NEW e \in BOOLEAN
  PROVE  Closed(q, e) \in SlotStates
  BY SpawnAssumption DEF Closed, SlotStates

(* Closing the pipe touches the pipe and the error only.                   *)
LEMMA ClosedFields ==
  ASSUME NEW q \in SlotStates, NEW e \in BOOLEAN
  PROVE  LET r == Closed(q, e)
         IN /\ r.active = q.active /\ r.block = q.block /\ r.old = q.old
            /\ r.serial = q.serial
            /\ ~ r.open /\ r.closed /\ r.exited = q.exited
            /\ r.overflow = q.overflow /\ r.output = q.output
            /\ r.timed_out = q.timed_out
            /\ r.pid = q.pid /\ r.status = q.status
            /\ ~ r.io_error => ~ q.io_error /\ ~ e
  BY SpawnAssumption DEF Closed, SlotStates

(* The slot after its timeout, as a record.                                *)
LEMMA ExpiredState ==
  ASSUME NEW q \in SlotStates
  PROVE  Expired(q) \in SlotStates
<1>1. [q EXCEPT !.deadline = "none", !.timed_out = TRUE] \in SlotStates
  BY DEF SlotStates
<1> QED BY <1>1, ClosedState DEF Expired

(* A timeout closes the pipe and marks the slot.                           *)
LEMMA ExpiredFields ==
  ASSUME NEW q \in SlotStates
  PROVE  LET r == Expired(q)
         IN /\ r.active = q.active /\ r.block = q.block /\ r.old = q.old
            /\ r.serial = q.serial
            /\ ~ r.open /\ r.closed /\ r.exited = q.exited
            /\ r.timed_out /\ r.pid = q.pid /\ r.status = q.status
  BY DEF Expired, Closed, SlotStates

-----------------------------------------------------------------------------
(* Steps of the processes.                                                 *)

(* Steps that only take life from processes, and free ids whose leader is  *)
(* gone, keep the invariant.                                               *)
LEMMA ProcessesKeep ==
  ASSUME Core, procs' \in [Pids -> Processes], sigchld' \in BOOLEAN,
         \A p \in Pids :
           /\ procs'[p].serial \in {0, procs[p].serial}
           /\ procs[p].leader # "none" => /\ procs'[p].leader # "none"
                                          /\ procs'[p].serial = procs[p].serial
           /\ Alive(p)' => Alive(p),
         UNCHANGED <<slots, serial, pc, loop, unread, written, died, history>>
  PROVE  Core'
<1>1. TypeOK'
  BY DEF Core, TypeOK, loop, history
<1>2. Occupied' /\ Called'
  BY DEF Core, Occupied, Called, loop
<1>3. Numbered'
  BY DEF Core, TypeOK, Numbered, history, Processes
<1>4. Tracked'
  <2>1. \A s \in Slots : slots[s].active => slots[s].serial # 0
    BY DEF Core, TypeOK, Numbered
  <2> QED BY <2>1 DEF Core, Tracked
<1>5. Counted'
  BY DEF Core, Counted, Whole
<1>6. PidsOwned'
  BY DEF Core, TypeOK, PidsOwned, SlotStates
<1>7. PendingHasSlot'
  BY DEF Core, PendingHasSlot, loop, history
<1>8. HonestSuccess'
  BY DEF Core, HonestSuccess, history
<1> QED BY <1>1, <1>2, <1>3, <1>4, <1>5, <1>6, <1>7, <1>8 DEF Core

(* A child closes its output.                                              *)
LEMMA QuietenKeeps ==
  ASSUME Core, NEW p \in Pids, Quieten(p)
  PROVE  Core'
<1> DEFINE q == [procs[p] EXCEPT !.leader = "quiet"]
<1>1. procs[p] \in Processes
  BY DEF Core, TypeOK
<1>2. q \in Processes /\ q.leader = "quiet" /\ q.serial = procs[p].serial
  BY <1>1, ProcessChange DEF Leaders
<1>3. procs' = [procs EXCEPT ![p] = q]
  BY DEF Quieten
<1> HIDE DEF q
<1>4. procs' \in [Pids -> Processes]
  BY <1>2, <1>3 DEF Core, TypeOK
<1>5. \A r \in Pids : /\ procs'[r].serial = procs[r].serial
                      /\ procs[r].leader # "none" => procs'[r].leader # "none"
                      /\ Alive(r)' => Alive(r)
  BY <1>2, <1>3 DEF Core, TypeOK, Quieten, Alive
<1> QED BY <1>4, <1>5, ProcessesKeep DEF Quieten, Core, TypeOK

(* A child forks.                                                          *)
LEMMA ForkKeeps ==
  ASSUME Core, NEW p \in Pids, Fork(p)
  PROVE  Core'
<1> DEFINE q == [procs[p] EXCEPT !.family = TRUE]
<1>1. procs[p] \in Processes
  BY DEF Core, TypeOK
<1>2. /\ q \in Processes
      /\ q.leader = procs[p].leader /\ q.serial = procs[p].serial
  BY <1>1 DEF Processes
<1>3. procs' = [procs EXCEPT ![p] = q]
  BY DEF Fork
<1> HIDE DEF q
<1>4. procs' \in [Pids -> Processes]
  BY <1>2, <1>3 DEF Core, TypeOK
<1>5. \A r \in Pids : /\ procs'[r].serial = procs[r].serial
                      /\ procs[r].leader # "none" => procs'[r].leader # "none"
                      /\ Alive(r)' => Alive(r)
  BY <1>2, <1>3 DEF Core, TypeOK, Alive
<1> QED BY <1>4, <1>5, ProcessesKeep DEF Fork, Core, TypeOK

(* The last descendant goes.                                               *)
LEMMA FamilyExitsKeeps ==
  ASSUME Core, NEW p \in Pids, FamilyExits(p)
  PROVE  Core'
<1> DEFINE q == [procs[p] EXCEPT !.family = FALSE]
           n == Normal(q)
<1>1. procs[p] \in Processes
  BY DEF Core, TypeOK
<1>2. /\ q \in Processes
      /\ q.leader = procs[p].leader /\ q.serial = procs[p].serial
  BY <1>1 DEF Processes
<1>3. procs' = [procs EXCEPT ![p] = n]
  BY DEF FamilyExits
<1> HIDE DEF q
<1>4. /\ n \in Processes
      /\ n.leader = procs[p].leader
      /\ n.serial \in {0, procs[p].serial}
      /\ procs[p].leader # "none" => n.serial = procs[p].serial
  BY <1>2, NormalProcess
<1> HIDE DEF n
<1>5. procs' \in [Pids -> Processes]
  BY <1>4, <1>3 DEF Core, TypeOK
<1>6. \A r \in Pids :
        /\ procs'[r].serial \in {0, procs[r].serial}
        /\ procs[r].leader # "none" => /\ procs'[r].leader # "none"
                                       /\ procs'[r].serial = procs[r].serial
        /\ Alive(r)' => Alive(r)
  BY <1>3, <1>4 DEF Core, TypeOK, Alive
<1> QED BY <1>5, <1>6, ProcessesKeep DEF FamilyExits, Core, TypeOK

(* The child ends: its status is the one a slot will be given.             *)
LEMMA ExitKeeps ==
  ASSUME Core, NEW p \in Pids, NEW status \in {"zero", "other"},
         Exit(p, status)
  PROVE  Core'
<1> DEFINE q == [procs[p] EXCEPT !.leader = "zombie"]
<1>1. procs[p] \in Processes
  BY DEF Core, TypeOK
<1>2. q \in Processes /\ q.leader = "zombie" /\ q.serial = procs[p].serial
  BY <1>1 DEF Processes
<1>3. procs' = [procs EXCEPT ![p] = q]
  BY DEF Exit
<1> HIDE DEF q
<1>4. procs' \in [Pids -> Processes]
  BY <1>2, <1>3 DEF Core, TypeOK
<1>5. \A r \in Pids :
        /\ procs'[r].serial = procs[r].serial
        /\ procs[r].leader # "none" => procs'[r].leader # "none"
        /\ Alive(r)' => Alive(r)
  BY <1>2, <1>3 DEF Core, TypeOK, Alive
<1>6. ASSUME NEW x \in Serials, died'[x] # died[x]
      PROVE  /\ x = procs[p].serial
             /\ fate[x] = "pending"
  BY <1>6 DEF Exit, Ended, Core, TypeOK, PendingHasSlot
<1>7. died' \in [Serials -> {"no", "zero", "other"}]
  BY DEF Exit, Ended, Core, TypeOK
<1>8. /\ Alive(p) /\ sigchld' = TRUE
      /\ UNCHANGED <<slots, serial, pc, loop, unread, written, history>>
  BY DEF Exit
<1>9. TypeOK'
  BY <1>4, <1>7, <1>8 DEF Core, TypeOK, loop, history
<1>10. Occupied' /\ Called'
  BY <1>8 DEF Core, Occupied, Called, loop
<1>11. Numbered'
  BY <1>4, <1>5, <1>8 DEF Core, TypeOK, Numbered, history, Processes
<1>12. Tracked'
  <2> SUFFICES ASSUME NEW s \in Slots, slots[s].active, slots[s].exited
               PROVE  /\ slots[s].status = died'[slots[s].serial]
                      /\ \A r \in Pids :
                           procs'[r].serial = slots[s].serial => ~ Alive(r)'
    BY <1>8 DEF Tracked
  <2>1. slots[s].serial \in Serials
    BY SpawnAssumption DEF Core, TypeOK, Numbered, Serials
  <2> QED BY <1>5, <1>6, <1>8, <2>1 DEF Core, Tracked
<1>13. Counted'
  BY <1>8 DEF Core, Counted, Whole
<1>14. PidsOwned'
  BY <1>5, <1>8 DEF Core, TypeOK, PidsOwned, SlotStates
<1>15. PendingHasSlot'
  BY <1>8 DEF Core, PendingHasSlot, loop, history
<1>16. HonestSuccess'
  BY <1>6, <1>8 DEF Core, HonestSuccess, history
<1> QED BY <1>9, <1>10, <1>11, <1>12, <1>13, <1>14, <1>15, <1>16 DEF Core

(* A process writes: the call it belongs to is open and pending, so that   *)
(* what is unread and what was written grow together.                      *)
LEMMA WriteKeeps ==
  ASSUME Core, NEW p \in Pids, Write(p)
  PROVE  Core'
<1> DEFINE x == procs[p].serial
<1>1. PICK s \in Slots : slots[s].open /\ slots[s].serial = x
  BY DEF Write
<1>2. /\ x \in Serials /\ fate[x] = "pending"
      /\ slots[s].active /\ ~ slots[s].closed
  <2>1. slots[s].active /\ ~ slots[s].closed
    BY <1>1 DEF Core, TypeOK, SlotStates, Occupied
  <2>2. x \in 1..serial /\ serial \in 0..MaxSpawns
    BY <1>1, <2>1 DEF Core, TypeOK, Numbered
  <2>3. x \in Serials
    BY <2>2, SpawnAssumption DEF Serials
  <2> HIDE DEF x
  <2> QED BY <1>1, <2>1, <2>3 DEF Core, PendingHasSlot
<1>3. /\ written' = [written EXCEPT ![x] = @ + 1]
      /\ unread' = [unread EXCEPT ![x] = @ + 1]
      /\ written[x] < MaxWrite[x]
      /\ UNCHANGED <<slots, serial, pc, loop, procs, sigchld, died, history>>
  BY DEF Write
<1> HIDE DEF x
<1>4. \A y \in Serials : /\ unread[y] \in Nat /\ written[y] \in Nat
                         /\ unread[y] <= written[y]
                         /\ written[y] <= MaxWrite[y] /\ MaxWrite[y] \in Nat
  BY SpawnAssumption DEF Core, TypeOK, Serials
<1>5. /\ unread'[x] = unread[x] + 1 /\ written'[x] = written[x] + 1
      /\ \A y \in Serials \ {x} : /\ unread'[y] = unread[y]
                                  /\ written'[y] = written[y]
      /\ {unread', written'} \subseteq [Serials -> Nat]
  BY <1>2, <1>3 DEF Core, TypeOK
<1>6. TypeOK'
  <2>1. \A y \in Serials : /\ unread'[y] <= written'[y]
                           /\ written'[y] <= MaxWrite[y]
    BY <1>2, <1>3, <1>4, <1>5
  <2> QED BY <2>1, <1>3, <1>5 DEF Core, TypeOK, loop, history
<1>7. Occupied' /\ Called' /\ Tracked' /\ PidsOwned'
  BY <1>3 DEF Core, Occupied, Called, Tracked, PidsOwned, loop, Alive
<1>8. Numbered'
  <2>1. ~ x > serial
    BY <1>2 DEF Core, Numbered
  <2> QED BY <1>3, <1>5, <2>1 DEF Core, Numbered, history
<1>9. Counted'
  <2> SUFFICES ASSUME NEW t \in Slots, slots[t].active, Whole(slots[t])
               PROVE  /\ slots[t].output + unread'[slots[t].serial]
                           = written'[slots[t].serial]
                      /\ slots[t].closed => unread'[slots[t].serial] = 0
    BY <1>3 DEF Counted, Whole
  <2>1. slots[t].serial \in Serials /\ slots[t].output \in Nat
    BY SpawnAssumption DEF Core, TypeOK, Numbered, Serials, SlotStates
  <2>2. CASE t = s
    BY <1>1, <1>2, <1>4, <1>5, <2>1, <2>2 DEF Core, Counted
  <2>3. CASE t # s
    <3>1. slots[t].serial # x
      BY <1>1, <1>2, <2>3 DEF Core, PendingHasSlot
    <3> QED BY <1>3, <2>1, <3>1 DEF Core, TypeOK, Counted
  <2> QED BY <2>2, <2>3
<1>10. PendingHasSlot'
  BY <1>3 DEF Core, PendingHasSlot, loop, history
<1>11. HonestSuccess'
  BY <1>2, <1>3 DEF Core, TypeOK, HonestSuccess, history
<1> QED BY <1>6, <1>7, <1>9, <1>10, <1>11, <1>8 DEF Core

(* A deadline passes.                                                      *)
LEMMA ElapseKeeps ==
  ASSUME Core, NEW s \in Slots, Elapse(s)
  PROVE  Core'
<1> DEFINE q == [slots[s] EXCEPT !.deadline = "due"]
<1>1. slots[s] \in SlotStates
  BY DEF Core, TypeOK
<1>2. q \in SlotStates
  BY <1>1 DEF SlotStates
<1>3. /\ q.active = slots[s].active /\ q.pid = slots[s].pid
      /\ q.open = slots[s].open /\ q.block = slots[s].block
      /\ q.old = slots[s].old /\ q.serial = slots[s].serial
      /\ q.status = slots[s].status /\ q.output = slots[s].output
      /\ q.closed = slots[s].closed /\ q.exited = slots[s].exited
      /\ q.overflow = slots[s].overflow /\ q.io_error = slots[s].io_error
      /\ q.timed_out = slots[s].timed_out
  BY <1>1 DEF SlotStates
<1>4. /\ slots' = [slots EXCEPT ![s] = q]
      /\ UNCHANGED <<serial, pc, loop, kernel, history>>
  BY DEF Elapse
<1> HIDE DEF q
<1>5. slots' \in [Slots -> SlotStates]
  BY <1>2, <1>4 DEF Core, TypeOK
<1>6. \A t \in Slots :
      /\ slots'[t].active = slots[t].active /\ slots'[t].pid = slots[t].pid
      /\ slots'[t].open = slots[t].open /\ slots'[t].block = slots[t].block
      /\ slots'[t].old = slots[t].old /\ slots'[t].serial = slots[t].serial
      /\ slots'[t].status = slots[t].status
      /\ slots'[t].output = slots[t].output
      /\ slots'[t].closed = slots[t].closed
      /\ slots'[t].exited = slots[t].exited
      /\ slots'[t].overflow = slots[t].overflow
      /\ slots'[t].io_error = slots[t].io_error
      /\ slots'[t].timed_out = slots[t].timed_out
  BY <1>3, <1>4 DEF Core, TypeOK
<1>7. TypeOK'
  BY <1>4, <1>5 DEF Core, TypeOK, loop, history, kernel
<1>8. Occupied' /\ Called' /\ Numbered' /\ Tracked' /\ PidsOwned'
  BY <1>4, <1>6 DEF Core, Occupied, Called, Numbered, Tracked, PidsOwned,
      loop, history, kernel, Alive
<1>9. Counted' /\ HonestSuccess'
  BY <1>4, <1>6 DEF Core, Counted, Whole, HonestSuccess, kernel, history
<1>10. PendingHasSlot'
  BY <1>4, <1>6 DEF Core, PendingHasSlot, loop, history
<1> QED BY <1>7, <1>8, <1>9, <1>10 DEF Core

-----------------------------------------------------------------------------
(* Steps of the loop that touch no slot.                                   *)

(* Where the loop is, what epoll reported and where a callback returns.    *)
Placed ==
  /\ pc \in {"wait", "events", "reap", "expire", "timers", "turn", "refresh",
              "destroy", "callback"}
  /\ batch \subseteq Slots \cup {Signalfd, Other}
  /\ cursor \in 1..(NSlots + 1)
  /\ runner \in Blocks \cup {NoBlock}
  /\ back \in {"wait", "events", "reap", "expire", "turn", "destroy"}

(* A step that leaves slots, processes and calls alone keeps the           *)
(* invariant, if doomed slots remain where they will be destroyed.         *)
LEMMA MovesKeep ==
  ASSUME Core, Placed', sigchld' \in BOOLEAN, Called',
         \A s \in Slots : slots[s].old =>
           pc' \in {"refresh", "destroy"} \/ back' = "destroy",
         UNCHANGED <<slots, serial, faulted, procs, unread, written, died,
                     history>>
  PROVE  Core'
<1>1. TypeOK'
  BY DEF Core, TypeOK, Placed, history
<1>2. Occupied' /\ Numbered' /\ Tracked'
  BY DEF Core, Occupied, Numbered, Tracked, history, Alive
<1>3. Counted' /\ PidsOwned' /\ HonestSuccess'
  BY DEF Core, Counted, Whole, PidsOwned, HonestSuccess, history
<1>4. PendingHasSlot'
  BY DEF Core, PendingHasSlot, history
<1> QED BY <1>1, <1>2, <1>3, <1>4 DEF Core

(* The steps of the loop that only move.                                   *)
LEMMA LoopMoves ==
  ASSUME Core,
         \/ \E events \in {Ready, Ready \cup {Other}} : Wake(events)
         \/ CallbackReturns
         \/ \E b \in Blocks : HandleOther(b) \/ Call(b)
         \/ ReadSignal \/ ReapDone
         \/ \E s \in Slots : ReadNothing(s)
         \/ BeginExpire \/ ExpireDone \/ EndTurn
  PROVE  Core'
<1>1. UNCHANGED <<slots, serial, faulted, procs, unread, written, died,
                  history>>
  BY DEF Wake, CallbackReturns, HandleOther, Call, ReadSignal, ReapDone,
         ReadNothing, BeginExpire, ExpireDone, EndTurn, loop, kernel
<1>2. Placed /\ sigchld \in BOOLEAN
  BY DEF Core, TypeOK, Placed
<1>3. Placed' /\ sigchld' \in BOOLEAN /\ Called'
  <2>1. ASSUME NEW events \in {Ready, Ready \cup {Other}}, Wake(events)
        PROVE  Placed' /\ sigchld' \in BOOLEAN /\ Called'
    <3>1. events \subseteq Slots \cup {Signalfd, Other}
      BY DEF Ready
    <3> QED BY <1>2, <2>1, <3>1 DEF Core, Called, Placed, Wake, kernel
  <2>2. ASSUME CallbackReturns
        PROVE  Placed' /\ sigchld' \in BOOLEAN /\ Called'
    BY <1>2, <2>2 DEF Placed, Called, CallbackReturns, kernel
  <2>3. ASSUME NEW b \in Blocks, HandleOther(b) \/ Call(b)
        PROVE  Placed' /\ sigchld' \in BOOLEAN /\ Called'
    BY <1>2, <2>3 DEF Placed, Called, HandleOther, Call, Enter, kernel
  <2>4. ASSUME ReadSignal \/ ReapDone \/ EndTurn
        PROVE  Placed' /\ sigchld' \in BOOLEAN /\ Called'
    BY <1>2, <2>4
       DEF Core, Placed, Called, ReadSignal, ReapDone, EndTurn, loop, kernel
  <2>5. ASSUME NEW s \in Slots, ReadNothing(s)
        PROVE  Placed' /\ sigchld' \in BOOLEAN /\ Called'
    BY <1>2, <2>5 DEF Core, Placed, Called, ReadNothing, kernel
  <2>6. ASSUME BeginExpire \/ ExpireDone
        PROVE  Placed' /\ sigchld' \in BOOLEAN /\ Called'
    BY <1>2, <2>6, SpawnAssumption
       DEF Core, Placed, Called, BeginExpire, ExpireDone, kernel
  <2> QED BY <2>1, <2>2, <2>3, <2>4, <2>5, <2>6
<1>4. ASSUME NEW s \in Slots, slots[s].old
      PROVE  pc' \in {"refresh", "destroy"} \/ back' = "destroy"
  <2>1. pc \in {"refresh", "destroy"} \/ back = "destroy"
    BY <1>4 DEF Core, Occupied, PendingHasSlot
  <2>2. pc # "callback" => back = "wait"
    BY DEF Core, Called
  <2> QED BY <2>1, <2>2
             DEF Wake, CallbackReturns, HandleOther, Call, Enter, ReadSignal,
                 ReapDone, ReadNothing, BeginExpire, ExpireDone, EndTurn, loop
<1> QED BY <1>1, <1>3, <1>4, MovesKeep

-----------------------------------------------------------------------------
(* Calls of ctx:spawn.                                                     *)

(* A call that fails after the fork: the child is left to itself, and no   *)
(* slot names it.                                                          *)
LEMMA SetupFailsKeeps ==
  ASSUME Core, SetupFails
  PROVE  Core'
<1> DEFINE x == serial + 1
           n == [NoProcess EXCEPT !.leader = "running", !.serial = x]
<1>1. PICK p \in Pids : /\ procs[p] = NoProcess
                        /\ procs' = [procs EXCEPT ![p] = n]
  BY DEF SetupFails
<1>2. /\ x \in Serials /\ x \in 0..MaxSpawns
      /\ serial \in 0..MaxSpawns
  BY SpawnAssumption DEF SetupFails, Core, TypeOK, Serials
<1>3. n \in Processes /\ n.leader = "running" /\ n.serial = x
  BY <1>2, NewProcess
<1> HIDE DEF n
<1>4. /\ serial' = x /\ fate' = [fate EXCEPT ![x] = "refused"]
      /\ pc = "callback"
      /\ UNCHANGED <<slots, pc, loop, sigchld, unread, written, died,
                     delivered>>
  BY DEF SetupFails
<1>5. /\ procs' \in [Pids -> Processes]
      /\ procs'[p] = n
      /\ \A r \in Pids \ {p} : procs'[r] = procs[r]
  BY <1>1, <1>3 DEF Core, TypeOK
<1>6. procs[p].leader = "none" /\ procs[p].serial = 0
  BY <1>1, EmptyProcess
<1>7. TypeOK'
  BY <1>2, <1>4, <1>5 DEF Core, TypeOK, Fates, loop
<1>8. Occupied' /\ Called' /\ Counted'
  BY <1>4 DEF Core, Occupied, Called, Counted, Whole, loop
<1>9. \A s \in Slots : slots[s].active => slots[s].serial \in 1..serial
  BY DEF Core, Numbered
<1>10. Numbered'
  <2>1. \A r \in Pids : procs[r].serial \in 0..serial
    BY DEF Core, TypeOK, Numbered, Processes
  <2>2. \A r \in Pids \ {p} : procs'[r].serial \in 0..serial
    BY <1>5, <2>1
  <2>3. \A r \in Pids : procs'[r].serial <= x
    BY <1>2, <1>3, <1>5, <2>2
  <2>4. \A r, t \in Pids :
          procs'[r].serial = procs'[t].serial /\ procs'[r].serial # 0 => r = t
    BY <1>2, <1>3, <1>5, <2>2 DEF Core, Numbered
  <2>5. \A y \in Serials : y > x => fate'[y] = "unused" /\ written'[y] = 0
    BY <1>2, <1>4 DEF Core, TypeOK, Numbered, Serials
  <2> QED BY <1>2, <1>4, <1>9, <2>3, <2>4, <2>5 DEF Numbered
<1>11. Tracked'
  BY <1>2, <1>3, <1>4, <1>5, <1>9 DEF Core, Tracked, Alive
<1>12. PidsOwned'
  BY <1>3, <1>4, <1>5, <1>6 DEF Core, TypeOK, SlotStates, PidsOwned
<1>13. PendingHasSlot'
  BY <1>2, <1>4, <1>9 DEF Core, TypeOK, Numbered, PendingHasSlot, loop
<1>14. HonestSuccess'
  BY <1>2, <1>4 DEF Core, TypeOK, HonestSuccess
<1> QED BY <1>7, <1>8, <1>10, <1>11, <1>12, <1>13, <1>14 DEF Core

(* What SpawnKeeps and ExecFailsKeeps share: a free slot is taken for the  *)
(* next serial number.                                                     *)
Taken(s, q) ==
  /\ TypeOK' /\ Occupied' /\ Called' /\ Counted' /\ PendingHasSlot'
  /\ serial' \in Serials
  /\ slots'[s] = q
  /\ \A t \in Slots \ {s} : slots'[t] = slots[t]
  /\ \A t \in Slots \ {s} : slots[t].active => slots[t].serial \in 1..serial
  /\ \A t \in Slots : slots'[t].active => slots'[t].serial \in 1..serial'
  /\ \A x \in Serials : x > serial' =>
       fate'[x] = "unused" /\ written'[x] = 0
  /\ \A x \in Serials : x # serial' => fate'[x] = fate[x]
  /\ fate'[serial'] = "pending"

LEMMA SlotTaken ==
  ASSUME Core, NEW s \in Slots, NEW q \in SlotStates,
         pc = "callback", serial < MaxSpawns, ~ slots[s].active,
         q.active, ~ q.old, q.open => ~ q.closed,
         q.serial = serial + 1, q.block = runner, q.output = 0,
         slots' = [slots EXCEPT ![s] = q],
         fate' = [fate EXCEPT ![serial + 1] = "pending"],
         serial' = serial + 1,
         UNCHANGED <<pc, loop, sigchld, unread, written, delivered>>,
         procs' \in [Pids -> Processes],
         died' \in [Serials -> {"no", "zero", "other"}]
  PROVE  Taken(s, q)
<1> DEFINE x == serial + 1
<1>1. /\ x \in Serials /\ x \in 0..MaxSpawns /\ x \in 1..x
      /\ serial \in 0..MaxSpawns
  BY SpawnAssumption DEF Core, TypeOK, Serials
<1>2. /\ slots' \in [Slots -> SlotStates]
      /\ slots'[s] = q
      /\ \A t \in Slots \ {s} : slots'[t] = slots[t]
  BY DEF Core, TypeOK
<1>3. /\ fate' \in [Serials -> Fates]
      /\ fate'[x] = "pending"
      /\ \A y \in Serials : y # x => fate'[y] = fate[y]
  BY <1>1 DEF Core, TypeOK, Fates
<1> HIDE DEF x
<1>4. TypeOK'
  BY <1>1, <1>2, <1>3 DEF Core, TypeOK, loop, x
<1>5. Occupied' /\ Called'
  BY <1>2 DEF Core, Occupied, Called, loop
<1>6. \A t \in Slots : slots[t].active => slots[t].serial \in 1..serial
  BY DEF Core, Numbered
<1>7. \A t \in Slots : slots'[t].active => slots'[t].serial \in 1..x
  BY <1>1, <1>2, <1>6 DEF x
<1>8. Counted'
  <2>1. written[x] = 0 /\ unread[x] = 0
    BY <1>1 DEF Core, Numbered, TypeOK, x
  <2>2. \A t \in Slots \ {s} : slots[t].active => slots[t].serial # x
    BY <1>1, <1>6 DEF x
  <2> QED BY <1>2, <2>1, <2>2 DEF Core, Counted, Whole, x
<1>9. runner \notin faulted /\ faulted' = faulted /\ back' = back /\ pc' = pc
  BY DEF Core, Called, loop
<1>10. \A y \in Serials : y > serial => fate[y] = "unused" /\ written[y] = 0
  BY DEF Core, Numbered
<1>11. PendingHasSlot'
  <2>1. ASSUME NEW y \in Serials
        PROVE  fate'[y] = "pending"
                 <=> \E t \in Slots : slots'[t].active /\ slots'[t].serial = y
    <3>1. CASE y = x
      BY <1>2, <1>3, <3>1 DEF x
    <3>2. CASE y # x
      BY <1>2, <1>3, <3>2 DEF Core, PendingHasSlot, x
    <3> QED BY <3>1, <3>2
  <2>2. \A t, u \in Slots :
          slots'[t].active /\ slots'[u].active
          /\ slots'[t].serial = slots'[u].serial => t = u
    BY <1>1, <1>2, <1>6 DEF Core, PendingHasSlot, x
  <2>3. \A t \in Slots : slots'[t].active =>
          IF slots'[t].old
          THEN pc' \in {"refresh", "destroy"} \/ back' = "destroy"
          ELSE slots'[t].block \notin faulted'
    BY <1>2, <1>9 DEF Core, PendingHasSlot
  <2> QED BY <2>1, <2>2, <2>3 DEF PendingHasSlot
<1>12. \A y \in Serials : y > x => fate'[y] = "unused" /\ written'[y] = 0
  BY <1>1, <1>3, <1>10 DEF x, Serials
<1>13. serial' = x
  BY DEF x
<1> QED BY <1>1, <1>2, <1>3, <1>4, <1>5, <1>6, <1>7, <1>8, <1>11, <1>12, <1>13
       DEF Taken

(* ctx:spawn with a running child: its process id was free, so no other    *)
(* slot holds it.                                                          *)
LEMMA SpawnKeeps ==
  ASSUME Core, NEW s \in Slots, NEW timeout \in {"none", "later"},
         Spawn(s, timeout)
  PROVE  Core'
<1> DEFINE new == NewSlot(timeout)
           n == [NoProcess EXCEPT !.leader = "running", !.serial = serial']
<1>1. PICK p \in Pids :
        /\ procs[p] = NoProcess
        /\ procs' = [procs EXCEPT ![p] = n]
        /\ slots' = [slots EXCEPT ![s] = [new EXCEPT !.pid = p, !.open = TRUE]]
  BY DEF Spawn
<1> DEFINE q == [new EXCEPT !.pid = p, !.open = TRUE]
<1>2. /\ pc = "callback" /\ serial < MaxSpawns /\ ~ slots[s].active
      /\ serial' = serial + 1
      /\ fate' = [fate EXCEPT ![serial + 1] = "pending"]
      /\ UNCHANGED <<pc, loop, sigchld, unread, written, died, delivered>>
  BY DEF Spawn, Free
<1>3. /\ serial' \in Serials /\ serial + 1 \in 1..MaxSpawns
      /\ serial' \in 0..MaxSpawns /\ serial \in 0..MaxSpawns
      /\ runner \in Blocks \cup {NoBlock}
  BY <1>2, SpawnAssumption DEF Core, TypeOK, Serials
<1>4. /\ new \in SlotStates
      /\ new.active /\ ~ new.old /\ ~ new.exited /\ ~ new.closed
      /\ new.serial = serial + 1 /\ new.block = runner /\ new.output = 0
  BY <1>3, NewSlotState
<1> HIDE DEF new
<1>5. /\ q \in SlotStates
      /\ q.active /\ ~ q.old /\ ~ q.exited /\ ~ q.closed
      /\ q.serial = serial + 1 /\ q.block = runner /\ q.output = 0
      /\ q.pid = p
  BY <1>4, SpawnedState
<1>6. n \in Processes /\ n.leader = "running" /\ n.serial = serial'
  BY <1>3, NewProcess
<1>7. slots' = [slots EXCEPT ![s] = q]
  BY <1>1
<1> HIDE DEF n, q
<1>8. /\ procs' \in [Pids -> Processes]
      /\ procs'[p] = n
      /\ \A r \in Pids \ {p} : procs'[r] = procs[r]
  BY <1>1, <1>6 DEF Core, TypeOK
<1>9. procs[p].leader = "none" /\ procs[p].serial = 0
  BY <1>1, EmptyProcess
<1>10. Taken(s, q)
  <2>1. died' \in [Serials -> {"no", "zero", "other"}]
    BY <1>2 DEF Core, TypeOK
  <2> QED BY <1>2, <1>5, <1>7, <1>8, <2>1, SlotTaken
<1> USE DEF Taken
<1>11. Numbered'
  <2>1. \A r \in Pids : procs[r].serial \in 0..serial
    BY DEF Core, TypeOK, Numbered, Processes
  <2>2. \A r \in Pids \ {p} : procs'[r].serial \in 0..serial
    BY <1>8, <2>1
  <2>3. \A r \in Pids : procs'[r].serial <= serial'
    BY <1>2, <1>3, <1>6, <1>8, <2>2
  <2>4. \A r, t \in Pids :
          procs'[r].serial = procs'[t].serial /\ procs'[r].serial # 0 => r = t
    BY <1>2, <1>3, <1>6, <1>8, <2>2 DEF Core, Numbered
  <2> QED BY <1>10, <2>3, <2>4 DEF Numbered
<1>12. Tracked'
  BY <1>2, <1>3, <1>5, <1>6, <1>8, <1>10 DEF Core, Tracked, Alive
<1>13. PidsOwned'
  BY <1>2, <1>5, <1>6, <1>8, <1>9, <1>10
     DEF Core, TypeOK, SlotStates, PidsOwned
<1>14. HonestSuccess'
  BY <1>2, <1>3, <1>10 DEF Core, HonestSuccess
<1> QED BY <1>10, <1>11, <1>12, <1>13, <1>14 DEF Core

(* ctx:spawn of a child that could not be executed.                        *)
LEMMA ExecFailsKeeps ==
  ASSUME Core, NEW s \in Slots, ExecFails(s)
  PROVE  Core'
<1> DEFINE new == NewSlot("none")
           q == [new EXCEPT !.status = "other", !.exited = TRUE,
                            !.closed = TRUE, !.pending = TRUE]
<1>1. slots' = [slots EXCEPT ![s] = q]
  BY DEF ExecFails
<1>2. /\ pc = "callback" /\ serial < MaxSpawns /\ ~ slots[s].active
      /\ serial' = serial + 1
      /\ fate' = [fate EXCEPT ![serial + 1] = "pending"]
      /\ UNCHANGED <<pc, loop, sigchld, unread, written, delivered>>
  BY DEF ExecFails, Free
<1>3. /\ serial' \in Serials /\ serial + 1 \in 1..MaxSpawns
      /\ serial' \in 0..MaxSpawns /\ serial \in 0..MaxSpawns
      /\ runner \in Blocks \cup {NoBlock}
  BY <1>2, SpawnAssumption DEF Core, TypeOK, Serials
<1>4. /\ new \in SlotStates
      /\ new.active /\ ~ new.open /\ ~ new.old /\ new.pid = NoPid
      /\ new.serial = serial + 1 /\ new.block = runner /\ new.output = 0
  BY <1>3, NewSlotState
<1> HIDE DEF new
<1>5. /\ q \in SlotStates
      /\ q.active /\ ~ q.open /\ ~ q.old /\ q.pid = NoPid
      /\ q.serial = serial + 1 /\ q.block = runner /\ q.output = 0
      /\ q.exited /\ q.status = "other"
  BY <1>4, FailedState
<1> HIDE DEF q
<1>6. /\ died' \in [Serials -> {"no", "zero", "other"}]
      /\ died'[serial'] = "other"
      /\ \A x \in Serials : x # serial' => died'[x] = died[x]
  BY <1>3 DEF ExecFails, Core, TypeOK
<1>7. procs' = procs
  BY DEF ExecFails
<1>8. Taken(s, q)
  <2>1. procs' \in [Pids -> Processes]
    BY <1>7 DEF Core, TypeOK
  <2>2. q.open => ~ q.closed
    BY <1>5
  <2>3. died' \in [Serials -> {"no", "zero", "other"}]
    BY <1>6
  <2> QED BY <1>1, <1>2, <1>5, <2>1, <2>2, <2>3, SlotTaken
<1> USE DEF Taken
<1>9. \A r \in Pids : procs[r].serial \in 0..serial
  BY DEF Core, TypeOK, Numbered, Processes
<1>10. Numbered'
  <2>1. \A r \in Pids : procs'[r].serial <= serial'
    BY <1>2, <1>3, <1>9, <1>7
  <2>2. \A r, t \in Pids :
          procs'[r].serial = procs'[t].serial /\ procs'[r].serial # 0 => r = t
    BY <1>7 DEF Core, Numbered
  <2> QED BY <1>8, <2>1, <2>2 DEF Numbered
<1>11. Tracked'
  <2>1. \A r \in Pids : procs[r].serial # serial'
    BY <1>2, <1>3, <1>9, <1>7
  <2>2. \A t \in Slots \ {s} : slots[t].active =>
          slots[t].serial \in Serials /\ slots[t].serial # serial'
    BY <1>2, <1>3, <1>8, SpawnAssumption DEF Serials
  <2> QED BY <1>2, <1>5, <1>6, <1>8, <1>7, <2>1, <2>2 DEF Core, Tracked, Alive
<1>12. PidsOwned'
  BY <1>5, <1>8, <1>7 DEF Core, PidsOwned
<1>13. HonestSuccess'
  BY <1>2, <1>6, <1>8 DEF Core, HonestSuccess
<1> QED BY <1>8, <1>10, <1>11, <1>12, <1>13 DEF Core

-----------------------------------------------------------------------------
(* Cancellation.                                                           *)

(* Cancelling a set of occupied slots: of a handle, of a block that failed *)
(* or of the replaced configuration.                                       *)
LEMMA CancelKeeps ==
  ASSUME Core, NEW which \in SUBSET Slots,
         \A s \in which : slots[s].active,
         Cancel(which), Placed', Called', faulted' \subseteq Blocks,
         \A s \in Slots \ which : slots[s].active =>
           IF slots[s].old
           THEN pc' \in {"refresh", "destroy"} \/ back' = "destroy"
           ELSE slots[s].block \notin faulted',
         UNCHANGED <<serial, procs, sigchld, written, died>>
  PROVE  Core'
<1>1. /\ slots' \in [Slots -> SlotStates]
      /\ \A s \in which :
           ~ slots'[s].active /\ ~ slots'[s].open /\ ~ slots'[s].old
      /\ \A s \in Slots \ which : slots'[s] = slots[s]
  BY FreeSlotState DEF Cancel, Released, Core, TypeOK
<1>2. \A s \in Slots : slots'[s].active => s \notin which /\ slots[s].active
  BY <1>1
<1>3. \A s, t \in Slots : slots[s].active /\ slots[t].active
                          /\ slots[s].serial = slots[t].serial => s = t
  BY DEF Core, PendingHasSlot
<1>4. \A x \in Serials :
        /\ fate'[x] = IF \E s \in which : slots[s].serial = x THEN "cancelled"
                      ELSE fate[x]
        /\ unread'[x] = IF \E s \in which : slots[s].serial = x THEN 0
                        ELSE unread[x]
  BY DEF Cancel
<1>5. delivered' = delivered
  BY DEF Cancel
<1>6. TypeOK'
  <2>1. fate' \in [Serials -> Fates]
    BY DEF Cancel, Core, TypeOK, Fates
  <2>2. unread' \in [Serials -> Nat]
    BY DEF Cancel, Core, TypeOK
  <2>3. \A x \in Serials : unread'[x] <= written[x]
    BY <1>4 DEF Core, TypeOK
  <2> QED BY <1>1, <1>5, <2>1, <2>2, <2>3 DEF Core, TypeOK, Placed
<1>7. Occupied'
  BY <1>1 DEF Core, Occupied
<1>8. \A s \in which : fate[slots[s].serial] = "pending"
  <2>1. \A s \in Slots : slots[s].active => slots[s].serial \in Serials
    BY SpawnAssumption DEF Core, TypeOK, Numbered, Serials
  <2> QED BY <2>1 DEF Core, PendingHasSlot
<1>9. Numbered'
  <2>1. \A x \in Serials : x > serial => fate'[x] = "unused"
    BY <1>4, <1>8 DEF Core, Numbered
  <2> QED BY <1>1, <1>2, <2>1 DEF Core, Numbered
<1>10. Tracked' /\ PidsOwned'
  BY <1>1, <1>2 DEF Core, Tracked, PidsOwned, Alive
<1>11. Counted'
  <2>1. ASSUME NEW s \in Slots, slots'[s].active
         PROVE  /\ slots[s].serial \in Serials
                /\ unread'[slots[s].serial] = unread[slots[s].serial]
    <3>1. slots[s].active /\ s \notin which
      BY <1>2, <2>1
    <3>2. slots[s].serial \in Serials
      BY <3>1, SpawnAssumption DEF Core, TypeOK, Numbered, Serials
    <3>3. ~ \E t \in which : slots[t].serial = slots[s].serial
      BY <1>3, <3>1
    <3> QED BY <1>4, <3>2, <3>3
  <2> QED BY <1>1, <1>2, <2>1 DEF Core, Counted, Whole
<1>12. PendingHasSlot'
  <2>1. ASSUME NEW x \in Serials
        PROVE  fate'[x] = "pending"
                 <=> \E s \in Slots : slots'[s].active /\ slots'[s].serial = x
    <3>1. CASE \E s \in which : slots[s].serial = x
      BY <1>1, <1>2, <1>3, <1>4, <3>1
    <3>2. CASE ~ \E s \in which : slots[s].serial = x
      BY <1>1, <1>2, <1>4, <3>2 DEF Core, PendingHasSlot
    <3> QED BY <3>1, <3>2
  <2> QED BY <1>1, <1>2, <1>3, <2>1 DEF PendingHasSlot
<1>13. HonestSuccess'
  BY <1>4, <1>5 DEF Core, HonestSuccess
<1> QED BY <1>6, <1>7, <1>9, <1>10, <1>11, <1>12, <1>13 DEF Core

(* The cancel method of a handle.                                          *)
LEMMA CancelSerialKeeps ==
  ASSUME Core, NEW s \in Slots, CancelSerial(s)
  PROVE  Core'
<1>1. Placed' /\ Called' /\ faulted' \subseteq Blocks
  BY DEF CancelSerial, Core, TypeOK, Placed, Called, loop
<1>2. \A t \in Slots : slots[t].active =>
        IF slots[t].old
        THEN pc' \in {"refresh", "destroy"} \/ back' = "destroy"
        ELSE slots[t].block \notin faulted'
  BY DEF CancelSerial, Core, PendingHasSlot, loop
<1>3. /\ Cancel({s}) /\ slots[s].active
      /\ UNCHANGED <<serial, procs, sigchld, written, died>>
  BY DEF CancelSerial
<1> QED BY <1>1, <1>2, <1>3, CancelKeeps

(* A callback fails and its block is faulted.                              *)
LEMMA CallbackFailsKeeps ==
  ASSUME Core, CallbackFails
  PROVE  Core'
<1>1. Placed'
  BY DEF CallbackFails, Core, TypeOK, Placed
<1>2. pc' = back /\ pc' # "callback" /\ back' = "wait"
  BY DEF CallbackFails, Core, TypeOK
<1>3. faulted' = faulted \cup {runner} /\ pc = "callback"
  BY DEF CallbackFails
<1>4. Called' /\ faulted' \subseteq Blocks
  BY <1>2, <1>3 DEF Called, Core, TypeOK
<1>5. \A t \in Slots \ Owned(runner) : slots[t].active =>
        IF slots[t].old
        THEN pc' \in {"refresh", "destroy"} \/ back' = "destroy"
        ELSE slots[t].block \notin faulted'
  BY <1>2, <1>3 DEF Owned, Core, PendingHasSlot
<1>6. /\ Cancel(Owned(runner)) /\ \A t \in Owned(runner) : slots[t].active
      /\ Owned(runner) \in SUBSET Slots
      /\ UNCHANGED <<serial, procs, sigchld, written, died>>
  BY DEF CallbackFails, Owned
<1> QED BY <1>1, <1>4, <1>5, <1>6, CancelKeeps

(* The slots of the replaced configuration are cancelled.                  *)
LEMMA DestroyOldKeeps ==
  ASSUME Core, DestroyOld
  PROVE  Core'
<1> DEFINE which == {s \in Slots : slots[s].old}
<1>1. Placed' /\ Called' /\ faulted' \subseteq Blocks
  BY DEF DestroyOld, Core, TypeOK, Placed, Called, loop
<1>2. \A t \in Slots \ which : slots[t].active =>
        IF slots[t].old
        THEN pc' \in {"refresh", "destroy"} \/ back' = "destroy"
        ELSE slots[t].block \notin faulted'
  BY DEF DestroyOld, Core, PendingHasSlot, loop
<1>3. /\ Cancel(which) /\ which \in SUBSET Slots
      /\ UNCHANGED <<serial, procs, sigchld, written, died>>
  BY DEF DestroyOld
<1>4. \A t \in which : slots[t].active
  BY DEF Core, Occupied
<1> HIDE DEF which
<1> QED BY <1>1, <1>2, <1>3, <1>4, CancelKeeps

(* A configuration is committed: every occupied slot becomes old.          *)
LEMMA CommitKeeps ==
  ASSUME Core, Commit
  PROVE  Core'
<1> DEFINE q(s) == [slots[s] EXCEPT !.old = slots[s].active]
<1>1. ASSUME NEW s \in Slots
      PROVE  /\ q(s) \in SlotStates
             /\ q(s).active = slots[s].active /\ q(s).pid = slots[s].pid
             /\ q(s).open = slots[s].open /\ q(s).block = slots[s].block
             /\ q(s).old = slots[s].active /\ q(s).serial = slots[s].serial
             /\ q(s).status = slots[s].status /\ q(s).output = slots[s].output
             /\ q(s).closed = slots[s].closed /\ q(s).exited = slots[s].exited
             /\ q(s).overflow = slots[s].overflow
             /\ q(s).io_error = slots[s].io_error
             /\ q(s).timed_out = slots[s].timed_out
  <2>1. slots[s] \in SlotStates
    BY DEF Core, TypeOK
  <2> QED BY <2>1 DEF SlotStates
<1>2. slots' = [s \in Slots |-> q(s)]
  BY DEF Commit
<1>3. /\ pc' = "refresh" /\ faulted' = {} /\ pc \in {"timers", "turn"}
      /\ UNCHANGED <<serial, batch, cursor, runner, back, kernel, history>>
  BY DEF Commit
<1> HIDE DEF q
<1>4. slots' \in [Slots -> SlotStates]
  BY <1>1, <1>2
<1>5. \A t \in Slots :
      /\ slots'[t].active = slots[t].active /\ slots'[t].pid = slots[t].pid
      /\ slots'[t].open = slots[t].open /\ slots'[t].block = slots[t].block
      /\ slots'[t].old = slots[t].active /\ slots'[t].serial = slots[t].serial
      /\ slots'[t].status = slots[t].status
      /\ slots'[t].output = slots[t].output
      /\ slots'[t].closed = slots[t].closed
      /\ slots'[t].exited = slots[t].exited
      /\ slots'[t].overflow = slots[t].overflow
      /\ slots'[t].io_error = slots[t].io_error
      /\ slots'[t].timed_out = slots[t].timed_out
  BY <1>1, <1>2
<1>6. TypeOK'
  BY <1>3, <1>4 DEF Core, TypeOK, kernel, history
<1>7. Occupied' /\ Called'
  BY <1>3, <1>5 DEF Core, Occupied, Called
<1>8. Numbered' /\ Tracked' /\ PidsOwned'
  BY <1>3, <1>5
     DEF Core, Numbered, Tracked, PidsOwned, history, kernel, Alive
<1>9. Counted' /\ HonestSuccess'
  BY <1>3, <1>5 DEF Core, Counted, Whole, HonestSuccess, kernel, history
<1>10. PendingHasSlot'
  BY <1>3, <1>5 DEF Core, PendingHasSlot, history
<1> QED BY <1>6, <1>7, <1>8, <1>9, <1>10 DEF Core

-----------------------------------------------------------------------------
(* Completion.                                                             *)

(* spawn_complete: the slot is stored, or freed with its call answered.    *)
(* Success means that the pipe is closed and the child has ended.          *)
LEMMA SettleKeeps ==
  ASSUME Core, NEW s \in Slots, NEW q \in SlotStates,
         NEW return \in {"events", "reap", "expire"}, pc = return,
         slots[s].active, q.active,
         q.serial = slots[s].serial, q.block = slots[s].block,
         q.old = slots[s].old, q.open => ~ q.closed,
         Settle(s, q, return),
         UNCHANGED <<serial, faulted>>
  PROVE  /\ slots' \in [Slots -> SlotStates]
         /\ fate' \in [Serials -> Fates]
         /\ delivered' \in [Serials -> 0..Limit]
         /\ pc' \in {return, "callback"} /\ runner' \in Blocks \cup {NoBlock}
         /\ back' \in {"wait", return}
         /\ Occupied' /\ Called' /\ PendingHasSlot'
         /\ \A t \in Slots \ {s} : slots'[t] = slots[t]
         /\ slots'[s].active => slots'[s] = q
         /\ \A x \in Serials : fate[x] # "pending" =>
              fate'[x] = fate[x] /\ delivered'[x] = delivered[x]
         /\ \A x \in Serials : fate'[x] = "success" /\ fate[x] # "success" =>
              /\ x = slots[s].serial
              /\ q.closed /\ q.exited /\ Succeeded(q)
              /\ delivered'[x] = q.output
<1> DEFINE x == slots[s].serial
<1>1. /\ x \in Serials /\ fate[x] = "pending"
      /\ ~ slots[s].old /\ slots[s].block \in Blocks \ faulted
  <2>1. x \in Serials
    BY SpawnAssumption DEF Core, TypeOK, Numbered, Serials
  <2>2. back = "wait"
    BY DEF Core, Called
  <2> QED BY <2>1, <2>2 DEF Core, PendingHasSlot, Occupied
<1>2. \A t \in Slots \ {s} : slots[t].active => slots[t].serial # x
  BY DEF Core, PendingHasSlot
<1>3. CASE ~ Finished(q)
  <2>1. /\ slots' = [slots EXCEPT ![s] = q]
        /\ pc' = return
        /\ UNCHANGED <<fate, delivered, runner, back>>
    BY <1>3 DEF Settle, history
  <2>2. /\ slots' \in [Slots -> SlotStates] /\ slots'[s] = q
        /\ \A t \in Slots \ {s} : slots'[t] = slots[t]
    BY <2>1 DEF Core, TypeOK
  <2>3. Occupied' /\ Called' /\ PendingHasSlot'
    BY <1>1, <2>1, <2>2 DEF Core, Occupied, Called, PendingHasSlot
  <2>4. /\ fate' \in [Serials -> Fates]
        /\ delivered' \in [Serials -> 0..Limit]
        /\ runner' \in Blocks \cup {NoBlock}
        /\ back' = "wait"
    BY <2>1 DEF Core, TypeOK, Called
  <2> QED BY <2>1, <2>2, <2>3, <2>4
<1>4. CASE Finished(q)
  <2>1. /\ slots' = [slots EXCEPT ![s] = FreeSlot]
        /\ fate' = [fate EXCEPT ![x] = Outcome(q)]
        /\ delivered' = [delivered EXCEPT ![x] =
                           IF Succeeded(q) THEN q.output ELSE 0]
        /\ pc' = "callback" /\ runner' = slots[s].block /\ back' = return
    BY <1>1, <1>4 DEF Settle, Enter
  <2>2. /\ slots' \in [Slots -> SlotStates]
        /\ ~ slots'[s].active /\ ~ slots'[s].open /\ ~ slots'[s].old
        /\ \A t \in Slots \ {s} : slots'[t] = slots[t]
    BY <2>1, FreeSlotState DEF Core, TypeOK
  <2>3. Outcome(q) \in {"timeout", "success", "failure"}
        /\ (Outcome(q) = "success" => Succeeded(q))
    BY DEF Outcome
  <2>4. /\ fate' \in [Serials -> Fates]
        /\ delivered' \in [Serials -> 0..Limit]
    <3>1. q.output \in 0..Limit /\ 0 \in 0..Limit
      BY SpawnAssumption DEF SlotStates
    <3> QED BY <2>1, <2>3, <3>1 DEF Core, TypeOK, Fates
  <2>5. /\ fate'[x] = Outcome(q)
        /\ delivered'[x] = IF Succeeded(q) THEN q.output ELSE 0
        /\ \A y \in Serials : y # x =>
             fate'[y] = fate[y] /\ delivered'[y] = delivered[y]
    BY <1>1, <2>1 DEF Core, TypeOK
  <2>6. Occupied' /\ Called'
    BY <1>1, <2>1, <2>2 DEF Core, Occupied, Called
  <2>7. PendingHasSlot'
    <3>1. ASSUME NEW y \in Serials
          PROVE  fate'[y] = "pending"
                    <=> \E t \in Slots :
                          slots'[t].active /\ slots'[t].serial = y
      <4>1. CASE y = x
        BY <1>2, <2>2, <2>3, <2>5, <4>1
      <4>2. CASE y # x
        BY <2>2, <2>5, <4>2 DEF Core, PendingHasSlot
      <4> QED BY <4>1, <4>2
    <3>2. \A t \in Slots : slots'[t].active => t # s
      BY <2>2
    <3>3. \A t, u \in Slots :
            slots'[t].active /\ slots'[u].active
            /\ slots'[t].serial = slots'[u].serial => t = u
      BY <2>2, <3>2 DEF Core, PendingHasSlot
     <3>4. \A t \in Slots :
             slots'[t].active => /\ ~ slots'[t].old
                                 /\ slots'[t].block \notin faulted
      <4>1. back = "wait"
        BY DEF Core, Called
      <4> QED BY <2>2, <3>2, <4>1 DEF Core, PendingHasSlot
    <3> QED BY <3>1, <3>3, <3>4 DEF PendingHasSlot
  <2> QED BY <1>1, <1>4, <2>1, <2>2, <2>3, <2>4, <2>5, <2>6, <2>7
             DEF Finished
<1> QED BY <1>3, <1>4

(* A step that settles one slot keeps the invariant, when the changed slot *)
(* satisfies what the invariant says of one slot.                          *)
LEMMA SettledCore ==
  ASSUME Core, NEW s \in Slots, NEW q \in SlotStates,
         NEW return \in {"events", "reap", "expire"}, pc = return,
         slots[s].active, q.active,
         q.serial = slots[s].serial, q.block = slots[s].block,
         q.old = slots[s].old, q.open => ~ q.closed,
         Settle(s, q, return),
         UNCHANGED <<serial, faulted, written>>,
         batch' \subseteq Slots \cup {Signalfd, Other},
         cursor' \in 1..(NSlots + 1),
         sigchld' \in BOOLEAN,
         procs' \in [Pids -> Processes],
         \A p \in Pids : /\ procs'[p].serial \in {0, procs[p].serial}
                         /\ Alive(p)' => Alive(p),
         \A t \in Slots \ {s} :
           slots[t].active /\ slots[t].pid # NoPid =>
             /\ procs'[slots[t].pid].leader # "none"
             /\ procs'[slots[t].pid].serial = slots[t].serial,
         q.pid # NoPid => /\ procs'[q.pid].leader # "none"
                          /\ procs'[q.pid].serial = q.serial,
         died' \in [Serials -> {"no", "zero", "other"}],
         \A x \in Serials : x # q.serial => died'[x] = died[x],
         q.exited => /\ q.status = died'[q.serial]
                     /\ \A p \in Pids : procs'[p].serial = q.serial =>
                          ~ Alive(p)',
         unread' \in [Serials -> Nat],
         \A x \in Serials : x # q.serial => unread'[x] = unread[x],
         unread'[q.serial] <= unread[q.serial],
         Whole(q) => /\ q.output + unread'[q.serial] = written[q.serial]
                     /\ q.closed => unread'[q.serial] = 0
  PROVE  Core'
<1> DEFINE x == q.serial
<1>1. /\ slots' \in [Slots -> SlotStates]
      /\ fate' \in [Serials -> Fates]
      /\ delivered' \in [Serials -> 0..Limit]
      /\ pc' \in {return, "callback"} /\ runner' \in Blocks \cup {NoBlock}
      /\ back' \in {"wait", return}
      /\ Occupied' /\ Called' /\ PendingHasSlot'
      /\ \A t \in Slots \ {s} : slots'[t] = slots[t]
      /\ slots'[s].active => slots'[s] = q
      /\ \A y \in Serials : fate[y] # "pending" =>
           fate'[y] = fate[y] /\ delivered'[y] = delivered[y]
      /\ \A y \in Serials : fate'[y] = "success" /\ fate[y] # "success" =>
           /\ y = x
           /\ q.closed /\ q.exited /\ Succeeded(q)
           /\ delivered'[y] = q.output
  BY SettleKeeps
<1>2. /\ x \in Serials /\ x \in 1..serial /\ fate[x] = "pending"
      /\ \A t \in Slots \ {s} : slots[t].active =>
           slots[t].serial \in Serials /\ slots[t].serial # x
  BY SpawnAssumption
     DEF Core, TypeOK, Numbered, PendingHasSlot, Serials
<1>3. TypeOK'
  <2>1. Placed'
    BY <1>1 DEF Placed
  <2>2. \A y \in Serials : unread'[y] <= written[y]
    BY <1>2 DEF Core, TypeOK
  <2> QED BY <1>1, <2>1, <2>2 DEF Core, TypeOK, Placed
<1>4. Numbered'
  <2>1. \A p \in Pids : procs'[p].serial <= serial
    BY DEF Core, TypeOK, Numbered, Processes
  <2>2. \A p, r \in Pids :
          procs'[p].serial = procs'[r].serial /\ procs'[p].serial # 0 => p = r
    BY DEF Core, Numbered
  <2>3. \A t \in Slots : slots'[t].active => slots'[t].serial \in 1..serial
    BY <1>1, <1>2 DEF Core, Numbered
  <2>4. \A y \in Serials : y > serial => fate'[y] = "unused" /\ written[y] = 0
    BY <1>1 DEF Core, Numbered
  <2> QED BY <2>1, <2>2, <2>3, <2>4 DEF Numbered
<1>5. Tracked'
  <2> SUFFICES ASSUME NEW t \in Slots, slots'[t].active, slots'[t].exited
               PROVE  /\ slots'[t].status = died'[slots'[t].serial]
                      /\ \A p \in Pids :
                           procs'[p].serial = slots'[t].serial => ~ Alive(p)'
    BY DEF Tracked
  <2>1. CASE t = s
    BY <1>1, <2>1
  <2>2. CASE t # s
    BY <1>1, <1>2, <2>2 DEF Core, Tracked, Numbered
  <2> QED BY <2>1, <2>2
<1>6. Counted'
  BY <1>1, <1>2 DEF Core, Counted, Whole
<1>7. PidsOwned'
  BY <1>1 DEF PidsOwned
<1>8. HonestSuccess'
  <2> SUFFICES ASSUME NEW y \in Serials, fate'[y] = "success"
               PROVE  died'[y] = "zero" /\ delivered'[y] = written[y]
    BY DEF HonestSuccess
  <2>1. CASE fate[y] = "success"
    BY <1>1, <1>2, <2>1 DEF Core, HonestSuccess
  <2>2. CASE fate[y] # "success"
    <3>1. /\ y = x /\ q.closed /\ q.exited /\ Succeeded(q)
          /\ delivered'[y] = q.output
      BY <1>1, <2>2
    <3>2. q.output + 0 = written[x]
      BY <3>1 DEF Succeeded, Whole
    <3>3. q.output \in Nat
      BY SpawnAssumption DEF SlotStates
    <3> QED BY <3>1, <3>2, <3>3 DEF Succeeded
  <2> QED BY <2>1, <2>2
<1> QED BY <1>1, <1>3, <1>4, <1>5, <1>6, <1>7, <1>8 DEF Core

(* A child is reaped: it is the child of the slot that holds its process   *)
(* id, whose status it gets.                                               *)
LEMMA ReapKeeps ==
  ASSUME Core, NEW p \in Pids, Reap(p)
  PROVE  Core'
<1> DEFINE m == [procs[p] EXCEPT !.leader = "none"]
           n == Normal(m)
<1>1. procs[p] \in Processes
  BY DEF Core, TypeOK
<1>2. m \in Processes /\ m.leader = "none" /\ m.serial = procs[p].serial
  BY <1>1 DEF Processes
<1>3. procs' = [procs EXCEPT ![p] = n]
  BY DEF Reap
<1> HIDE DEF m
<1>4. n \in Processes /\ n.leader = "none" /\ n.serial \in {0, procs[p].serial}
  BY <1>2, NormalProcess
<1> HIDE DEF n
<1>5. /\ procs' \in [Pids -> Processes]
      /\ procs'[p] = n
      /\ \A r \in Pids \ {p} : procs'[r] = procs[r]
  BY <1>3, <1>4 DEF Core, TypeOK
<1>6. \A r \in Pids : /\ procs'[r].serial \in {0, procs[r].serial}
                      /\ Alive(r)' => Alive(r)
  BY <1>4, <1>5 DEF Alive
<1>7. /\ pc = "reap" /\ procs[p].leader = "zombie"
      /\ UNCHANGED <<serial, faulted, batch, cursor, sigchld, unread, written,
                     died>>
  BY DEF Reap
<1>8. ASSUME NEW s \in Slots, slots[s].active, slots[s].pid = p,
             Settle(s, Reaped(slots[s]), "reap")
      PROVE  Core'
  <2> DEFINE q == Reaped(slots[s])
  <2>1. slots[s] \in SlotStates /\ slots[s].serial \in Serials
    BY <1>8, SpawnAssumption DEF Core, TypeOK, Numbered, Serials
  <2>2. died[slots[s].serial] \in {"no", "zero", "other"}
    BY <2>1 DEF Core, TypeOK
  <2>3. /\ q \in SlotStates
        /\ q.active = slots[s].active /\ q.block = slots[s].block
        /\ q.old = slots[s].old /\ q.serial = slots[s].serial
        /\ q.open = slots[s].open /\ q.closed = slots[s].closed
        /\ q.output = slots[s].output /\ q.overflow = slots[s].overflow
        /\ q.io_error = slots[s].io_error /\ q.timed_out = slots[s].timed_out
        /\ q.pid = NoPid /\ q.status = died[slots[s].serial]
    BY <2>1, <2>2, ReapedState, ReapedFields
  <2>4. Settle(s, q, "reap")
    BY <1>8
  <2> HIDE DEF q
  <2>5. procs[p].serial = slots[s].serial
    BY <1>8, SpawnAssumption DEF Core, PidsOwned
  <2>6. \A r \in Pids : procs'[r].serial = slots[s].serial => ~ Alive(r)'
    <3>1. slots[s].serial # 0
      BY <2>1, SpawnAssumption DEF Serials
    <3> QED BY <1>4, <1>5, <2>5, <3>1 DEF Core, Numbered, Alive
  <2>7. \A t \in Slots \ {s} : slots[t].active /\ slots[t].pid # NoPid =>
          /\ procs'[slots[t].pid].leader # "none"
          /\ procs'[slots[t].pid].serial = slots[t].serial
    <3> SUFFICES ASSUME NEW t \in Slots \ {s}, slots[t].active,
                        slots[t].pid # NoPid
                 PROVE  /\ procs'[slots[t].pid].leader # "none"
                        /\ procs'[slots[t].pid].serial = slots[t].serial
      OBVIOUS
    <3>1. /\ procs[slots[t].pid].leader # "none"
          /\ procs[slots[t].pid].serial = slots[t].serial
      BY DEF Core, PidsOwned
    <3>2. slots[t].pid # p
      BY <1>8, <2>5, <3>1 DEF Core, PendingHasSlot
    <3>3. slots[t].pid \in Pids
      BY DEF Core, TypeOK, SlotStates
    <3> QED BY <1>5, <3>1, <3>2, <3>3
  <2>8. /\ batch' \subseteq Slots \cup {Signalfd, Other}
        /\ cursor' \in 1..(NSlots + 1)
        /\ sigchld' \in BOOLEAN
    BY <1>7 DEF Core, TypeOK
  <2>9. /\ died' \in [Serials -> {"no", "zero", "other"}]
        /\ unread' \in [Serials -> Nat]
        /\ unread'[q.serial] <= unread[q.serial]
    BY <1>7, <2>1, <2>3 DEF Core, TypeOK
  <2>10. Whole(q) => /\ q.output + unread'[q.serial] = written[q.serial]
                     /\ q.closed => unread'[q.serial] = 0
    BY <1>7, <1>8, <2>3 DEF Core, Counted, Whole
  <2>11. q.open => ~ q.closed
    BY <2>3 DEF Core, Occupied
  <2> QED BY <1>5, <1>6, <1>7, <1>8, <2>3, <2>4, <2>6, <2>7, <2>8, <2>9,
      <2>10, <2>11,
             SettledCore
<1>9. ASSUME \A s \in Slots : slots[s].active => slots[s].pid # p,
             UNCHANGED <<slots, pc, runner, back, history>>
      PROVE  Core'
  <2>1. TypeOK'
    BY <1>5, <1>7, <1>9 DEF Core, TypeOK, history
  <2>2. Occupied' /\ Called' /\ Counted' /\ HonestSuccess' /\ PendingHasSlot'
    BY <1>7, <1>9 DEF Core, Occupied, Called, Counted, Whole, HonestSuccess,
       PendingHasSlot, history
  <2>3. Numbered'
    <3>1. \A r \in Pids : procs'[r].serial <= serial
      BY <1>6 DEF Core, TypeOK, Numbered, Processes
    <3> QED BY <1>6, <1>7, <1>9, <3>1 DEF Core, Numbered, history
  <2>4. Tracked'
    BY <1>6, <1>7, <1>9 DEF Core, Numbered, Tracked
  <2>5. PidsOwned'
    BY <1>5, <1>9 DEF Core, TypeOK, SlotStates, PidsOwned
  <2> QED BY <2>1, <2>2, <2>3, <2>4, <2>5 DEF Core
<1> QED BY <1>8, <1>9 DEF Reap

(* The pipe of a slot is read, and closed at its end or on an error.       *)
LEMMA ReadKeeps ==
  ASSUME Core, NEW s \in Slots, Read(s)
  PROVE  Core'
<1> DEFINE x == slots[s].serial
           end(n) == n = unread[x] /\ ~ Writers(x)
           k(n) == Kept(slots[s], n)
<1>1. /\ pc = "events" /\ slots[s].open
      /\ batch' = batch \ {s}
      /\ UNCHANGED <<serial, faulted, cursor, procs, sigchld, written, died>>
  BY DEF Read
<1>2. PICK n \in 0..unread[x] :
        \/ /\ n > 0 \/ (unread[x] = 0 /\ ~ end(n))
           /\ unread' = [unread EXCEPT ![x] = @ - n]
           /\ Settle(s, k(n), "events")
        \/ /\ end(n)
           /\ unread' = [unread EXCEPT ![x] = 0]
           /\ Settle(s, Closed(k(n), FALSE), "events")
        \/ /\ unread' = [unread EXCEPT ![x] = 0]
           /\ Settle(s, Closed(k(n), TRUE), "events")
  BY DEF Read
<1>3. /\ slots[s] \in SlotStates /\ slots[s].active /\ ~ slots[s].closed
      /\ x \in Serials
  <2>1. slots[s] \in SlotStates /\ slots[s].active /\ ~ slots[s].closed
    BY <1>1 DEF Core, TypeOK, Occupied
  <2> QED BY <2>1, SpawnAssumption DEF Core, TypeOK, Numbered, Serials
<1>4. unread[x] \in Nat /\ n \in Nat /\ n <= unread[x]
  BY <1>2, <1>3 DEF Core, TypeOK
<1>5. /\ k(n) \in SlotStates
      /\ k(n).active /\ k(n).block = slots[s].block
      /\ k(n).old = slots[s].old /\ k(n).serial = x
      /\ ~ k(n).closed /\ k(n).exited = slots[s].exited
      /\ k(n).pid = slots[s].pid /\ k(n).status = slots[s].status
      /\ Whole(k(n)) => Whole(slots[s]) /\ k(n).output = slots[s].output + n
  BY <1>3, <1>4, KeptState DEF Whole
<1> DEFINE Good(q) ==
      /\ q \in SlotStates /\ q.active /\ q.block = slots[s].block
      /\ q.old = slots[s].old /\ q.serial = x
      /\ q.open => ~ q.closed
      /\ q.exited = slots[s].exited /\ q.status = slots[s].status
      /\ q.pid = slots[s].pid
      /\ Whole(q) => /\ q.output + unread'[x] = written[x]
                     /\ q.closed => unread'[x] = 0
<1>6. ASSUME NEW q, Good(q), Settle(s, q, "events"),
             unread' \in [Serials -> Nat], unread'[x] <= unread[x],
             \A y \in Serials : y # x => unread'[y] = unread[y]
      PROVE  Core'
  <2>1. /\ batch' \subseteq Slots \cup {Signalfd, Other}
        /\ cursor' \in 1..(NSlots + 1)
        /\ sigchld' \in BOOLEAN
    BY <1>1 DEF Core, TypeOK
  <2>2. /\ procs' \in [Pids -> Processes]
        /\ died' \in [Serials -> {"no", "zero", "other"}]
    BY <1>1 DEF Core, TypeOK
  <2>3. \A p \in Pids : /\ procs'[p].serial \in {0, procs[p].serial}
                        /\ Alive(p)' => Alive(p)
    BY <1>1 DEF Alive
  <2>4. \A t \in Slots : slots[t].active /\ slots[t].pid # NoPid =>
          /\ procs'[slots[t].pid].leader # "none"
          /\ procs'[slots[t].pid].serial = slots[t].serial
    BY <1>1 DEF Core, PidsOwned
  <2>5. slots[s].exited =>
          /\ slots[s].status = died'[x]
          /\ \A p \in Pids : procs'[p].serial = x => ~ Alive(p)'
    BY <1>1, <1>3 DEF Core, Tracked, Alive
  <2>6. /\ q \in SlotStates /\ q.active /\ q.block = slots[s].block
        /\ q.old = slots[s].old /\ q.serial = slots[s].serial
        /\ q.open => ~ q.closed
        /\ Whole(q) => /\ q.output + unread'[q.serial] = written[q.serial]
                       /\ q.closed => unread'[q.serial] = 0
    BY <1>6
  <2>7. q.pid # NoPid => /\ procs'[q.pid].leader # "none"
                         /\ procs'[q.pid].serial = q.serial
    BY <1>3, <1>6, <2>4
  <2>8. q.exited => /\ q.status = died'[q.serial]
                    /\ \A p \in Pids : procs'[p].serial = q.serial =>
                         ~ Alive(p)'
    BY <1>6, <2>5
  <2>9. /\ unread' \in [Serials -> Nat]
        /\ unread'[q.serial] <= unread[q.serial]
        /\ \A y \in Serials : y # q.serial => unread'[y] = unread[y]
        /\ \A y \in Serials : y # q.serial => died'[y] = died[y]
    BY <1>1, <1>6
  <2>10. Settle(s, q, "events")
    BY <1>6
  <2> HIDE DEF Good, x
  <2> QED BY <1>1, <1>3, <2>1, <2>2, <2>3, <2>4, <2>6, <2>7, <2>8, <2>9,
             <2>10, SettledCore
<1>7. Whole(slots[s]) => slots[s].output + unread[x] = written[x]
  BY <1>3 DEF Core, Counted
<1>8. slots[s].output \in Nat /\ written[x] \in Nat
  BY <1>3, SpawnAssumption DEF SlotStates, Core, TypeOK
<1>9. ASSUME NEW i \in Nat, unread' = [unread EXCEPT ![x] = i], i <= unread[x]
      PROVE  /\ unread' \in [Serials -> Nat] /\ unread'[x] <= unread[x]
             /\ unread'[x] = i
             /\ \A y \in Serials : y # x => unread'[y] = unread[y]
  BY <1>3, <1>9 DEF Core, TypeOK
<1> HIDE DEF k, x
<1>10. CASE unread' = [unread EXCEPT ![x] = @ - n] /\ Settle(s, k(n), "events")
  <2>1. unread[x] - n \in Nat /\ unread[x] - n <= unread[x]
    BY <1>4
  <2>2. unread' = [unread EXCEPT ![x] = unread[x] - n]
    BY <1>10
  <2>3. unread'[x] = unread[x] - n
    BY <1>9, <2>1, <2>2
  <2>4. Good(k(n))
    BY <1>4, <1>5, <1>7, <1>8, <2>3
  <2> QED BY <1>6, <1>9, <1>10, <2>1, <2>2, <2>4
<1>11. ASSUME NEW e \in BOOLEAN, n = unread[x] \/ e,
             unread' = [unread EXCEPT ![x] = 0],
             Settle(s, Closed(k(n), e), "events")
      PROVE  Core'
  <2> DEFINE q == Closed(k(n), e)
  <2>1. k(n) \in SlotStates
    BY <1>5
  <2>2. /\ q \in SlotStates
        /\ q.active = k(n).active /\ q.block = k(n).block
        /\ q.old = k(n).old /\ q.serial = k(n).serial
        /\ ~ q.open /\ q.closed /\ q.exited = k(n).exited
        /\ q.pid = k(n).pid /\ q.status = k(n).status
        /\ Whole(q) => Whole(k(n)) /\ ~ e /\ q.output = k(n).output
    BY <2>1, ClosedState, ClosedFields DEF Whole
  <2> HIDE DEF q
  <2>3. /\ unread' \in [Serials -> Nat]
        /\ unread'[x] = 0 /\ unread'[x] <= unread[x]
        /\ \A y \in Serials : y # x => unread'[y] = unread[y]
    <3>1. 0 \in Nat /\ 0 <= unread[x]
      BY <1>4
    <3> QED BY <1>9, <1>11, <3>1
  <2>4. Good(q)
    BY <1>4, <1>5, <1>7, <1>8, <1>11, <2>2, <2>3
  <2>5. Settle(s, q, "events")
    BY <1>11 DEF q
  <2> QED BY <1>6, <2>3, <2>4, <2>5
<1> QED BY <1>2, <1>10, <1>11

(* A deadline is handled: the group is killed, what is in the pipe is      *)
(* thrown away, and the slot is marked.                                    *)
LEMMA ExpireKeeps ==
  ASSUME Core, Expire
  PROVE  Core'
<1> DEFINE s == cursor
           x == slots[s].serial
<1>1. /\ pc = "expire" /\ s \in Slots /\ cursor' = s + 1
      /\ UNCHANGED <<serial, faulted, batch, written>>
  BY DEF Expire
<1>2. /\ slots[s] \in SlotStates /\ cursor' \in 1..(NSlots + 1)
      /\ batch' \subseteq Slots \cup {Signalfd, Other}
  BY <1>1, SpawnAssumption DEF Core, TypeOK, Slots
<1>3. \A t \in Slots : slots[t].active /\ slots[t].pid # NoPid =>
        /\ slots[t].pid \in Pids
        /\ procs[slots[t].pid].leader # "none"
        /\ procs[slots[t].pid].serial = slots[t].serial
  BY DEF Core, TypeOK, SlotStates, PidsOwned
<1>4. CASE slots[s].active /\ slots[s].pending
  <2> DEFINE q == [slots[s] EXCEPT !.pending = FALSE]
  <2>1. /\ q \in SlotStates /\ q.active = slots[s].active
        /\ q.block = slots[s].block /\ q.old = slots[s].old
        /\ q.serial = x /\ q.open = slots[s].open
        /\ q.closed = slots[s].closed /\ q.exited = slots[s].exited
        /\ q.pid = slots[s].pid /\ q.status = slots[s].status
        /\ q.output = slots[s].output /\ q.overflow = slots[s].overflow
        /\ q.io_error = slots[s].io_error /\ q.timed_out = slots[s].timed_out
    BY <1>2 DEF SlotStates
  <2>2. /\ Settle(s, q, "expire")
        /\ UNCHANGED <<procs, died, sigchld, unread>>
    BY <1>4 DEF Expire
  <2> HIDE DEF q
  <2>3. x \in Serials
    BY <1>1, <1>4, SpawnAssumption DEF Core, TypeOK, Numbered, Serials
  <2>4. /\ procs' \in [Pids -> Processes] /\ sigchld' \in BOOLEAN
        /\ died' \in [Serials -> {"no", "zero", "other"}]
        /\ unread' \in [Serials -> Nat]
        /\ unread'[q.serial] <= unread[q.serial]
    BY <2>1, <2>2, <2>3 DEF Core, TypeOK
  <2>5. \A p \in Pids : /\ procs'[p].serial \in {0, procs[p].serial}
                        /\ Alive(p)' => Alive(p)
    BY <2>2 DEF Alive
  <2>6. q.exited => /\ q.status = died'[q.serial]
                    /\ \A p \in Pids : procs'[p].serial = q.serial =>
                         ~ Alive(p)'
    BY <1>1, <1>4, <2>1, <2>2 DEF Core, Tracked, Alive
  <2>7. Whole(q) => /\ q.output + unread'[q.serial] = written[q.serial]
                    /\ q.closed => unread'[q.serial] = 0
    BY <1>1, <1>4, <2>1, <2>2 DEF Core, Counted, Whole
  <2>8. q.open => ~ q.closed
    BY <1>1, <2>1 DEF Core, Occupied
  <2>9. /\ q.active
        /\ q.pid # NoPid => /\ procs'[q.pid].leader # "none"
                            /\ procs'[q.pid].serial = q.serial
    BY <1>1, <1>3, <1>4, <2>1, <2>2
  <2>10. /\ \A t \in Slots \ {s} :
              slots[t].active /\ slots[t].pid # NoPid =>
                /\ procs'[slots[t].pid].leader # "none"
                /\ procs'[slots[t].pid].serial = slots[t].serial
         /\ \A y \in Serials : y # q.serial => died'[y] = died[y]
         /\ \A y \in Serials : y # q.serial => unread'[y] = unread[y]
    BY <1>3, <2>2
  <2> QED BY <1>1, <1>2, <1>4, <2>1, <2>2, <2>4, <2>5, <2>6, <2>7, <2>8, <2>9,
             <2>10, SettledCore
<1>5. CASE slots[s].active /\ ~ slots[s].pending /\ slots[s].deadline = "due"
  <2> DEFINE q == Expired(slots[s])
  <2>1. /\ q \in SlotStates /\ q.active = slots[s].active
        /\ q.block = slots[s].block /\ q.old = slots[s].old
        /\ q.serial = x /\ ~ q.open /\ q.closed /\ q.exited = slots[s].exited
        /\ q.timed_out /\ q.pid = slots[s].pid /\ q.status = slots[s].status
    BY <1>2, ExpiredState, ExpiredFields
  <2>2. /\ Settle(s, q, "expire") /\ KillGroup(slots[s].pid)
        /\ unread' = [unread EXCEPT ![x] = 0]
    BY <1>5 DEF Expire
  <2> HIDE DEF q
  <2>3. x \in Serials
    BY <1>1, <1>5, SpawnAssumption DEF Core, TypeOK, Numbered, Serials
  <2>4. /\ unread' \in [Serials -> Nat] /\ unread'[x] <= unread[x]
        /\ \A y \in Serials : y # x => unread'[y] = unread[y]
    BY <2>2, <2>3 DEF Core, TypeOK
  <2>5. /\ procs' \in [Pids -> Processes] /\ sigchld' \in BOOLEAN
        /\ died' \in [Serials -> {"no", "zero", "other"}]
        /\ \A y \in Serials : y # x => died'[y] = died[y]
        /\ \A p \in Pids : /\ procs'[p].serial \in {0, procs[p].serial}
                           /\ Alive(p)' => Alive(p)
                           /\ procs[p].leader # "none" =>
                                /\ procs'[p].leader # "none"
                                /\ procs'[p].serial = procs[p].serial
        /\ slots[s].exited => died'[x] = died[x]
    <3>1. CASE slots[s].pid = NoPid
      BY <2>2, <3>1 DEF KillGroup, Core, TypeOK, Alive
    <3>2. CASE slots[s].pid # NoPid
      <4> DEFINE p == slots[s].pid
                 m == [procs[p] EXCEPT
                        !.leader = IF Alive(p) THEN "zombie" ELSE @,
                        !.family = FALSE]
                 n == Normal(m)
      <4>1. /\ p \in Pids /\ procs[p].leader # "none" /\ procs[p].serial = x
        BY <1>1, <1>3, <1>5, <3>2
      <4>2. procs[p] \in Processes
        BY <4>1 DEF Core, TypeOK
      <4>3. /\ procs' = [procs EXCEPT ![p] = n]
            /\ died' = IF Alive(p) THEN Ended(x, "other") ELSE died
            /\ sigchld' = (sigchld \/ Alive(p))
        <5>1. KillGroup(p) /\ p # NoPid
          BY <2>2, <3>2
        <5>2. procs' = [procs EXCEPT ![p] = n]
          BY <5>1 DEF KillGroup
        <5>3. died' = IF Alive(p) THEN Ended(procs[p].serial, "other")
                      ELSE died
          BY <5>1 DEF KillGroup
        <5>4. sigchld' = (sigchld \/ Alive(p))
          BY <5>1 DEF KillGroup
        <5> QED BY <4>1, <5>2, <5>3, <5>4
      <4>4. /\ m \in Processes /\ m.serial = x
            /\ m.leader = IF Alive(p) THEN "zombie" ELSE procs[p].leader
        BY <4>1, <4>2 DEF Processes
      <4> HIDE DEF m
      <4>5. /\ n \in Processes /\ n.serial = x /\ n.leader # "none"
            /\ n.leader \notin {"running", "quiet"}
        <5>1. m.leader # "none" /\ m.leader \notin {"running", "quiet"}
          BY <4>1, <4>4 DEF Alive
        <5> QED BY <4>4, <5>1, NormalProcess
      <4> HIDE DEF n
      <4>6. /\ procs' \in [Pids -> Processes] /\ procs'[p] = n
            /\ \A r \in Pids \ {p} : procs'[r] = procs[r]
        BY <4>1, <4>3, <4>5 DEF Core, TypeOK
      <4>7. /\ died' \in [Serials -> {"no", "zero", "other"}]
            /\ \A y \in Serials : y # x => died'[y] = died[y]
        BY <2>3, <4>3 DEF Ended, Core, TypeOK
      <4>8. slots[s].exited => ~ Alive(p)
        BY <1>1, <1>5, <4>1 DEF Core, Tracked
      <4>9. sigchld' \in BOOLEAN
        BY <4>3 DEF Core, TypeOK, Alive
      <4> HIDE DEF p
      <4> QED BY <4>1, <4>3, <4>5, <4>6, <4>7, <4>8, <4>9 DEF Alive
    <3> QED BY <3>1, <3>2
  <2>6. q.exited => /\ q.status = died'[q.serial]
                    /\ \A p \in Pids : procs'[p].serial = q.serial =>
                         ~ Alive(p)'
    <3>1. x # 0
      BY <2>3, SpawnAssumption DEF Serials
    <3>2. slots[s].exited =>
            /\ slots[s].status = died[x]
            /\ \A p \in Pids : procs[p].serial = x => ~ Alive(p)
      BY <1>1, <1>5 DEF Core, Tracked
    <3> HIDE DEF x
    <3>3. \A p \in Pids : procs'[p].serial = x => procs[p].serial = x
      BY <2>5, <3>1
    <3> QED BY <2>1, <2>5, <3>2, <3>3
  <2>7. ~ Whole(q)
    BY <2>1 DEF Whole
  <2>8. /\ q.active
        /\ q.pid # NoPid => /\ procs'[q.pid].leader # "none"
                            /\ procs'[q.pid].serial = q.serial
    BY <1>1, <1>3, <1>5, <2>1, <2>5
  <2>9. \A t \in Slots \ {s} :
          slots[t].active /\ slots[t].pid # NoPid =>
            /\ procs'[slots[t].pid].leader # "none"
            /\ procs'[slots[t].pid].serial = slots[t].serial
    BY <1>3, <2>5
  <2>10. q.open => ~ q.closed
    BY <2>1
  <2> QED BY <1>1, <1>2, <1>5, <2>1, <2>2, <2>4, <2>5, <2>6, <2>7, <2>8, <2>9,
             <2>10, SettledCore
<1>6. CASE /\ slots[s].active
              => ~ slots[s].pending /\ slots[s].deadline # "due"
           /\ UNCHANGED <<slots, pc, runner, back, procs, died, sigchld,
                          unread, history>>
  <2>1. Placed' /\ Called' /\ sigchld' \in BOOLEAN
    BY <1>1, <1>2, <1>6 DEF Core, TypeOK, Placed, Called
  <2>2. \A t \in Slots : slots[t].old =>
          pc' \in {"refresh", "destroy"} \/ back' = "destroy"
    BY <1>6 DEF Core, Occupied, PendingHasSlot
  <2> QED BY <1>1, <1>6, <2>1, <2>2, MovesKeep
<1> QED BY <1>4, <1>5, <1>6 DEF Expire

-----------------------------------------------------------------------------
(* The theorems.                                                           *)

(* The invariant holds at first.                                           *)
LEMMA InitCore == Init => Core
<1> SUFFICES ASSUME Init
             PROVE  Core
  OBVIOUS
<1>1. TypeOK
  <2>1. slots \in [Slots -> SlotStates]
    BY FreeSlotState DEF Init
  <2>2. procs \in [Pids -> Processes]
    BY EmptyProcess DEF Init
  <2>3. /\ serial \in 0..MaxSpawns /\ cursor \in 1..(NSlots + 1)
        /\ delivered \in [Serials -> 0..Limit]
        /\ {unread, written} \subseteq [Serials -> Nat]
        /\ \A x \in Serials :
             unread[x] <= written[x] /\ written[x] <= MaxWrite[x]
    BY SpawnAssumption DEF Init, Serials
  <2>4. /\ died \in [Serials -> {"no", "zero", "other"}]
        /\ fate \in [Serials -> Fates]
    BY DEF Init, Fates
  <2> QED BY <2>1, <2>2, <2>3, <2>4 DEF Init, TypeOK
<1>2. \A s \in Slots : ~ slots[s].active /\ ~ slots[s].open /\ ~ slots[s].old
  BY FreeSlotState DEF Init
<1>3. \A p \in Pids : procs[p].serial = 0
  BY EmptyProcess DEF Init
<1>4. Occupied /\ Called /\ Tracked /\ Counted /\ PidsOwned
  BY <1>2 DEF Init, Occupied, Called, Tracked, Counted, PidsOwned
<1>5. Numbered
  BY <1>2, <1>3 DEF Init, Numbered
<1>6. PendingHasSlot /\ HonestSuccess
  BY <1>2 DEF Init, PendingHasSlot, HonestSuccess
<1> QED BY <1>1, <1>4, <1>5, <1>6 DEF Core

(* Every step keeps the invariant.                                         *)
LEMMA NextKeeps == Core /\ [Next]_vars => Core'
<1> SUFFICES ASSUME Core, [Next]_vars
             PROVE  Core'
  OBVIOUS
<1>1. CASE Environment
  BY <1>1, ExitKeeps, QuietenKeeps, ForkKeeps, FamilyExitsKeeps, WriteKeeps,
     ElapseKeeps, LoopMoves DEF Environment
<1>2. CASE Lua
  BY <1>2, SpawnKeeps, ExecFailsKeeps, CancelSerialKeeps, SetupFailsKeeps
     DEF Lua
<1>3. CASE Loop
  BY <1>3, LoopMoves, CallbackFailsKeeps, ReapKeeps, ReadKeeps, ExpireKeeps,
     CommitKeeps, DestroyOldKeeps DEF Loop
<1>4. CASE UNCHANGED vars
  <2>1. Placed' /\ Called' /\ sigchld' \in BOOLEAN
    BY <1>4 DEF Core, TypeOK, Placed, Called, vars, loop, kernel
  <2>2. \A s \in Slots : slots[s].old =>
          pc' \in {"refresh", "destroy"} \/ back' = "destroy"
    BY <1>4 DEF Core, Occupied, PendingHasSlot, vars, loop
  <2>3. UNCHANGED <<slots, serial, faulted, procs, unread, written, died,
                    history>>
    BY <1>4 DEF vars, loop, kernel
  <2> QED BY <2>1, <2>2, <2>3, MovesKeep
<1> QED BY <1>1, <1>2, <1>3, <1>4 DEF Next

(* The invariant holds throughout.                                         *)
THEOREM SpawnInductive == Spec => []Core
  BY InitCore, NextKeeps, PTL DEF Spec

(* Type correctness.                                                       *)
THEOREM SpawnTyped == Spec => []TypeOK
<1>1. Core => TypeOK
  BY DEF Core
<1> QED BY <1>1, SpawnInductive, PTL

(* A process id in a slot names the child of that slot, not yet reaped     *)
(* (spawn.c): signals and wait statuses go to and come from the right      *)
(* child, whatever ids the kernel hands out again.                         *)
THEOREM PidsStayOwned == Spec => []PidsOwned
<1>1. Core => PidsOwned
  BY DEF Core
<1> QED BY <1>1, SpawnInductive, PTL

(* Calls that were neither answered nor cancelled and occupied slots       *)
(* correspond, each slot of a block that may be called: nothing is lost at *)
(* a timeout, a failure or a reload.                                       *)
THEOREM PendingCallsHaveSlots == Spec => []PendingHasSlot
<1>1. Core => PendingHasSlot
  BY DEF Core
<1> QED BY <1>1, SpawnInductive, PTL

(* Success means status zero and all of the output, wherever reads, reaps  *)
(* and deadlines fall.                                                     *)
THEOREM SuccessIsHonest == Spec => []HonestSuccess
<1>1. Core => HonestSuccess
  BY DEF Core
<1> QED BY <1>1, SpawnInductive, PTL

(* The fate of a call is sealed once: a cancelled call is not answered and *)
(* an answered one is not answered again.                                  *)
THEOREM CallsAnsweredOnce == Spec => AnsweredOnce
<1> DEFINE A == \A x \in Serials : fate[x] \notin {"unused", "pending"} =>
                  fate'[x] = fate[x]
<1>1. Core /\ [Next]_vars => [A]_vars
  <2> SUFFICES ASSUME Core, Next
               PROVE  A
    OBVIOUS
  <2>1. ASSUME UNCHANGED fate
        PROVE  A
    BY <2>1
  <2>2. ASSUME NEW which \in SUBSET Slots, \A s \in which : slots[s].active,
               Cancel(which)
        PROVE  A
    <3>1. \A s \in which : fate[slots[s].serial] = "pending"
      <4>1. \A s \in which : slots[s].serial \in Serials
        BY <2>2, SpawnAssumption DEF Core, TypeOK, Numbered, Serials
      <4> QED BY <2>2, <4>1 DEF Core, PendingHasSlot
    <3> QED BY <2>2, <3>1 DEF Cancel
  <2>3. ASSUME NEW s \in Slots, slots[s].active, NEW q, NEW return,
               q.serial = slots[s].serial, Settle(s, q, return)
        PROVE  A
    <3>1. slots[s].serial \in Serials
      BY <2>3, SpawnAssumption DEF Core, TypeOK, Numbered, Serials
    <3>2. fate[slots[s].serial] = "pending"
      BY <2>3, <3>1 DEF Core, PendingHasSlot
    <3>3. \A x \in Serials : x # slots[s].serial => fate'[x] = fate[x]
      BY <2>3 DEF Settle, history, Core, TypeOK
    <3> QED BY <3>2, <3>3
  <2>4. ASSUME NEW v, serial < MaxSpawns,
               fate' = [fate EXCEPT ![serial + 1] = v]
        PROVE  A
    <3>1. /\ serial + 1 \in Serials /\ serial + 1 > serial
      BY <2>4, SpawnAssumption DEF Core, TypeOK, Serials
    <3>2. fate[serial + 1] = "unused"
      BY <3>1 DEF Core, Numbered
    <3> QED BY <2>4, <3>2 DEF Core, TypeOK
  <2>5. CASE Environment
    BY <2>1, <2>5
       DEF Environment, Exit, Quieten, Fork, FamilyExits, Write, Elapse, Wake,
           history
  <2>6. CASE Lua
    <3>1. ASSUME NEW s \in Slots, NEW timeout \in {"none", "later"},
                 Spawn(s, timeout)
          PROVE  A
      BY <2>4, <3>1 DEF Spawn
    <3>2. ASSUME NEW s \in Slots, ExecFails(s)
          PROVE  A
      BY <2>4, <3>2 DEF ExecFails
    <3>3. CASE SetupFails
      BY <2>4, <3>3 DEF SetupFails
    <3>4. ASSUME NEW s \in Slots, CancelSerial(s)
          PROVE  A
      <4>1. {s} \in SUBSET Slots /\ \A t \in {s} : slots[t].active
        BY <3>4 DEF CancelSerial
      <4> QED BY <2>2, <3>4, <4>1 DEF CancelSerial
    <3> QED BY <2>6, <3>1, <3>2, <3>3, <3>4 DEF Lua
  <2>7. CASE Loop
    <3>1. CASE CallbackFails
      BY <2>2, <3>1 DEF CallbackFails, Owned
    <3>2. CASE DestroyOld
      <4>1. \A s \in {t \in Slots : slots[t].old} : slots[s].active
        BY DEF Core, Occupied
      <4> QED BY <2>2, <3>2, <4>1 DEF DestroyOld
    <3>3. ASSUME NEW p \in Pids, Reap(p)
          PROVE  A
      <4>1. \A s \in Slots : Reaped(slots[s]).serial = slots[s].serial
        BY ReapedFields DEF Core, TypeOK
      <4> QED BY <2>1, <2>3, <3>3, <4>1 DEF Reap, history
    <3>4. ASSUME NEW s \in Slots, Read(s)
          PROVE  A
      <4>1. /\ slots[s] \in SlotStates /\ slots[s].active
            /\ slots[s].serial \in Serials
        <5>1. slots[s].active
          BY <3>4 DEF Read, Core, Occupied
        <5> QED BY <5>1, SpawnAssumption DEF Core, TypeOK, Numbered, Serials
      <4>2. PICK n \in 0..unread[slots[s].serial] :
              \/ Settle(s, Kept(slots[s], n), "events")
              \/ Settle(s, Closed(Kept(slots[s], n), FALSE), "events")
              \/ Settle(s, Closed(Kept(slots[s], n), TRUE), "events")
        BY <3>4 DEF Read
      <4>3. n \in Nat
        BY <4>1 DEF Core, TypeOK
      <4> DEFINE k == Kept(slots[s], n)
      <4>4. k \in SlotStates /\ k.serial = slots[s].serial
        BY <4>1, <4>3, KeptState
      <4> HIDE DEF k
      <4>5. /\ Closed(k, FALSE).serial = slots[s].serial
            /\ Closed(k, TRUE).serial = slots[s].serial
        BY <4>4, ClosedFields
      <4> QED BY <2>3, <4>1, <4>2, <4>4, <4>5 DEF k
    <3>5. CASE Expire
      <4>1. CASE UNCHANGED history
        BY <2>1, <4>1 DEF history
      <4>2. CASE ~ UNCHANGED history
        <5>1. /\ cursor \in Slots /\ slots[cursor].active
              /\ \/ Settle(cursor, [slots[cursor] EXCEPT !.pending = FALSE],
                           "expire")
                 \/ Settle(cursor, Expired(slots[cursor]), "expire")
          BY <3>5, <4>2 DEF Expire
        <5>2. slots[cursor] \in SlotStates
          BY <5>1 DEF Core, TypeOK
        <5>3. /\ [slots[cursor] EXCEPT !.pending = FALSE].serial
                   = slots[cursor].serial
              /\ Expired(slots[cursor]).serial = slots[cursor].serial
          BY <5>2, ExpiredFields DEF SlotStates
        <5> QED BY <2>3, <5>1, <5>3
      <4> QED BY <4>1, <4>2
    <3> QED BY <2>1, <2>7, <3>1, <3>2, <3>3, <3>4, <3>5
               DEF Loop, CallbackReturns, Wake, HandleOther, Call, ReadSignal,
                   ReapDone, ReadNothing, BeginExpire, ExpireDone, EndTurn,
                   Commit, history
  <2> QED BY <2>5, <2>6, <2>7 DEF Next
<1> QED BY <1>1, SpawnInductive, PTL DEF Spec, AnsweredOnce
=============================================================================
