----------------------------- MODULE DbusProofs -----------------------------
(***************************************************************************)
(* The D-Bus operations of Lua: what sd-bus holds is alive, no call is     *)
(* forgotten or answered twice, and none takes up memory while the loop    *)
(* waits, for any calls, matches, watches, blocks and limits.              *)
(***************************************************************************)
EXTENDS Dbus, FiniteSetTheorems, TLAPS

(* TypeOK without the limit on operations, which needs a count.            *)
Types ==
  /\ pc \in {"reconcile", "matches", "calls", "watches", "register", "lost",
             "wait", "events", "process", "timers"}
  /\ turn \in {"top", "event", "late"}
  /\ walk \subseteq linked
  /\ lua \in Blocks \cup {NoBlock}
  /\ linked \subseteq Ops
  /\ cancelled \subseteq linked
  /\ sent \subseteq linked \cap Calls
  /\ completed \subseteq sent
  /\ slot \subseteq linked \ Watches
  /\ stamped \cup met \subseteq linked \ Calls
  /\ installing \subseteq slot \cap Matches
  /\ faulted \subseteq Blocks
  /\ bus \in {"none", "hello", "open", "closing"}
  /\ retry \in {"no", "wait", "due"}
  /\ heard \in [Calls -> 0..2]
  /\ troubles \in 0..MaxTroubles

(* Where callbacks run, lists are walked, the bus is open, and calls are   *)
(* reaped.                                                                 *)
Places ==
  /\ lua # NoBlock => pc \in {"matches", "calls", "watches", "lost", "process",
                              "events", "timers"}
  /\ walk # {} => pc \in {"matches", "calls", "watches", "lost"}
  /\ pc \in {"matches", "calls", "watches", "register", "lost", "process"}
       => bus # "none"
  /\ pc = "lost" => slot \subseteq walk
  /\ pc = "register" => Settled \cap Calls \cap linked = {}

(* What a call heard is what it was completed with.                        *)
Heard == \A c \in Calls : heard[c] = IF c \in completed THEN 1 ELSE 0

Core ==
  Types /\ Places /\ Heard /\ SlotsLive /\ NoCallForgotten /\ NothingRetained

-----------------------------------------------------------------------------
(* The steps of Lua, of reconcile_dbus_transport, of                        *)
(* process_dbus_transport and of the loop keep Core.                        *)

(* What a callback creates or cancels.                                      *)
LEMMA LuaKeeps == Core /\ LuaStep => Core'
<1> SUFFICES ASSUME Core, LuaStep
             PROVE  Core'
  OBVIOUS
<1>1. ASSUME NEW x \in Ops, CreateOp(x)
      PROVE  Core'
  <2>1. Types' /\ Places'
    BY <1>1 DEF Core, Types, Places, CreateOp, connection
  <2>2. Heard' /\ SlotsLive'
    BY <1>1 DEF Core, Heard, SlotsLive, CreateOp, connection, Settled
  <2>3. NoCallForgotten' /\ NothingRetained'
    BY <1>1
       DEF Core, Places, NoCallForgotten, NothingRetained, CreateOp, InFlight,
           Settled, Allowed
  <2> QED BY <2>1, <2>2, <2>3 DEF Core
<1>2. ASSUME NEW x \in Ops, CancelOp(x)
      PROVE  Core'
  <2>1. Types' /\ Places'
    BY <1>2 DEF Core, Types, Places, CancelOp, Forget, connection
  <2>2. Heard' /\ SlotsLive'
    BY <1>2 DEF Core, Heard, SlotsLive, CancelOp, Forget, connection, Settled
  <2>3. NoCallForgotten' /\ NothingRetained'
    BY <1>2
       DEF Core, Places, NoCallForgotten, NothingRetained, CancelOp, Forget,
           InFlight, Settled, Allowed
  <2> QED BY <2>1, <2>2, <2>3 DEF Core
<1>3. ASSUME Return
      PROVE  Core'
  BY <1>3
     DEF Core, Types, Places, Heard, SlotsLive, NoCallForgotten,
         NothingRetained, Return, operations, connection, InFlight, Settled,
         Allowed
<1>4. ASSUME Fail
      PROVE  Core'
  <2>1. Types' /\ Places'
    BY <1>4 DEF Core, Types, Places, Fail, Forget, OfBlocks, connection
  <2>2. Heard' /\ SlotsLive'
    BY <1>4 DEF Core, Heard, SlotsLive, Fail, Forget, connection, Settled
  <2>3. NoCallForgotten' /\ NothingRetained'
    BY <1>4
       DEF Core, Places, NoCallForgotten, NothingRetained, Fail, Forget,
           InFlight, Settled, Allowed
  <2> QED BY <2>1, <2>2, <2>3 DEF Core
<1> QED BY <1>1, <1>2, <1>3, <1>4 DEF LuaStep

(* Opening, starting the operations, closing and losing the connection.     *)
LEMMA ReconcileKeeps == Core /\ ReconcileStep => Core'
<1> SUFFICES ASSUME Core, ReconcileStep
             PROVE  Core'
  OBVIOUS
<1>1. ASSUME CloseUnneeded
      PROVE  Core'
  <2>1. Types'
    BY <1>1 DEF Core, Types, Places, CloseUnneeded, Reap, Reapable, After
  <2>2. Places' /\ Heard'
    BY <1>1 DEF Core, Types, Places, Heard, CloseUnneeded, Reap, After
  <2>3. SlotsLive'
    BY <1>1 DEF Core, SlotsLive, CloseUnneeded
  <2>4. NoCallForgotten' /\ NothingRetained'
    BY <1>1
       DEF Core, SlotsLive, NoCallForgotten, NothingRetained, CloseUnneeded,
           Needed, Settled, Reap, Reapable, InFlight, Allowed
  <2> QED BY <2>1, <2>2, <2>3, <2>4 DEF Core
<1>2. ASSUME RetryLater
      PROVE  Core'
  <2>1. Types' /\ Places' /\ Heard'
    BY <1>2
       DEF Core, Types, Places, Heard, RetryLater, Reap, Reapable, After,
           connection
  <2>2. SlotsLive' /\ NoCallForgotten' /\ NothingRetained'
    BY <1>2
       DEF Core, SlotsLive, NoCallForgotten, NothingRetained, RetryLater,
           Settled, Reap, Reapable, InFlight, Allowed
  <2> QED BY <2>1, <2>2 DEF Core
<1>3. ASSUME OpenFails
      PROVE  Core'
  <2>1. Types' /\ Places' /\ Heard'
    BY DbusConstants, <1>3
       DEF Core, Types, Places, Heard, OpenFails, Trouble, Reap, Reapable,
           After
  <2>2. SlotsLive' /\ NoCallForgotten' /\ NothingRetained'
    BY <1>3
       DEF Core, SlotsLive, NoCallForgotten, NothingRetained, OpenFails,
           Settled, Reap, Reapable, InFlight, Allowed
  <2> QED BY <2>1, <2>2 DEF Core
<1>4. ASSUME Activate
      PROVE  Core'
  <2>1. Types'
    BY DbusConstants, <1>4 DEF Core, Types, Activate, Open, Reap, Reapable
  <2>2. Places' /\ Heard'
    BY <1>4 DEF Core, Places, Heard, Activate, Open, Reap
  <2>3. SlotsLive' /\ NoCallForgotten'
    BY <1>4
       DEF Core, SlotsLive, NoCallForgotten, Activate, Settled, Open, Reap,
           Reapable, InFlight, Allowed
  <2>4. NothingRetained'
    BY <1>4 DEF NothingRetained, Activate
  <2> QED BY <2>1, <2>2, <2>3, <2>4 DEF Core
<1>5. ASSUME NEW m \in Matches, VisitMatch(m)
      PROVE  Core'
  <2>1. Types'
    BY DbusConstants, <1>5 DEF Core, Types, VisitMatch, CallBack, connection
  <2>2. Places' /\ Heard'
    BY <1>5 DEF Core, Places, Heard, VisitMatch, connection
  <2>3. SlotsLive' /\ NoCallForgotten' /\ NothingRetained'
    BY DbusConstants, <1>5
       DEF Core, Types, Places, SlotsLive, NoCallForgotten, NothingRetained,
           VisitMatch, StartsMatch, Allowed, connection, InFlight, Settled
  <2> QED BY <2>1, <2>2, <2>3 DEF Core
<1>6. ASSUME MatchesDone
      PROVE  Core'
  BY <1>6
     DEF Core, Types, Places, Heard, SlotsLive, NoCallForgotten,
         NothingRetained, MatchesDone, operations, connection, InFlight,
         Settled, Allowed
<1>7. ASSUME NEW c \in Calls, VisitCall(c)
      PROVE  Core'
  <2>1. Types'
    BY DbusConstants, <1>7
       DEF Core, Types, Heard, VisitCall, Answer, CallBack, connection
  <2>2. Places'
    BY <1>7 DEF Core, Places, VisitCall, connection
  <2>3. Heard'
    BY <1>7 DEF Core, Types, Heard, VisitCall, StartsCall, Answer
  <2>4. SlotsLive'
    BY <1>7
       DEF Core, Types, Places, SlotsLive, VisitCall, StartsCall, Settled,
           Answer, connection
  <2>5. NoCallForgotten' /\ NothingRetained'
    BY <1>7
       DEF Core, NoCallForgotten, NothingRetained, VisitCall, Settled, Allowed,
           Answer, InFlight
  <2> QED BY <2>1, <2>2, <2>3, <2>4, <2>5 DEF Core
<1>8. ASSUME CallsDone
      PROVE  Core'
  BY <1>8
     DEF Core, Types, Places, Heard, SlotsLive, NoCallForgotten,
         NothingRetained, CallsDone, Settled, operations, connection, InFlight,
         Allowed
<1>9. ASSUME NEW w \in Watches, VisitWatch(w)
      PROVE  Core'
  BY DbusConstants, <1>9
     DEF Core, Types, Places, Heard, SlotsLive, NoCallForgotten,
         NothingRetained, VisitWatch, Allowed, CallBack, connection, InFlight,
         Settled
<1>10. ASSUME WatchesDone
      PROVE  Core'
  <2>1. Types'
    BY <1>10 DEF Core, Types, WatchesDone, Reap, Reapable, connection
  <2>2. Places'
    BY <1>10
       DEF Core, Places, SlotsLive, WatchesDone, Idle, Reap, Reapable, Settled,
           connection
  <2>3. Heard' /\ SlotsLive' /\ NoCallForgotten' /\ NothingRetained'
    BY <1>10
       DEF Core, Heard, SlotsLive, NoCallForgotten, NothingRetained,
           WatchesDone, Allowed, Reap, Reapable, Settled, connection, InFlight
  <2> QED BY <2>1, <2>2, <2>3 DEF Core
<1>11. ASSUME Registered
      PROVE  Core'
  BY <1>11
     DEF Core, Types, Places, Heard, SlotsLive, NoCallForgotten,
         NothingRetained, Registered, After, operations, connection, InFlight,
         Settled, Allowed
<1>12. ASSUME RegisterFails
      PROVE  Core'
  <2>1. Types' /\ Heard'
    BY DbusConstants, <1>12
       DEF Core, Types, Heard, RegisterFails, Trouble, Lose, InFlight
  <2>2. Places'
    BY <1>12 DEF Core, Types, Places, RegisterFails, Lose, Ops
  <2>3. SlotsLive'
    BY <1>12 DEF Core, SlotsLive, RegisterFails, Lose, Settled
  <2>4. NoCallForgotten' /\ NothingRetained'
    BY <1>12
       DEF NoCallForgotten, NothingRetained, RegisterFails, Lose, InFlight,
           Settled
  <2> QED BY <2>1, <2>2, <2>3, <2>4 DEF Core
<1>13. ASSUME NEW c \in Calls, LostCall(c)
      PROVE  Core'
  <2>1. Types'
    BY DbusConstants, <1>13
       DEF Core, Types, Heard, LostCall, InFlight, Answer, CallBack, connection
  <2>2. Places'
    BY <1>13 DEF Core, Places, LostCall, connection
  <2>3. Heard'
    BY <1>13 DEF Core, Types, Heard, LostCall, InFlight, Settled, Answer
  <2>4. SlotsLive'
    BY <1>13 DEF Core, SlotsLive, LostCall, Settled, Answer, connection
  <2>5. NoCallForgotten' /\ NothingRetained'
    BY <1>13
       DEF Core, NoCallForgotten, NothingRetained, LostCall, InFlight, Settled,
           Allowed, Answer
  <2> QED BY <2>1, <2>2, <2>3, <2>4, <2>5 DEF Core
<1>14. ASSUME LostDone
      PROVE  Core'
  <2>1. Types' /\ Places' /\ Heard'
    BY <1>14
       DEF Core, Types, Places, Heard, LostDone, Idle, Reap, Reapable, After
  <2>2. SlotsLive'
    BY <1>14 DEF Core, Places, SlotsLive, LostDone
  <2>3. NoCallForgotten'
    BY <1>14
       DEF Core, NoCallForgotten, LostDone, Reap, Settled, InFlight, Allowed
  <2>4. NothingRetained'
    BY <1>14
       DEF Core, SlotsLive, NothingRetained, LostDone, Reap, Reapable, Settled
  <2> QED BY <2>1, <2>2, <2>3, <2>4 DEF Core
<1> QED BY <1>1, <1>2, <1>3, <1>4, <1>5, <1>6, <1>7, <1>8, <1>9, <1>10,
           <1>11, <1>12, <1>13, <1>14
        DEF ReconcileStep

(* Answers, replies and signals, in the order sd-bus delivers them.         *)
LEMMA ProcessKeeps == Core /\ ProcessStep => Core'
<1> SUFFICES ASSUME Core, ProcessStep
             PROVE  Core'
  OBVIOUS
<1>1. ASSUME Hello
      PROVE  Core'
  BY <1>1
     DEF Core, Types, Places, Heard, SlotsLive, NoCallForgotten,
         NothingRetained, Hello, operations, InFlight, Settled, Allowed
<1>2. ASSUME ProcessFails
      PROVE  Core'
  <2>1. Types' /\ Heard'
    BY DbusConstants, <1>2
       DEF Core, Types, Heard, ProcessFails, Trouble, Lose, InFlight
  <2>2. Places'
    BY <1>2 DEF Core, Types, Places, ProcessFails, Processing, Lose, Ops
  <2>3. SlotsLive'
    BY <1>2 DEF Core, SlotsLive, ProcessFails, Lose, Settled
  <2>4. NoCallForgotten' /\ NothingRetained'
    BY <1>2
       DEF NoCallForgotten, NothingRetained, ProcessFails, Lose, InFlight,
           Settled
  <2> QED BY <2>1, <2>2, <2>3, <2>4 DEF Core
<1>3. ASSUME ProcessDone
      PROVE  Core'
  BY <1>3
     DEF Core, Types, Places, Heard, SlotsLive, NoCallForgotten,
         NothingRetained, ProcessDone, Processing, Idle, operations,
         connection, InFlight, Settled, Allowed
<1>4. ASSUME NEW c \in Calls, AnswerCall(c)
      PROVE  Core'
  <2>1. Types' /\ Places'
    BY DbusConstants, <1>4
       DEF Core, Types, Places, Heard, SlotsLive, AnswerCall, Processing,
           Answer, CallBack, connection
  <2>2. Heard'
    BY <1>4 DEF Core, Types, Heard, AnswerCall, Settled, Answer
  <2>3. SlotsLive'
    BY <1>4 DEF Core, SlotsLive, AnswerCall, Settled, Answer, connection
  <2>4. NoCallForgotten' /\ NothingRetained'
    BY <1>4
       DEF Core, NoCallForgotten, NothingRetained, AnswerCall, Processing,
           Allowed, Settled, Answer, InFlight
  <2> QED BY <2>1, <2>2, <2>3, <2>4 DEF Core
<1>5. ASSUME NEW m \in Matches, InstallReply(m)
      PROVE  Core'
  BY DbusConstants, <1>5
     DEF Core, Types, Places, Heard, SlotsLive, NoCallForgotten,
         NothingRetained, InstallReply, Processing, Allowed, CallBack,
         connection, InFlight, Settled
<1>6. ASSUME NEW m \in Matches, Signal(m)
      PROVE  Core'
  BY DbusConstants, <1>6
     DEF Core, Types, Places, Heard, SlotsLive, NoCallForgotten,
         NothingRetained, Signal, Processing, Allowed, CallBack, operations,
         connection, InFlight, Settled
<1> QED BY <1>1, <1>2, <1>3, <1>4, <1>5, <1>6 DEF ProcessStep

(* The rest of the turn, with the replacement of the generation.            *)
LEMMA LoopKeeps == Core /\ LoopStep => Core'
<1> SUFFICES ASSUME Core, LoopStep
             PROVE  Core'
  OBVIOUS
<1>1. ASSUME Wake
      PROVE  Core'
  BY <1>1
     DEF Core, Types, Places, Heard, SlotsLive, NoCallForgotten,
         NothingRetained, Wake, operations, connection, InFlight, Settled,
         Allowed
<1>2. ASSUME RetryDue
      PROVE  Core'
  BY <1>2
     DEF Core, Types, Places, Heard, SlotsLive, NoCallForgotten,
         NothingRetained, RetryDue, operations, InFlight, Settled, Allowed
<1>3. ASSUME ProcessEvent
      PROVE  Core'
  BY <1>3
     DEF Core, Types, Places, Heard, SlotsLive, NoCallForgotten,
         NothingRetained, ProcessEvent, operations, connection, InFlight,
         Settled, Allowed
<1>4. ASSUME ProcessLate
      PROVE  Core'
  BY <1>4
     DEF Core, Types, Places, Heard, SlotsLive, NoCallForgotten,
         NothingRetained, ProcessLate, operations, connection, InFlight,
         Settled, Allowed
<1>5. ASSUME Commit
      PROVE  Core'
  <2>1. Types' /\ Places'
    BY <1>5 DEF Core, Types, Places, Commit, connection
  <2>2. Heard' /\ SlotsLive' /\ NoCallForgotten' /\ NothingRetained'
    BY <1>5
       DEF Heard, SlotsLive, NoCallForgotten, NothingRetained, Commit, InFlight
  <2> QED BY <2>1, <2>2 DEF Core
<1>6. ASSUME NextTurn
      PROVE  Core'
  BY <1>6
     DEF Core, Types, Places, Heard, SlotsLive, NoCallForgotten,
         NothingRetained, NextTurn, Idle, operations, connection, InFlight,
         Settled, Allowed
<1>7. ASSUME NEW b \in Blocks, SourceCallback(b)
      PROVE  Core'
  BY <1>7
     DEF Core, Types, Places, Heard, SlotsLive, NoCallForgotten,
         NothingRetained, SourceCallback, operations, connection, InFlight,
         Settled, Allowed
<1> QED BY <1>1, <1>2, <1>3, <1>4, <1>5, <1>6, <1>7 DEF LoopStep

(* Every step of the system does.                                           *)
LEMMA NextKeeps == Core /\ [Next]_vars => Core'
<1> SUFFICES ASSUME Core, [Next]_vars
             PROVE  Core'
  OBVIOUS
<1>1. CASE Disconnect
  BY DbusConstants, <1>1
     DEF Core, Types, Places, Heard, SlotsLive, NoCallForgotten,
         NothingRetained, Disconnect, Trouble, operations, InFlight, Settled,
         Allowed
<1>2. CASE UNCHANGED vars
  BY <1>2
     DEF Core, Types, Places, Heard, SlotsLive, NoCallForgotten,
         NothingRetained, vars, operations, connection, InFlight, Settled,
         Allowed
<1> QED BY <1>1, <1>2, LuaKeeps, ReconcileKeeps, ProcessKeeps, LoopKeeps
        DEF Next

-----------------------------------------------------------------------------
(* The limit on operations.                                                 *)

(* Finitely many operations fit in memory.                                  *)
LEMMA FewOps ==
  ASSUME NEW X \in SUBSET Ops, NEW Y \in SUBSET X
  PROVE  /\ IsFiniteSet(X) /\ Cardinality(X) \in Nat
         /\ IsFiniteSet(Y) /\ Cardinality(Y) \in Nat
         /\ Cardinality(Y) <= Cardinality(X)
<1>1. IsFiniteSet(X)
  BY DbusConstants, FS_Subset
<1>2. IsFiniteSet(Y) /\ Cardinality(Y) <= Cardinality(X)
  BY <1>1, FS_Subset
<1> QED BY <1>1, <1>2, FS_CardinalityType

Limited == Cardinality(linked) <= MaxOps

(* No step exceeds it: only Lua and a commit add operations, and look.      *)
LEMMA LimitKept == Types /\ Limited /\ [Next]_vars => Limited'
<1> SUFFICES ASSUME Types, Limited, [Next]_vars
             PROVE  Limited'
  OBVIOUS
<1>1. linked \in SUBSET Ops
  BY DEF Types
<1>2. ASSUME linked' \in SUBSET linked
      PROVE  Limited'
  <2>1. Cardinality(linked') <= Cardinality(linked)
        /\ Cardinality(linked') \in Nat /\ Cardinality(linked) \in Nat
    BY <1>1, <1>2, FewOps
  <2> QED BY <2>1, DbusConstants DEF Limited
<1>3. ASSUME NEW x \in Ops, CreateOp(x)
      PROVE  Limited'
  <2>1. /\ x \notin linked /\ linked' = linked \cup {x}
        /\ Cardinality(linked) < MaxOps
    BY <1>3 DEF CreateOp
  <2>2. IsFiniteSet(linked) /\ Cardinality(linked) \in Nat
    BY <1>1, FewOps
  <2>3. Cardinality(linked') = Cardinality(linked) + 1
    BY <2>1, <2>2, FS_AddElement
  <2> QED BY <2>1, <2>2, <2>3, DbusConstants DEF Limited
<1>4. CASE Commit
  BY <1>4 DEF Commit, Limited
<1>5. ASSUME NEW x \in Ops, CancelOp(x)
      PROVE  Limited'
  BY <1>2, <1>5 DEF CancelOp
<1>6. CASE Return \/ Fail
  BY <1>2, <1>6 DEF Return, Fail, operations
<1>7. CASE ReconcileStep
  BY <1>2, <1>7 DEF ReconcileStep, CloseUnneeded, RetryLater, OpenFails,
     Activate, VisitMatch, MatchesDone, VisitCall, CallsDone, VisitWatch,
     WatchesDone, Registered, RegisterFails, Lose, LostCall, LostDone, Reap,
     operations
<1>8. CASE ProcessStep \/ Disconnect \/ UNCHANGED vars
  BY <1>2, <1>8 DEF ProcessStep, Hello, ProcessFails, Lose, ProcessDone,
     AnswerCall, InstallReply, Signal, Disconnect, vars, operations
<1>9. CASE LoopStep /\ ~ Commit
  BY <1>2, <1>9 DEF LoopStep, Wake, RetryDue, ProcessEvent, ProcessLate,
     NextTurn, SourceCallback, operations
<1> QED BY <1>3, <1>4, <1>5, <1>6, <1>7, <1>8, <1>9 DEF Next, LuaStep

-----------------------------------------------------------------------------
(* The theorems.                                                            *)

(* Core and the limit are an inductive invariant.                           *)
THEOREM DbusInductive == Spec => [](Core /\ Limited)
<1>1. Init => Core /\ Limited
  BY DbusConstants DEF Init, Core, Types, Places, Heard, SlotsLive,
     NoCallForgotten, NothingRetained, InFlight, Settled, Limited
<1>2. Core /\ Limited /\ [Next]_vars => Core' /\ Limited'
  BY NextKeeps, LimitKept DEF Core
<1> QED BY <1>1, <1>2, PTL DEF Spec

(* Types, and no more operations than I3SD_DBUS_OPERATION_LIMIT.            *)
THEOREM DbusTyped == Spec => []TypeOK
<1>1. Core /\ Limited => TypeOK
  BY DEF Core, Types, Limited, TypeOK
<1> QED BY <1>1, DbusInductive, PTL

(* sd-bus never holds a callback of an operation that was freed, settled or *)
(* started on another connection.                                           *)
THEOREM SlotsStayLive == Spec => []SlotsLive
<1>1. Core => SlotsLive
  BY DEF Core
<1> QED BY <1>1, DbusInductive, PTL

(* No call that was sent waits for an answer that cannot come.              *)
THEOREM CallsRemembered == Spec => []NoCallForgotten
<1>1. Core => NoCallForgotten
  BY DEF Core
<1> QED BY <1>1, DbusInductive, PTL

(* While the loop waits, settled calls take up no memory.                   *)
THEOREM CallsReaped == Spec => []NothingRetained
<1>1. Core => NothingRetained
  BY DEF Core
<1> QED BY <1>1, DbusInductive, PTL

(* No call is answered twice, or after it was cancelled, or in a faulted    *)
(* block.                                                                   *)
THEOREM CallsAnsweredProperly == Spec => AnsweredProperly
<1> DEFINE A == \A c \in Calls : heard'[c] > heard[c] =>
                  heard[c] = 0 /\ c \in linked \ cancelled
                  /\ Owner[c] \notin faulted
<1>1. Core /\ [Next]_vars => [A]_vars
  <2> SUFFICES ASSUME Core, Next
               PROVE  A
    OBVIOUS
  <2>1. \A c \in Calls : heard[c] \in 0..2
    BY DEF Core, Types
  <2>2. ASSUME \A c \in Calls : heard'[c] \in {0, heard[c]}
        PROVE  A
    BY <2>1, <2>2
  <2>3. ASSUME NEW c \in Calls, Answer(c), c \in sent \ Settled, Allowed(c)
        PROVE  A
    BY <2>1, <2>3 DEF Core, Types, Heard, Answer, Settled, Allowed
  <2>4. CASE LuaStep
    BY <2>1, <2>2, <2>4
       DEF LuaStep, CreateOp, CancelOp, Return, Fail, operations
  <2>5. CASE ReconcileStep
    <3>1. ASSUME UNCHANGED heard \/ Reap(slot) \/ Reap(slot')
          PROVE  A
      BY <2>1, <2>2, <3>1 DEF Reap
    <3>2. ASSUME NEW c \in Calls, VisitCall(c)
          PROVE  A
      <4>1. CASE UNCHANGED heard
        BY <3>1, <4>1
      <4>2. CASE Answer(c) /\ StartsCall(c) /\ Allowed(c) /\ c \in walk
        BY <2>1, <4>2
           DEF Core, Types, Heard, Answer, StartsCall, Settled, Allowed
      <4> QED BY <3>2, <4>1, <4>2 DEF VisitCall
    <3>3. ASSUME NEW c \in Calls, LostCall(c)
          PROVE  A
      BY <2>3, <3>1, <3>3 DEF LostCall, InFlight
    <3> QED BY <2>5, <3>1, <3>2, <3>3
               DEF ReconcileStep, CloseUnneeded, RetryLater, OpenFails,
                   Activate, VisitMatch, MatchesDone, CallsDone, VisitWatch,
                   WatchesDone, Registered, RegisterFails, Lose, LostDone,
                   operations
  <2>6. CASE ProcessStep
    <3>1. ASSUME NEW c \in Calls, AnswerCall(c), heard' # heard
          PROVE  A
      BY DbusConstants, <2>3, <3>1 DEF AnswerCall, Core, Types, SlotsLive
    <3> QED BY <2>2, <2>6, <3>1
               DEF ProcessStep, Hello, ProcessFails, Lose, ProcessDone,
                   InstallReply, Signal, operations
  <2>7. CASE LoopStep \/ Disconnect
    BY <2>2, <2>7
       DEF LoopStep, Wake, RetryDue, ProcessEvent, ProcessLate, Commit,
           NextTurn, SourceCallback, Disconnect, operations
  <2> QED BY <2>4, <2>5, <2>6, <2>7 DEF Next
<1> QED BY <1>1, DbusInductive, PTL DEF Spec, AnsweredProperly
=============================================================================
