---------------------------- MODULE PowerSupply ----------------------------
(***************************************************************************)
(* src/src/power_supply_events.c: kernel uevents tell the subscribed blocks *)
(* that some power supply changed; they read its state for themselves.     *)
(*                                                                         *)
(* The netlink socket is a queue of datagrams that loses what does not fit, *)
(* which its reader is told by an error ahead of the rest.  A subscription  *)
(* is owed a call (told[s] = NotTold) from a datagram's arrival until its   *)
(* next call or until the datagram is lost.                                 *)
(***************************************************************************)
EXTENDS Integers, Sequences, Subscriptions

CONSTANTS
  QueueMax,    (* datagrams the socket holds                                *)
  Budget,      (* I3SD_UEVENT_DISPATCH_BUDGET                               *)
  MaxTroubles  (* bound on failed openings                                  *)

PowerSupplyConstants ==
  /\ SubscriptionsConstants
  /\ {QueueMax, Budget} \subseteq Nat \ {0}
  /\ MaxTroubles \in Nat

VARIABLES
  source,      (* struct power_supply_source, its socket and the read loop  *)
  troubles     (* how often opening has failed                              *)

vars == <<source, troubles, subscriptions>>

Closed ==
  [open |-> FALSE, waiting |-> FALSE, queue |-> <<>>, overrun |-> FALSE,
   reading |-> FALSE, changed |-> FALSE, left |-> 0]

Known == [s \in Subs |-> TRUE]

Init ==
  /\ source = Closed
  /\ troubles = 0
  /\ InitSubscriptions

-----------------------------------------------------------------------------
(* The kernel (external): a uevent of a power supply or of something else.  *)

Uevent(ours) ==
  /\ source.open
  /\ IF Len(source.queue) < QueueMax
       THEN /\ source' = [source EXCEPT !.queue = Append(@, ours)]
            /\ told' = IF ours THEN [s \in Subs |-> NotTold] ELSE told
       ELSE /\ source' = [source EXCEPT !.overrun = TRUE]
            /\ UNCHANGED told
  /\ UNCHANGED <<troubles, live, cancelled, walk>>

-----------------------------------------------------------------------------
(* i3sd_power_supply_process.                                               *)

BeginProcess ==
  /\ source.open /\ ~source.reading /\ walk = {}
  /\ source.queue # <<>> \/ source.overrun
  /\ source' = [source EXCEPT !.reading = TRUE, !.left = Budget]
  /\ UNCHANGED <<troubles, subscriptions>>

(* Faulty variant: the last datagram decides.                               *)
ChangedLast(ours) == ours

(* A burst is one change.                                                   *)
Changed(ours) == source.changed \/ ours

Receive ==
  /\ source.reading /\ source.left > 0
  /\ ~source.overrun
  /\ source.queue # <<>>
  /\ source' = [source EXCEPT !.queue = Tail(@), !.left = @ - 1,
                              !.changed = Changed(Head(source.queue))]
  /\ UNCHANGED <<troubles, subscriptions>>

(* EINTR uses up some of the budget too.                                    *)
Interrupted ==
  /\ source.reading /\ source.left > 0
  /\ source' = [source EXCEPT !.left = @ - 1]
  /\ UNCHANGED <<troubles, subscriptions>>

Received ==
  /\ source.reading
  /\ source.left = 0 \/ (source.queue = <<>> /\ ~source.overrun)
  /\ source' = [source EXCEPT !.reading = FALSE, !.changed = FALSE, !.left = 0]
  /\ walk' = IF source.changed THEN live ELSE {}
  /\ UNCHANGED <<troubles, live, cancelled, told>>

(* Nobody is called, although `changed` may be set.                         *)
ReceiveFails ==
  /\ source.reading /\ source.left > 0
  /\ source.overrun
  /\ source' = [Closed EXCEPT !.waiting = TRUE]
  /\ told' = Known
  /\ UNCHANGED <<troubles, live, cancelled, walk>>

(* i3sd_power_supply_notify                                                 *)
Visit(s) ==
  /\ VisitWith(s, TRUE, TRUE, Effects(s))
  /\ UNCHANGED <<source, troubles>>

-----------------------------------------------------------------------------
(* i3sd_power_supply_reconcile, every turn and after every process.         *)

Idle == ~source.reading /\ walk = {}

NotNeeded ==
  /\ Idle
  /\ Active = {}
  /\ source' = Closed
  /\ told' = Known
  /\ UNCHANGED <<troubles, live, cancelled, walk>>

Open ==
  /\ Idle
  /\ Active # {}
  /\ ~source.open /\ ~source.waiting
  /\ \/ source' = [source EXCEPT !.open = TRUE] /\ UNCHANGED troubles
     \/ /\ troubles < MaxTroubles
        /\ troubles' = troubles + 1
        /\ source' = [source EXCEPT !.waiting = TRUE]
  /\ UNCHANGED subscriptions

(* The clock gets to retry_deadline_ns.                                     *)
RetryDue ==
  /\ source.waiting
  /\ source' = [source EXCEPT !.waiting = FALSE]
  /\ UNCHANGED <<troubles, subscriptions>>

(* Elsewhere a callback cancels or fails, or a reload replaces everyone, of *)
(* whom nobody is called: they have just been refreshed.                    *)
Cancel(s) ==
  /\ Idle
  /\ CancelWith(s, Effects(s))
  /\ UNCHANGED <<source, troubles>>

Commit(new) ==
  /\ Idle
  /\ live' = new
  /\ \E F \in SUBSET Blocks : cancelled' = {s \in new : Owner[s] \in F}
  /\ told' = Known
  /\ UNCHANGED <<source, troubles, walk>>

Next ==
  \/ \E ours \in BOOLEAN : Uevent(ours)
  \/ BeginProcess \/ Receive \/ Interrupted \/ Received \/ ReceiveFails
  \/ NotNeeded \/ Open \/ RetryDue
  \/ \E s \in Subs : Visit(s) \/ Cancel(s)
  \/ \E new \in SUBSET Subs : Commit(new)

Spec == Init /\ [][Next]_vars

-----------------------------------------------------------------------------
TypeOK ==
  /\ {source.open, source.waiting, source.overrun, source.reading,
      source.changed} \subseteq BOOLEAN
  /\ source.waiting => ~source.open
  /\ source.reading => source.open
  /\ source.queue \in Seq(BOOLEAN) /\ Len(source.queue) <= QueueMax
  /\ source.left \in 0..Budget
  /\ troubles \in 0..MaxTroubles
  /\ TypeOKSubscriptions
  /\ told \in [Subs -> {NotTold, TRUE}]

(* Once the socket is drained and the burst handled, nobody is owed a call: *)
(* a change is not lost in a burst cut by the budget or in a notification   *)
(* whose callbacks cancel and fail.                                         *)
HintsTold ==
  Idle /\ source.queue = <<>> => \A s \in Active : told[s] = TRUE
=============================================================================
