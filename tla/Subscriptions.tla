---------------------------- MODULE Subscriptions ----------------------------
(***************************************************************************)
(* What the sources of src/src/systemd.c, power_profiles.c and pipewire.c  *)
(* have in common: the subscriptions that the blocks of the running        *)
(* generation registered in their init functions, the walk over them that  *)
(* calls them back, and what becomes of them when a callback cancels one,  *)
(* a block is faulted or a reload replaces the generation.                 *)
(*                                                                         *)
(* A source hands out a snapshot: `told` is the last one each callback was *)
(* given.  A walk runs inside one handler of the event loop, so the source *)
(* modules let nothing of the program but Visit happen while it lasts.     *)
(***************************************************************************)
CONSTANTS
  Subs,      (* memory for subscriptions, used again by every generation    *)
  Blocks,
  Owner,     (* the block that registers a subscription                     *)
  NotTold    (* no callback yet                                             *)

SubscriptionsConstants == Owner \in [Subs -> Blocks]

VARIABLES
  live,      (* subscriptions of app.current                                *)
  cancelled, (* those that are cancelled or whose block is faulted          *)
  walk,      (* those the running notification still has to visit           *)
  told       (* the snapshot each one was last called with                  *)

subscriptions == <<live, cancelled, walk, told>>

(* A subscription that counts for i3sd_systemd_bus_needed and its likes.    *)
Active == live \ cancelled

(* i3sd_fault_block cancels all that its block registered.                  *)
OfBlock(s) == {q \in live : Owner[q] = Owner[s]}

(* What a callback of the block of s may do to subscriptions: nothing, or   *)
(* fail, which faults the block; or also cancel any by its handle.          *)
Faults(s) == {{}, OfBlock(s)}
Effects(s) == Faults(s) \cup {{q} : q \in live}

InitSubscriptions ==
  /\ live = {}
  /\ cancelled = {}
  /\ walk = {}
  /\ told = [s \in Subs |-> NotTold]

(* The walk reaches s: its callback is called with the snapshot unless it  *)
(* was cancelled meanwhile or has nothing to hear.                          *)
VisitWith(s, hears, snapshot, effects) ==
  /\ s \in walk
  /\ walk' = walk \ {s}
  /\ IF s \in Active /\ hears
       THEN /\ told' = [told EXCEPT ![s] = snapshot]
            /\ \E gone \in effects : cancelled' = cancelled \cup gone
       ELSE UNCHANGED <<told, cancelled>>
  /\ UNCHANGED live

(* Some other callback of the program cancels or faults.                    *)
CancelWith(s, effects) ==
  /\ walk = {}
  /\ s \in Active
  /\ \E gone \in effects \ {{}} : cancelled' = cancelled \cup gone
  /\ UNCHANGED <<live, walk, told>>

(* A reload commits a generation whose blocks registered `new`; the live   *)
(* refresh may have faulted some of them before everyone is notified.       *)
CommitWith(new) ==
  /\ walk = {}
  /\ live' = new
  /\ cancelled' \in {{s \in new : Owner[s] \in F} : F \in SUBSET Blocks}
  /\ told' = [s \in Subs |-> NotTold]
  /\ walk' = new

TypeOKSubscriptions ==
  /\ live \subseteq Subs
  /\ cancelled \subseteq live
  /\ walk \subseteq live
==============================================================================
