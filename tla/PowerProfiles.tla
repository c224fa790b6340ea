---------------------------- MODULE PowerProfiles ----------------------------
(***************************************************************************)
(* src/src/power_profiles.c: the active power profile and the list of      *)
(* profiles, two properties of one service that are queried separately,    *)
(* and ctx:_set_power_profile (src/src/main.c).                            *)
(*                                                                         *)
(* The connection is that of SystemdFailed: one peer's messages arrive in  *)
(* the order they were sent, and a connection works or fails.  A profile's *)
(* name is opaque; a list that cannot be parsed or is empty is an error.    *)
(***************************************************************************)
EXTENDS Integers, Sequences, Subscriptions

CONSTANTS
  Profiles,
  MaxChanges,  (* bound on changes of the service and on calls of Set       *)
  MaxTroubles  (* bound on errors, lost connections and failed openings     *)

PowerConstants ==
  /\ SubscriptionsConstants
  /\ Profiles # {}
  /\ {MaxChanges, MaxTroubles} \subseteq Nat

VARIABLES
  source,      (* struct power_profiles_source, with the queues of sd-bus   *)
  server,      (* the service and the bus daemon (external)                 *)
  changes,     (* changes of the service and calls of Set so far            *)
  troubles     (* how often something has failed                            *)

vars == <<source, server, changes, troubles, subscriptions>>

Properties == {"active", "profiles"}

-----------------------------------------------------------------------------
(* The source.  value, valid and inflight are indexed by property.          *)
(* `refused` is a history: the last answer about it was an error.           *)
None == [p \in Properties |-> FALSE]

Unconnected ==
  [open |-> FALSE, waiting |-> FALSE, valid |-> None, inflight |-> None,
   value |-> [p \in Properties |-> {}], refused |-> None,
   out |-> <<>>, in |-> <<>>]

Request(kind, value) == [kind |-> kind, value |-> value]
Message(kind, ok, value) == [kind |-> kind, ok |-> ok, value |-> value]

(* i3sd_power_profiles_close keeps the values, which are not valid then.    *)
Close(c) == [Unconnected EXCEPT !.value = c.value, !.waiting = c.waiting]

GiveUp(c) == [Close(c) EXCEPT !.waiting = TRUE]

Opened(c) == [c EXCEPT !.open = TRUE, !.waiting = FALSE,
                       !.out = <<Request("match", {})>>]

(* Faulty variant: one flag for both queries.                               *)
RequestSnapshotsTogether(c) ==
  IF \E p \in Properties : c.inflight[p] THEN c
  ELSE [c EXCEPT !.inflight = [p \in Properties |-> TRUE],
                 !.out = @ \o <<Request("active", {}), Request("profiles", {})>>]

(* Ask for each property that is not asked for already.                     *)
RequestSnapshots(c) ==
  LET ask(d, p) == IF d.inflight[p] THEN d
                   ELSE [d EXCEPT !.inflight[p] = TRUE,
                                  !.out = Append(@, Request(p, {}))]
  IN ask(ask(c, "active"), "profiles")

(* sd-bus answers every open call with an error when the connection breaks *)
(* after k more messages.                                                   *)
Broken(c, k) ==
  LET lost == SelectSeq(SubSeq(c.in, k + 1, Len(c.in)),
                        LAMBDA m : m.kind # "signal") \o c.out
  IN [c EXCEPT !.out = <<>>,
               !.in = SubSeq(@, 1, k)
                        \o [i \in DOMAIN lost |->
                              Message(lost[i].kind, FALSE, {})]
                        \o <<Message("end", FALSE, {})>>]

Needed == Active # {}

(* The service has some of the profiles, one of them active.                *)
Services == {v \in [active : {{p} : p \in Profiles},
                    profiles : (SUBSET Profiles) \ {{}}] :
               v.active \subseteq v.profiles}

Init ==
  /\ source = Unconnected
  /\ \E v \in Services : server = [matched |-> FALSE, value |-> v]
  /\ changes = 0
  /\ troubles = 0
  /\ InitSubscriptions

-----------------------------------------------------------------------------
(* The service and the connection to it (external).                         *)

Trouble == troubles < MaxTroubles /\ troubles' = troubles + 1
Change == changes < MaxChanges /\ changes' = changes + 1

Signal(c) == IF server.matched
               THEN [c EXCEPT !.in = Append(@, Message("signal", TRUE, {}))]
               ELSE c

Ended == \E i \in DOMAIN source.in : source.in[i].kind = "end"

(* The user or the hardware changes the active profile or the list.         *)
ServiceChanges ==
  /\ Change
  /\ \E v \in Services \ {server.value} : server' = [server EXCEPT !.value = v]
  /\ source' = Signal(source)
  /\ UNCHANGED <<troubles, subscriptions>>

(* The first request is answered; a Set that changes something is          *)
(* signalled before its answer.                                             *)
Serve ==
  LET request == Head(source.out)
      taken == [source EXCEPT !.out = Tail(@)]
      answer(c, ok, value) ==
        source' = [c EXCEPT !.in = Append(@, Message(request.kind, ok, value))]
  IN /\ source.out # <<>>
     /\ ~Ended
     /\ \/ /\ request.kind = "match"
           /\ server' = [server EXCEPT !.matched = TRUE]
           /\ answer(taken, TRUE, {})
           /\ UNCHANGED troubles
        \/ /\ request.kind \in Properties
           /\ answer(taken, TRUE, server.value[request.kind])
           /\ UNCHANGED <<server, troubles>>
        \/ /\ request.kind = "set"
           /\ request.value \subseteq server.value.profiles
           /\ server' = [server EXCEPT !.value.active = request.value]
           /\ answer(IF request.value = server.value.active THEN taken
                     ELSE Signal(taken), TRUE, {})
           /\ UNCHANGED troubles
        \/ /\ request.kind = "set"
           /\ ~(request.value \subseteq server.value.profiles)
           /\ answer(taken, FALSE, {})
           /\ UNCHANGED <<server, troubles>>
        \/ /\ Trouble
           /\ answer(taken, FALSE, {})
           /\ UNCHANGED server
     /\ UNCHANGED <<changes, subscriptions>>

Disconnect ==
  /\ source.open
  /\ ~Ended
  /\ Trouble
  /\ \E k \in 0..Len(source.in) : source' = Broken(source, k)
  /\ server' = [server EXCEPT !.matched = FALSE]
  /\ UNCHANGED <<changes, subscriptions>>

-----------------------------------------------------------------------------
(* The event loop: i3sd_power_profiles_process and _reconcile.              *)

Receive(kind) ==
  /\ walk = {}
  /\ source.in # <<>>
  /\ Head(source.in).kind = kind

Rest == [source EXCEPT !.in = Tail(@)]

MatchInstalled ==
  /\ Receive("match")
  /\ source' = IF Head(source.in).ok THEN RequestSnapshots(Rest)
               ELSE [Rest EXCEPT !.refused = [p \in Properties |-> TRUE]]
  /\ UNCHANGED <<server, changes, troubles, subscriptions>>

PropertiesChanged ==
  /\ Receive("signal")
  /\ source' = RequestSnapshots(Rest)
  /\ UNCHANGED <<server, changes, troubles, subscriptions>>

(* active_reply and list_reply: an error makes the property invalid; news   *)
(* starts a notification if the other property is valid too.                *)
Answered(p, m) ==
  IF m.ok
    THEN [Rest EXCEPT !.inflight[p] = FALSE, !.refused[p] = FALSE,
                      !.valid[p] = TRUE, !.value[p] = m.value]
    ELSE [Rest EXCEPT !.inflight[p] = FALSE, !.refused[p] = TRUE,
                      !.valid[p] = FALSE]

Changed(p, m) == m.ok /\ (~source.valid[p] \/ source.value[p] # m.value)

AllValid(c) == \A p \in Properties : c.valid[p]

PropertyReply(p) ==
  /\ Receive(p)
  /\ source' = Answered(p, Head(source.in))
  /\ walk' = IF Changed(p, Head(source.in)) /\ AllValid(source') THEN live
             ELSE {}
  /\ UNCHANGED <<server, changes, troubles, live, cancelled, told>>

(* set_reply only logs.                                                     *)
SetReply ==
  /\ Receive("set")
  /\ source' = Rest
  /\ UNCHANGED <<server, changes, troubles, subscriptions>>

Lost ==
  /\ Receive("end")
  /\ source' = GiveUp(source)
  /\ UNCHANGED <<server, changes, troubles, subscriptions>>

(* i3sd_power_profiles_notify.                                              *)
Visit(s) ==
  /\ VisitWith(s, AllValid(source), source.value,
               Effects(s))
  /\ UNCHANGED <<source, server, changes, troubles>>

CloseUnneeded ==
  /\ walk = {}
  /\ ~Needed
  /\ source.open
  /\ source' = Close(source)
  /\ server' = [server EXCEPT !.matched = FALSE]
  /\ UNCHANGED <<changes, troubles, subscriptions>>

OpenSource ==
  /\ walk = {}
  /\ Needed
  /\ ~source.open
  /\ ~source.waiting
  /\ \/ /\ source' = Opened(source)
        /\ UNCHANGED troubles
     \/ /\ source' = GiveUp(source)
        /\ Trouble
  /\ UNCHANGED <<server, changes, subscriptions>>

RegisterFails ==
  /\ walk = {}
  /\ Needed
  /\ source.open
  /\ Trouble
  /\ source' = GiveUp(source)
  /\ server' = [server EXCEPT !.matched = FALSE]
  /\ UNCHANGED <<changes, subscriptions>>

RetryDue ==
  /\ source.waiting
  /\ source' = [source EXCEPT !.waiting = FALSE]
  /\ UNCHANGED <<server, changes, troubles, subscriptions>>

(* ctx:_set_power_profile of a block that runs, perhaps in the callback of  *)
(* a notification, with a profile the last valid list names.                *)
Known(profile) == profile \in source.value.profiles

SetProfile(profile) ==
  /\ Change
  /\ source.valid.profiles
  /\ Known(profile)
  /\ source.open
  /\ source' = [source EXCEPT !.out = Append(@, Request("set", {profile}))]
  /\ UNCHANGED <<server, troubles, subscriptions>>

Cancel ==
  /\ \E s \in Subs : CancelWith(s, Effects(s))
  /\ UNCHANGED <<source, server, changes, troubles>>

(* The notification at the end of a commit visits nobody unless both        *)
(* properties are valid, which Visit sees to.                               *)
Commit ==
  /\ \E new \in SUBSET Subs : CommitWith(new)
  /\ UNCHANGED <<source, server, changes, troubles>>

Process ==
  \/ MatchInstalled
  \/ PropertiesChanged
  \/ \E p \in Properties : PropertyReply(p)
  \/ SetReply
  \/ Lost

Reconcile == CloseUnneeded \/ OpenSource \/ RegisterFails

Next ==
  \/ Serve
  \/ ServiceChanges
  \/ Disconnect
  \/ Process
  \/ Reconcile
  \/ RetryDue
  \/ \E profile \in Profiles : SetProfile(profile)
  \/ \E s \in Subs : Visit(s)
  \/ Cancel
  \/ Commit

Spec == Init /\ [][Next]_vars

-----------------------------------------------------------------------------
(* Properties.                                                              *)

(* Types, and the queues hold exactly the query each inflight flag says.    *)
TypeOK ==
  /\ TypeOKSubscriptions
  /\ source.value.active \in SUBSET Profiles
  /\ source.value.profiles \in SUBSET Profiles
  /\ \A p \in Properties :
       Len(SelectSeq(source.out, LAMBDA r : r.kind = p))
         + Len(SelectSeq(source.in, LAMBDA m : m.kind = p))
           = (IF source.inflight[p] THEN 1 ELSE 0)
  /\ ~source.open => source.in = <<>> /\ source.out = <<>>

(* Once nothing is in flight and no query was refused, both properties are  *)
(* valid and are the service's, although a signal asks only for the one     *)
(* that is not being asked for already (power_profiles.c:161).              *)
Settled == source.open /\ source.in = <<>> /\ source.out = <<>>

ProfilesCurrent ==
  Settled /\ (\A p \in Properties : ~source.refused[p]) =>
    AllValid(source) /\ source.value = server.value

(* Outside a notification, and while both properties are valid, every       *)
(* active subscription was told exactly the present pair: an answer that    *)
(* arrives while the other property is invalid is not forgotten when that   *)
(* becomes valid (power_profiles.c:27, main.c:2682).                        *)
ProfilesTold ==
  walk = {} /\ AllValid(source) =>
    \A s \in Active : told[s] = source.value
==============================================================================
