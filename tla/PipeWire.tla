------------------------------ MODULE PipeWire ------------------------------
(***************************************************************************)
(* src/src/pipewire.c: the volume of the default audio sink.  The client   *)
(* learns the sinks from the registry and the default's name from the      *)
(* "default" metadata, in any order, binds the sink with that name and     *)
(* publishes the volume it reports.                                        *)
(*                                                                         *)
(* Events of the server wait in one queue in the order they were sent;     *)
(* requests are taken to reach the server at once, and its answer is       *)
(* queued behind what it sent before.  Volume and mute are one opaque      *)
(* value.  state_revision and delivered_revision are only compared for     *)
(* equality: `delivered` is the subscriptions that are up to date.         *)
(*                                                                         *)
(* The only user of the source, i3sd.modules.pipewire_volume, registers    *)
(* one subscription per block and keeps its handle, so none of its         *)
(* callbacks removes the subscription of another.                          *)
(***************************************************************************)
EXTENDS Integers, Sequences, SequencesExt, FiniteSets, Subscriptions

CONSTANTS
  Ids,         (* global ids of nodes, used again by the server             *)
  NoId,
  Names,       (* names of sinks                                            *)
  NoName,
  Volumes,
  Unavailable, (* what a callback is told without a valid state             *)
  MaxSinks,    (* I3SD_PIPEWIRE_SINK_LIMIT                                  *)
  MaxChanges,  (* bound on changes of the server                            *)
  MaxTroubles  (* bound on lost connections and failed openings             *)

PipeWireConstants ==
  /\ SubscriptionsConstants
  /\ NoId \notin Ids /\ NoName \notin Names /\ Unavailable \notin Volumes
  /\ Volumes # {}
  /\ {MaxSinks, MaxChanges, MaxTroubles} \subseteq Nat

VARIABLES
  source,      (* struct i3sd_pipewire_source and its queue of events       *)
  server,      (* the server and its session manager (external)             *)
  changes,     (* how often the server has changed                          *)
  troubles     (* how often something has failed                            *)

vars == <<source, server, changes, troubles, subscriptions>>

-----------------------------------------------------------------------------
(* The source.                                                              *)

(* i3sd_pipewire_create: subscriptions have seen revision 0, this is 1; the *)
(* volume means nothing yet.  A proxy that is bound to an object the server *)
(* has removed is not served.                                               *)
Created ==
  [open |-> FALSE, waiting |-> FALSE, sinks |-> {}, default |-> NoName,
   metadata |-> FALSE, metadata_served |-> FALSE,
   node |-> NoId, node_served |-> FALSE, in |-> <<>>,
   valid |-> FALSE, volume |-> Unavailable, delivered |-> {}]

Event(kind, id, value) == [kind |-> kind, id |-> id, value |-> value]

(* A destroyed proxy has no listener any more.                              *)
Without(queue, kind) == SelectSeq(queue, LAMBDA e : e.kind # kind)

DetachNode(c) ==
  [c EXCEPT !.node = NoId, !.node_served = FALSE, !.in = Without(@, "param")]

DetachMetadata(c) ==
  [c EXCEPT !.metadata = FALSE, !.metadata_served = FALSE,
            !.in = Without(@, "default")]

(* A new revision is one nobody was told.                                   *)
PublishUnavailable(c) ==
  IF c.valid THEN [c EXCEPT !.valid = FALSE, !.delivered = {}] ELSE c

PublishVolume(c, v) ==
  IF c.valid /\ c.volume = v THEN c
  ELSE [c EXCEPT !.valid = TRUE, !.volume = v, !.delivered = {}]

(* close_native keeps the state and its revision.                           *)
CloseNative(c) ==
  [Created EXCEPT !.waiting = c.waiting, !.valid = c.valid,
                  !.volume = c.volume, !.delivered = c.delivered]

(* schedule_reconnect.                                                      *)
GiveUp(c) == [CloseNative(PublishUnavailable(c)) EXCEPT !.waiting = TRUE]

(* The sink with the default's name, when both are known, is bound; the     *)
(* server answers with its volume if it still exists.                       *)
BindDefault(c) ==
  IF c.node # NoId \/ \A k \in c.sinks : k.name # c.default THEN c
  ELSE LET k == CHOOSE k \in c.sinks : k.name = c.default
           exists == server.nodes[k.id] # NoName
       IN [c EXCEPT
             !.node = k.id,
             !.node_served = exists,
             !.in = IF exists THEN Append(@, Event("param", k.id,
                                                   server.volume[k.id]))
                    ELSE @]

BindMetadata(c) ==
  [c EXCEPT
     !.metadata = TRUE,
     !.metadata_served = server.metadata,
     !.in = IF server.metadata /\ server.default # NoName
              THEN Append(@, Event("default", NoId, server.default)) ELSE @]

Needed == Active # {}

(* i3sd_pipewire_notify visits those that have not seen the revision.       *)
Notify == walk' = Active \ source'.delivered

(* Any server: no two sinks share an id or a name, the default's name need  *)
(* not be that of a sink.                                                   *)
Servers ==
  {s \in [nodes : [Ids -> Names \cup {NoName}], volume : [Ids -> Volumes],
          metadata : BOOLEAN, default : Names \cup {NoName}] :
     /\ \A i, j \in Ids : s.nodes[i] = s.nodes[j] => i = j \/ s.nodes[i] = NoName
     /\ s.default # NoName => s.metadata}

Init ==
  /\ source = Created
  /\ server \in Servers
  /\ changes = 0
  /\ troubles = 0
  /\ InitSubscriptions

-----------------------------------------------------------------------------
(* The server (external).                                                   *)

Trouble == troubles < MaxTroubles /\ troubles' = troubles + 1
Change == changes < MaxChanges /\ changes' = changes + 1

Ended == \E i \in DOMAIN source.in : source.in[i].kind = "broken"

(* What the server says to a client it still reaches.                       *)
Said(c, kind, id, value) ==
  IF c.open /\ ~Ended THEN [c EXCEPT !.in = Append(@, Event(kind, id, value))]
  ELSE c

AddSink(id, name) ==
  /\ Change
  /\ server.nodes[id] = NoName
  /\ \A other \in Ids : server.nodes[other] # name
  /\ \E v \in Volumes :
       server' = [server EXCEPT !.nodes[id] = name, !.volume[id] = v]
  /\ source' = Said(source, "sink", id, name)
  /\ UNCHANGED <<troubles, subscriptions>>

RemoveSink(id) ==
  /\ Change
  /\ server.nodes[id] # NoName
  /\ server' = [server EXCEPT !.nodes[id] = NoName]
  /\ source' = Said([source EXCEPT !.node_served = @ /\ source.node # id],
                    "remove", id, NoName)
  /\ UNCHANGED <<troubles, subscriptions>>

SetVolume(id) ==
  /\ Change
  /\ server.nodes[id] # NoName
  /\ \E v \in Volumes \ {server.volume[id]} :
       /\ server' = [server EXCEPT !.volume[id] = v]
       /\ source' = IF source.node_served /\ source.node = id
                      THEN Said(source, "param", id, v) ELSE source
  /\ UNCHANGED <<troubles, subscriptions>>

(* The session manager names another default sink, or none.                 *)
SetDefault(name) ==
  /\ Change
  /\ server.metadata
  /\ server.default # name
  /\ server' = [server EXCEPT !.default = name]
  /\ source' = IF source.metadata_served THEN Said(source, "default", NoId, name)
               ELSE source
  /\ UNCHANGED <<troubles, subscriptions>>

(* The session manager goes away, or is back.                               *)
RemoveMetadata ==
  /\ Change
  /\ server.metadata
  /\ server' = [server EXCEPT !.metadata = FALSE, !.default = NoName]
  /\ source' = Said([source EXCEPT !.metadata_served = FALSE],
                    "gone", NoId, NoName)
  /\ UNCHANGED <<troubles, subscriptions>>

AddMetadata ==
  /\ Change
  /\ ~server.metadata
  /\ server' = [server EXCEPT !.metadata = TRUE]
  /\ source' = Said(source, "metadata", NoId, NoName)
  /\ UNCHANGED <<troubles, subscriptions>>

Disconnect ==
  /\ source.open
  /\ ~Ended
  /\ Trouble
  /\ \E k \in 0..Len(source.in) :
       source' = [source EXCEPT !.metadata_served = FALSE,
                                !.node_served = FALSE,
                                !.in = Append(SubSeq(@, 1, k),
                                              Event("broken", NoId, NoName))]
  /\ UNCHANGED <<server, changes, subscriptions>>

-----------------------------------------------------------------------------
(* The event loop: i3sd_pipewire_process dispatches events, _reconcile runs *)
(* before every wait and after every process.                               *)

OnSink(c, e) ==
  IF Cardinality(c.sinks) = MaxSinks THEN c
  ELSE BindDefault([c EXCEPT !.sinks = @ \cup {[id |-> e.id, name |-> e.value]}])

OnMetadata(c, e) == IF c.metadata THEN c ELSE BindMetadata(c)

OnDefault(c, e) ==
  IF c.default = e.value THEN c
  ELSE BindDefault([PublishUnavailable(DetachNode(c)) EXCEPT
                      !.default = e.value])

OnParam(c, e) == PublishVolume(c, e.value)

(* registry_global_remove of a node.                                        *)
OnRemove(c, e) ==
  LET left == IF c.node = e.id THEN PublishUnavailable(DetachNode(c)) ELSE c
  IN [left EXCEPT !.sinks = {k \in @ : k.id # e.id}]

(* registry_global_remove of the metadata: the node stays bound.            *)
OnGone(c, e) ==
  IF c.metadata
    THEN PublishUnavailable([DetachMetadata(c) EXCEPT !.default = NoName])
    ELSE c

(* core_error, and the reconnect after the iteration.                       *)
OnBroken(c, e) == GiveUp(c)

Receive(kind, handler(_, _)) ==
  /\ walk = {}
  /\ source.in # <<>>
  /\ Head(source.in).kind = kind
  /\ source' = handler([source EXCEPT !.in = Tail(@)], Head(source.in))
  /\ Notify
  /\ UNCHANGED <<server, changes, troubles, live, cancelled, told>>

Process ==
  \/ Receive("sink", OnSink)
  \/ Receive("metadata", OnMetadata)
  \/ Receive("default", OnDefault)
  \/ Receive("param", OnParam)
  \/ Receive("remove", OnRemove)
  \/ Receive("gone", OnGone)
  \/ Receive("broken", OnBroken)

(* notify_subscription.                                                     *)
Snapshot == IF source.valid THEN source.volume ELSE Unavailable

Visit(s) ==
  /\ VisitWith(s, s \notin source.delivered, Snapshot, Faults(s))
  /\ source' = [source EXCEPT !.delivered = @ \cup ({s} \cap Active)]
  /\ UNCHANGED <<server, changes, troubles>>

CloseUnneeded ==
  /\ walk = {}
  /\ ~Needed
  /\ source.open \/ source.waiting
  /\ source' = [CloseNative(source) EXCEPT !.waiting = FALSE]
  /\ UNCHANGED <<server, changes, troubles, subscriptions>>

(* The registry lists what there is, in any order.                          *)
Globals ==
  {Event("sink", i, server.nodes[i]) :
     i \in {i \in Ids : server.nodes[i] # NoName}}
    \cup (IF server.metadata THEN {Event("metadata", NoId, NoName)} ELSE {})

MayOpen ==
  /\ walk = {}
  /\ Needed
  /\ ~source.open
  /\ ~source.waiting

OpenNative ==
  /\ MayOpen
  /\ \E listed \in SetToSeqs(Globals) :
       source' = [source EXCEPT !.open = TRUE, !.in = listed]
  /\ Notify
  /\ UNCHANGED <<server, changes, troubles, live, cancelled, told>>

(* Only a failure after the loop was created publishes anything.            *)
OpenFails ==
  /\ MayOpen
  /\ Trouble
  /\ source' \in {[source EXCEPT !.waiting = TRUE], GiveUp(source)}
  /\ Notify
  /\ UNCHANGED <<server, changes, live, cancelled, told>>

RetryDue ==
  /\ source.waiting
  /\ source' = [source EXCEPT !.waiting = FALSE]
  /\ UNCHANGED <<server, changes, troubles, subscriptions>>

Cancel ==
  /\ \E s \in Subs : CancelWith(s, Faults(s))
  /\ UNCHANGED <<source, server, changes, troubles>>

(* New subscriptions have seen no revision.                                 *)
Commit ==
  /\ \E new \in SUBSET Subs : CommitWith(new)
  /\ source' = [source EXCEPT !.delivered = {}]
  /\ UNCHANGED <<server, changes, troubles>>

Reconcile == CloseUnneeded \/ OpenNative \/ OpenFails

Next ==
  \/ \E id \in Ids :
       \/ \E name \in Names : AddSink(id, name)
       \/ RemoveSink(id)
       \/ SetVolume(id)
  \/ \E name \in Names \cup {NoName} : SetDefault(name)
  \/ RemoveMetadata
  \/ AddMetadata
  \/ Disconnect
  \/ Process
  \/ Reconcile
  \/ RetryDue
  \/ \E s \in Subs : Visit(s)
  \/ Cancel
  \/ Commit

Spec == Init /\ [][Next]_vars

-----------------------------------------------------------------------------
(* Properties.                                                              *)

(* Types; a node is bound only over a connection, and no event is queued    *)
(* for a proxy that is gone.                                                *)
TypeOK ==
  /\ TypeOKSubscriptions
  /\ source.volume \in Volumes \cup {Unavailable}
  /\ source.valid => source.volume \in Volumes
  /\ source.node \in Ids \cup {NoId}
  /\ source.default \in Names \cup {NoName}
  /\ source.sinks \subseteq [id : Ids, name : Names]
  /\ ~source.open => source.node = NoId /\ source.in = <<>>
  /\ source.node = NoId =>
       \A i \in DOMAIN source.in : source.in[i].kind # "param"

Quiet == source.open /\ source.in = <<>> /\ walk = {}

DefaultSink == {i \in Ids : server.nodes[i] # NoName
                              /\ server.nodes[i] = server.default}

(* Once all events are handled, every active subscription has been told the *)
(* present volume of the present default sink, if there is one: in whatever *)
(* order sinks and the default's name come and go, ids are used again and   *)
(* connections break (pipewire.c:280-302, 327-333, 384-402).                *)
SinkFollowed ==
  Quiet => \A i \in DefaultSink, s \in Active : told[s] = server.volume[i]

(* Outside a notification nobody was told anything but the present state:   *)
(* a publication reaches everyone, new subscriptions of a reload too.       *)
VolumeTold ==
  walk = {} => \A s \in Active : told[s] = Snapshot
==============================================================================
