------------------------------- MODULE Sources ------------------------------
(* Where the contents of blocks come from, one of the ways chosen by the    *)
(* initial state, for they share nothing but the generation: the four       *)
(* sources with subscriptions, directory feeds, ctx:set; and the clicks     *)
(* that come back.                                                          *)
(*                                                                          *)
(* Values that may be interchanged are shared by all: the ids are           *)
(* PipeWire's, items', memory for generations and power profiles, the data  *)
(* are volumes and the contents of files.                                   *)
EXTENDS Integers

CONSTANTS
  Subs, Owner, Scope, Blocks, Buses, NotTold, MaxCount,
  Ids, NoId, Names, NoName, Data, Unavailable, MaxSinks, QueueMax, Budget,
  MaxChanges, MaxServerChanges, MaxTroubles,
  FileNames, Nothing, FeedBlocks, Wds, NoWd, MaxItems, MaxWatches, MaxEdits,
  States, Hidden, ListLimit, Cells,
  MaxBytes, MaxDepth, BarDepth, Unused

VARIABLES
  kind,
  source, server, changes, troubles, live, cancelled, walk, told,
  exists, files, writing, pathwd, kernel, queue, watches, config_watch,
  current, feed, pc, event, todo, self, back, anchored, listed, edits, skipped, blind,
  staging, faulted, items, list_mode, memory, render_dirty, set, given, shown,
  framer, got, bar, wanted

Systemd == INSTANCE SystemdFailed
Profiles == INSTANCE PowerProfiles WITH Profiles <- Ids
Supply == INSTANCE PowerSupply
Sink == INSTANCE PipeWire WITH
  Volumes <- Data, MaxChanges <- MaxServerChanges
Feed == INSTANCE DirectoryFeed WITH
  Names <- FileNames, Values <- Data, Gens <- Ids, NoGen <- NoId,
  Blocks <- FeedBlocks, MaxChanges <- MaxEdits, changes <- edits
Items == INSTANCE Items WITH
  Values <- States, MaxItems <- ListLimit
Clicks == INSTANCE Clicks

ASSUME SourcesAssumption ==
  /\ Systemd!SystemdConstants
  /\ Profiles!PowerConstants
  /\ Supply!PowerSupplyConstants
  /\ Sink!PipeWireConstants
  /\ Feed!DirectoryFeedConstants
  /\ Items!ItemsConstants
  /\ Clicks!ClicksConstants

services == <<server, changes>>
source_vars == <<source, services, troubles, live, cancelled, walk, told>>
feed_vars == <<exists, files, writing, pathwd, kernel, queue, watches,
               config_watch, current, feed, pc, event, todo, self, back,
               anchored, listed, edits, skipped, blind>>
item_vars == <<staging, faulted, items, list_mode, memory, render_dirty, set,
               given, shown>>
click_vars == <<framer, got, bar, wanted>>
vars == <<kind, source_vars, feed_vars, item_vars, click_vars>>

(* The variables of the other kinds hold nothing.                           *)
Unused4(w, x, y, z) == w = Unused /\ x = Unused /\ y = Unused /\ z = Unused
ServicesUnused == server = Unused /\ changes = Unused
SourcesUnused ==
  Unused4(source, troubles, live, cancelled) /\ walk = Unused /\ told = Unused
FeedUnused ==
  /\ Unused4(exists, files, writing, pathwd)
  /\ Unused4(kernel, queue, watches, config_watch)
  /\ Unused4(current, feed, pc, event)
  /\ Unused4(todo, self, back, anchored)
  /\ Unused4(listed, edits, skipped, blind)
ItemsUnused ==
  /\ Unused4(staging, faulted, items, list_mode)
  /\ Unused4(memory, render_dirty, set, given) /\ shown = Unused
ClicksUnused == Unused4(framer, got, bar, wanted)

Init ==
  /\ \/ kind = "systemd" /\ Systemd!Init
     \/ kind = "power_profiles" /\ Profiles!Init
     \/ kind = "pipewire" /\ Sink!Init
     \/ kind = "power_supply" /\ Supply!Init /\ ServicesUnused
     \/ kind \in {"directory", "items", "clicks"}
          /\ SourcesUnused /\ ServicesUnused
  /\ IF kind = "directory" THEN Feed!Init ELSE FeedUnused
  /\ IF kind = "items" THEN Items!Init ELSE ItemsUnused
  /\ IF kind = "clicks" THEN Clicks!Init ELSE ClicksUnused

SourceStep ==
  /\ \/ kind = "systemd" /\ Systemd!Next
     \/ kind = "power_profiles" /\ Profiles!Next
     \/ kind = "pipewire" /\ Sink!Next
     \/ kind = "power_supply" /\ Supply!Next /\ UNCHANGED services
  /\ UNCHANGED <<kind, feed_vars, item_vars, click_vars>>

FeedStep ==
  kind = "directory" /\ Feed!Next
    /\ UNCHANGED <<kind, source_vars, item_vars, click_vars>>

ItemStep ==
  kind = "items" /\ Items!Next
    /\ UNCHANGED <<kind, source_vars, feed_vars, click_vars>>

ClickStep ==
  kind = "clicks" /\ Clicks!Next
    /\ UNCHANGED <<kind, source_vars, feed_vars, item_vars>>

Next == SourceStep \/ FeedStep \/ ItemStep \/ ClickStep

Spec == Init /\ [][Next]_vars

(* The types of whichever is used.                                          *)
TypeOK ==
  /\ kind = "systemd" => Systemd!TypeOK
  /\ kind = "power_profiles" => Profiles!TypeOK
  /\ kind = "pipewire" => Sink!TypeOK
  /\ kind = "power_supply" => Supply!TypeOK
  /\ kind = "directory" => Feed!TypeOK
  /\ kind = "items" => Items!TypeOK
  /\ kind = "clicks" => Clicks!TypeOK

(* systemd.c, power_profiles.c, pipewire.c: a settled connection has the    *)
(* present count, the present profiles, the volume of the default sink;     *)
(* directory_feed.c: a settled feed shows the first files as they are.      *)
SourcesCurrent ==
  /\ kind = "systemd" => Systemd!CountsCurrent
  /\ kind = "power_profiles" => Profiles!ProfilesCurrent
  /\ kind = "pipewire" => Sink!SinkFollowed
  /\ kind = "directory" => Feed!ItemsFollowFiles

(* The same sources and power_supply_events.c: everybody who subscribed was *)
(* told what the source holds.                                              *)
SubscribersTold ==
  /\ kind = "systemd" => Systemd!SubscribersTold
  /\ kind = "power_profiles" => Profiles!ProfilesTold
  /\ kind = "pipewire" => Sink!VolumeTold
  /\ kind = "power_supply" => Supply!HintsTold

(* directory_feed.c: the watch table counts its holders.                    *)
WatchesShared == kind = "directory" => Feed!WatchesShared

(* main.c: ctx:set is all or nothing, and clicks find what it shows.        *)
SetAtomic == kind = "items" => Items!SetAtomic

(* click.c: every event within the limits is dispatched, nothing else is.   *)
ClicksFramed == kind = "clicks" => Clicks!ClicksFramed
==============================================================================
