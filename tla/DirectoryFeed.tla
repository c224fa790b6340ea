--------------------------- MODULE DirectoryFeed ---------------------------
(***************************************************************************)
(* Directory blocks: src/src/directory_feed.c, the item operations of      *)
(* src/src/main.c they use, and the table of shared inotify watches.  A    *)
(* feed shows the lexically first MaxItems files of a directory; producers *)
(* create, write, rename and remove files, and the directory itself, at    *)
(* any moment, also between two system calls of i3sd.                      *)
(*                                                                         *)
(* All feeds name the same path, which is also the configuration's         *)
(* directory, so that watches are shared; a generation has one feed per    *)
(* block.  A directory that was moved away does not come back, and every   *)
(* regular file can be read and rendered.  Marking the status dirty is     *)
(* SourceEvent of module Output.                                           *)
(***************************************************************************)
EXTENDS Integers, Sequences, FiniteSets, FiniteSetsExt

CONSTANTS
  Names,      (* file names, as numbers in lexical order                    *)
  Values,     (* what a file can hold                                       *)
  Nothing,    (* no such file, or no such item                              *)
  Gens,       (* memory for generations: the current and the next one       *)
  NoGen,      (* before the first commit                                    *)
  Blocks,     (* the blocks with a feed, in every generation                *)
  Wds,        (* watch descriptors: there always is one nothing remembers   *)
  NoWd,       (* -1                                                         *)
  MaxItems,   (* block->max_items                                           *)
  MaxWatches, (* I3SD_MAX_WATCHES                                           *)
  QueueMax,   (* events the kernel queues before it reports an overflow     *)
  MaxChanges  (* bound on what producers do                                 *)

DirectoryFeedConstants ==
  /\ Names \subseteq Nat
  /\ Nothing \notin Values
  /\ NoGen \notin Gens
  /\ IsFiniteSet(Gens \X Blocks)
  /\ NoWd \notin Wds
  /\ IsFiniteSet(Wds) => Cardinality(Wds) > MaxWatches + QueueMax + 2
  /\ MaxItems \in Nat \ {0}
  /\ MaxWatches \in Nat \ {0}
  /\ QueueMax \in Nat \ {0}
  /\ MaxChanges \in Nat

VARIABLES
  exists,       (* the path names a directory                               *)
  files,        (* its files                                                *)
  writing,      (* those a producer has open for writing                    *)
  pathwd,       (* the kernel's watch on it, or NoWd                        *)
  kernel,       (* the watches the kernel has                               *)
  queue,        (* inotify events not read yet                              *)
  watches,      (* app.watches: references by descriptor                    *)
  config_watch, (* app.config_watch                                         *)
  current,      (* app.current                                              *)
  feed,         (* struct directory_feed and its block's items              *)
  pc,           (* where handle_inotify or commit_generation is             *)
  event,        (* the event being handled                                  *)
  todo,         (* the feeds the event or the commit has not reached        *)
  self,         (* the feed being activated or scanned                      *)
  back,         (* where to go on after that                                *)
  anchored,     (* the path still names the directory that was opened       *)
  listed,       (* names the scan has still to refresh                      *)
  changes,      (* what producers have done so far, in steps                *)
  skipped,      (* history: feeds whose scan missed a file it had listed    *)
  blind         (* history: watches with a dropped event that nothing heals *)

disk == <<exists, files, writing, changes>>
inotify == <<kernel, pathwd, queue, watches>>
control == <<pc, event, todo, self, back, listed>>
history == <<skipped, blind>>
vars == <<disk, inotify, config_watch, current, feed, control, anchored,
          history>>

Feeds == Gens \X Blocks
NoFeed == <<NoGen, Nothing>>

Live == {f \in Feeds : f[1] = current}

-----------------------------------------------------------------------------
(* The kernel's event queue.                                               *)

Event(kind, wd, name) == [kind |-> kind, wd |-> wd, name |-> name]
Overflow == Event("overflow", NoWd, Nothing)
NoEvent == Event("none", NoWd, Nothing)

(* An event like the last one is merged with it; a full queue takes one    *)
(* overflow event and nothing else.                                        *)
Notified(q, e) ==
  IF q # <<>> /\ q[Len(q)] = e THEN q
  ELSE IF Len(q) < QueueMax THEN Append(q, e)
  ELSE IF \E i \in DOMAIN q : q[i] = Overflow THEN q
  ELSE Append(q, Overflow)

(* A dropped event is made up for by the scan after the overflow, unless it *)
(* tells of the end of the directory, or events queued before it are read  *)
(* after the overflow.                                                     *)
Unseen(q, e) ==
  LET last == Notified(q, e)[Len(Notified(q, e))]
  IN  last # e /\ (e.kind = "self" \/ last # Overflow)

BlindWith(e) == IF Unseen(queue, e) THEN blind \cup {pathwd} ELSE blind

(* What happens to a file is reported on the watch of its directory.       *)
Report(kind, name) ==
  LET e == Event(kind, pathwd, name)
  IN  IF pathwd = NoWd THEN UNCHANGED <<queue, blind>>
      ELSE queue' = Notified(queue, e) /\ blind' = BlindWith(e)

(* What happens to the directory ends its use, and with gone its watch.    *)
ReportSelf(gone) ==
  LET q1 == Notified(queue, Event("self", pathwd, Nothing))
      q2 == IF gone THEN Notified(q1, Event("ignored", pathwd, Nothing))
            ELSE q1
  IN  /\ queue' = IF pathwd = NoWd THEN queue ELSE q2
      /\ kernel' = IF gone THEN kernel \ {pathwd} ELSE kernel
      /\ blind' = IF pathwd = NoWd THEN blind
                  ELSE BlindWith(Event("self", pathwd, Nothing))
      /\ pathwd' = NoWd

-----------------------------------------------------------------------------
(* Producers.                                                              *)

NoFiles == [n \in Names |-> Nothing]

Change ==
  /\ changes < MaxChanges
  /\ changes' = changes + 1

rest == <<config_watch, current, feed, control, watches>>

(* Opening for writing is not reported, closing is.                        *)
BeginWrite(n, v) ==
  /\ Change
  /\ exists
  /\ n \notin writing
  /\ files' = [files EXCEPT ![n] = v]
  /\ writing' = writing \cup {n}
  /\ UNCHANGED <<exists, inotify, rest, anchored, history>>

FinishWrite(n) ==
  /\ Change
  /\ n \in writing
  /\ writing' = writing \ {n}
  /\ Report("changed", n)
  /\ UNCHANGED <<exists, files, kernel, pathwd, rest, anchored, skipped>>

RenameIn(n, v) ==
  /\ Change
  /\ exists
  /\ files' = [files EXCEPT ![n] = v]
  /\ writing' = writing \ {n}
  /\ Report("changed", n)
  /\ UNCHANGED <<exists, kernel, pathwd, rest, anchored, skipped>>

Delete(n) ==
  /\ Change
  /\ files[n] # Nothing
  /\ files' = [files EXCEPT ![n] = Nothing]
  /\ writing' = writing \ {n}
  /\ Report("removed", n)
  /\ UNCHANGED <<exists, kernel, pathwd, rest, anchored, skipped>>

LoseDirectory ==
  /\ Change
  /\ exists
  /\ exists' = FALSE
  /\ files' = NoFiles
  /\ writing' = {}
  /\ anchored' = FALSE

MoveAway ==
  /\ LoseDirectory
  /\ ReportSelf(FALSE)
  /\ UNCHANGED <<rest, skipped>>

RemoveDirectory ==
  /\ files = NoFiles
  /\ LoseDirectory
  /\ ReportSelf(TRUE)
  /\ UNCHANGED <<rest, skipped>>

MakeDirectory ==
  /\ Change
  /\ ~ exists
  /\ exists' = TRUE
  /\ UNCHANGED <<files, writing, inotify, rest, anchored, history>>

-----------------------------------------------------------------------------
(* The items of a block.                                                   *)

Shown(r) == {n \in Names : r.items[n] # Nothing}

(* i3sd_block_put_item, put_result.  A full block keeps the first names.   *)
Put(r, n, v) ==
  IF n \in Shown(r) \/ Cardinality(Shown(r)) < MaxItems
  THEN [r EXCEPT !.items[n] = v]
  ELSE IF n > Max(Shown(r)) THEN [r EXCEPT !.overflowed = TRUE]
  ELSE [r EXCEPT !.items[Max(Shown(r))] = Nothing, !.items[n] = v,
                 !.overflowed = TRUE]

(* i3sd_block_remove_item                                                  *)
Removed(r, n) == [r EXCEPT !.items[n] = Nothing]

(* i3sd_block_clear_items                                                  *)
Cleared(r) == [r EXCEPT !.items = NoFiles]

(* refresh_file: what the file holds now, if it still is there.            *)
Refreshed(r, n) ==
  IF files[n] = Nothing THEN Removed(r, n) ELSE Put(r, n, files[n])

-----------------------------------------------------------------------------
(* The watch table.  A registry k has the table and the kernel's side.     *)

registry == [watches |-> watches, kernel |-> kernel, queue |-> queue]

Become(k) ==
  /\ watches' = k.watches
  /\ kernel' = k.kernel
  /\ queue' = k.queue

Without(w, wd) == [d \in DOMAIN w \ {wd} |-> w[d]]

(* inotify_rm_watch                                                        *)
Unwatched(k, wd) ==
  IF wd \in k.kernel
  THEN [k EXCEPT !.kernel = @ \ {wd},
                 !.queue = Notified(@, Event("ignored", wd, Nothing))]
  ELSE k

(* i3sd_watch_release                                                      *)
Released(k, wd) ==
  IF wd \notin DOMAIN k.watches THEN k
  ELSE IF k.watches[wd] > 1 THEN [k EXCEPT !.watches[wd] = @ - 1]
  ELSE Unwatched([k EXCEPT !.watches = Without(@, wd)], wd)

(* Faulty variant: a directory that is watched already counts once.        *)
AcquiredOnce(k, wd) ==
  [watches |-> [d \in DOMAIN k.watches \cup {wd} |->
                  IF d \in DOMAIN k.watches THEN k.watches[d] ELSE 1],
   kernel |-> k.kernel \cup {wd},
   queue |-> k.queue]

(* i3sd_watch_acquire, once the kernel has given wd                        *)
Acquired(k, wd) ==
  [watches |-> [d \in DOMAIN k.watches \cup {wd} |->
                  IF d \notin DOMAIN k.watches THEN 1
                  ELSE IF d = wd THEN k.watches[d] + 1 ELSE k.watches[d]],
   kernel |-> k.kernel \cup {wd},
   queue |-> k.queue]

Full == Cardinality(DOMAIN watches) = MaxWatches

(* Descriptors are not used again as long as anything remembers them.      *)
Unknown ==
  Wds \ (kernel \cup DOMAIN watches \cup {config_watch, event.wd}
         \cup {feed[f].wd : f \in Feeds}
         \cup {queue[i].wd : i \in DOMAIN queue})

(* The kernel has one descriptor per directory.                            *)
PathWd == IF pathwd # NoWd THEN pathwd ELSE CHOOSE wd \in Unknown : TRUE

(* i3sd_directory_feed_close                                               *)
CloseWatch(f) ==
  LET k == Released(registry, feed[f].wd)
  IN  /\ Become(k)
      /\ pathwd' = IF pathwd \in k.kernel THEN pathwd ELSE NoWd

Closed(r) == [r EXCEPT !.wd = NoWd]

(* The feed of a block that is faulted.                                     *)
Cancelled(r) == [Cleared(Closed(r)) EXCEPT !.cancelled = TRUE]

-----------------------------------------------------------------------------
(* handle_inotify, i3sd_directory_feed_event.                              *)

ReadEvent ==
  /\ pc = "idle"
  /\ current # NoGen
  /\ queue # <<>>
  /\ event' = Head(queue)
  /\ queue' = Tail(queue)
  /\ watches' = IF event'.kind = "ignored" THEN Without(watches, event'.wd)
                ELSE watches
  /\ todo' = Live
  /\ pc' = "events"
  /\ back' = "events"
  /\ UNCHANGED <<disk, kernel, pathwd, config_watch, current, feed, self,
                 listed, anchored, history>>

(* An overflow concerns every feed with a watch.                           *)
Concerns(f) ==
  /\ ~ feed[f].cancelled
  /\ feed[f].wd # NoWd
  /\ event = Overflow \/ feed[f].wd = event.wd

Skip(f) ==
  /\ pc = "events"
  /\ f \in todo
  /\ ~ Concerns(f)
  /\ todo' = todo \ {f}
  /\ UNCHANGED <<disk, inotify, config_watch, current, feed, pc, event, self,
                 back, listed, anchored, history>>

Take(f, kinds) ==
  /\ pc = "events"
  /\ f \in todo
  /\ Concerns(f)
  /\ event.kind \in kinds
  /\ todo' = todo \ {f}
  /\ UNCHANGED <<disk, config_watch, current, event, back, listed, anchored,
                 history>>

FeedOverflow(f) ==
  /\ Take(f, {"overflow"})
  /\ pc' = "list"
  /\ self' = f
  /\ UNCHANGED <<inotify, feed>>

(* lose_directory: the kernel has dropped the watch, or it is given back.  *)
FeedLost(f) ==
  /\ Take(f, {"ignored", "self"})
  /\ IF event.kind = "self" THEN CloseWatch(f) ELSE UNCHANGED inotify
  /\ feed' = [feed EXCEPT ![f] = Cleared(Closed(@))]
  /\ pc' = "mkdir"
  /\ self' = f

(* Taking out item n makes room for a file that did not fit.               *)
Reveals(r, n) == n \in Shown(r) /\ r.overflowed

FeedFile(f) ==
  LET n == event.name
      gone == event.kind = "removed" \/ files[n] = Nothing
  IN  /\ Take(f, {"changed", "removed"})
      /\ feed' = [feed EXCEPT ![f] = IF gone THEN Removed(@, n)
                                     ELSE Refreshed(@, n)]
      /\ IF gone /\ Reveals(feed[f], n)
         THEN pc' = "list" /\ self' = f
         ELSE UNCHANGED <<pc, self>>
      /\ UNCHANGED inotify

EventDone ==
  /\ pc = "events"
  /\ todo = {}
  /\ pc' = "idle"
  /\ event' = NoEvent
  /\ UNCHANGED <<disk, inotify, config_watch, current, feed, todo, self, back,
                 listed, anchored, history>>

-----------------------------------------------------------------------------
(* i3sd_directory_feed_activate, one system call a step.                   *)

MakePath ==
  /\ pc = "mkdir"
  /\ exists' = TRUE
  /\ pc' = "open"
  /\ UNCHANGED <<files, writing, changes, inotify, config_watch, current,
                 feed, event, todo, self, back, listed, anchored, history>>

OpenPath ==
  /\ pc = "open"
  /\ exists
  /\ anchored' = TRUE
  /\ pc' = "watch"
  /\ UNCHANGED <<disk, inotify, config_watch, current, feed, event, todo, self,
                 back, listed, history>>

NoRoom == PathWd \notin DOMAIN watches /\ Full

WatchPath ==
  /\ pc = "watch"
  /\ exists
  /\ ~ NoRoom
  /\ Become(Acquired(registry, PathWd))
  /\ pathwd' = PathWd
  /\ feed' = [feed EXCEPT ![self].wd = PathWd]
  /\ blind' = IF pathwd = NoWd THEN blind \ {PathWd} ELSE blind
  /\ pc' = "check"
  /\ UNCHANGED <<disk, config_watch, current, event, todo, self, back, listed,
                 anchored, skipped>>

(* The directory that was checked is the one that is watched.              *)
SameDirectory == exists /\ anchored

CheckPath ==
  /\ pc = "check"
  /\ SameDirectory
  /\ anchored' = FALSE
  /\ pc' = "list"
  /\ UNCHANGED <<disk, inotify, config_watch, current, feed, event, todo, self,
                 back, listed, history>>

(* Every system call may fail; in a commit that faults the block.          *)
ActivateFails ==
  /\ \/ pc \in {"mkdir", "open"} /\ UNCHANGED inotify
     \/ pc = "watch" /\ ~ exists /\ UNCHANGED inotify
     \/ /\ pc = "watch"
        /\ exists
        /\ NoRoom
        /\ queue' = Notified(queue, Event("ignored", PathWd, Nothing))
        /\ UNCHANGED <<watches, kernel, pathwd>>
     \/ pc = "check" /\ ~ SameDirectory /\ CloseWatch(self)
  /\ feed' = [feed EXCEPT ![self] =
                IF back = "commit" THEN Cancelled(@) ELSE Closed(@)]
  /\ anchored' = FALSE
  /\ self' = NoFeed
  /\ pc' = back
  /\ UNCHANGED <<disk, config_watch, current, event, todo, back, listed,
                 history>>

-----------------------------------------------------------------------------
(* i3sd_directory_feed_rescan.                                             *)

Present == {n \in Names : files[n] # Nothing}

(* name_list_add                                                           *)
First(names) ==
  {n \in names : Cardinality({m \in names : m <= n}) <= MaxItems}

List ==
  /\ pc = "list"
  /\ exists
  /\ listed' = First(Present)
  /\ feed' = [feed EXCEPT
       ![self].overflowed = Cardinality(Present) > MaxItems,
       ![self].items =
         [n \in Names |-> IF n \in listed' THEN @[n] ELSE Nothing]]
  /\ skipped' = skipped \ {self}
  /\ pc' = "refresh"
  /\ UNCHANGED <<disk, inotify, config_watch, current, event, todo, self, back,
                 anchored, blind>>

ListFails ==
  /\ pc = "list"
  /\ ~ exists
  /\ self' = NoFeed
  /\ pc' = back
  /\ UNCHANGED <<disk, inotify, config_watch, current, feed, event, todo, back,
                 listed, anchored, history>>

(* A removal found here starts no other scan.                              *)
Refresh ==
  /\ pc = "refresh"
  /\ listed # {}
  /\ listed' = listed \ {Min(listed)}
  /\ feed' = [feed EXCEPT ![self] = Refreshed(@, Min(listed))]
  /\ skipped' = IF files[Min(listed)] = Nothing /\ feed[self].overflowed
                THEN skipped \cup {self} ELSE skipped
  /\ UNCHANGED <<disk, inotify, config_watch, current, pc, event, todo, self,
                 back, anchored, blind>>

RefreshDone ==
  /\ pc = "refresh"
  /\ listed = {}
  /\ self' = NoFeed
  /\ pc' = back
  /\ UNCHANGED <<disk, inotify, config_watch, current, feed, event, todo, back,
                 listed, anchored, history>>

-----------------------------------------------------------------------------
(* Reloads and faults.                                                     *)

NewFeed ==
  [wd |-> NoWd, items |-> NoFiles, overflowed |-> FALSE, cancelled |-> FALSE]

NotAFeed == [NewFeed EXCEPT !.cancelled = TRUE]

BeginCommit(g) ==
  /\ pc = "idle"
  /\ g # current
  /\ current' = g
  /\ feed' = [f \in Feeds |-> IF f[1] = g THEN NewFeed ELSE feed[f]]
  /\ todo' = {f \in Feeds : f[1] = g}
  /\ pc' = "commit"
  /\ back' = "commit"
  /\ UNCHANGED <<disk, inotify, config_watch, event, self, listed, anchored,
                 history>>

Activate(f) ==
  /\ pc = "commit"
  /\ f \in todo
  /\ todo' = todo \ {f}
  /\ self' = f
  /\ pc' = "mkdir"
  /\ UNCHANGED <<disk, inotify, config_watch, current, feed, event, back,
                 listed, anchored, history>>

(* generation_destroy of the old generation, a watch given back a step.     *)
BeginDestroy ==
  /\ pc = "commit"
  /\ todo = {}
  /\ todo' = Feeds \ Live
  /\ pc' = "destroy"
  /\ UNCHANGED <<disk, inotify, config_watch, current, feed, event, self, back,
                 listed, anchored, history>>

Destroy(f) ==
  /\ pc = "destroy"
  /\ f \in todo
  /\ todo' = todo \ {f}
  /\ CloseWatch(f)
  /\ feed' = [feed EXCEPT ![f] = NotAFeed]
  /\ skipped' = skipped \ {f}
  /\ UNCHANGED <<disk, config_watch, current, pc, event, self, back, listed,
                 anchored, blind>>

CommitDone ==
  /\ pc = "destroy"
  /\ todo = {}
  /\ pc' = "idle"
  /\ back' = "events"
  /\ UNCHANGED <<disk, inotify, config_watch, current, feed, event, todo, self,
                 listed, anchored, history>>

(* A callback of the block fails, in the live refresh or later.            *)
Fault(f) ==
  /\ pc = "idle" \/ (pc = "commit" /\ todo = {})
  /\ f \in Live
  /\ ~ feed[f].cancelled
  /\ CloseWatch(f)
  /\ feed' = [feed EXCEPT ![f] = Cancelled(@)]
  /\ UNCHANGED <<disk, config_watch, current, control, anchored, history>>

-----------------------------------------------------------------------------
(* initialize_runtime has acquired the watch on the configuration.         *)
Init ==
  /\ exists = TRUE
  /\ files \in [Names -> Values \cup {Nothing}]
  /\ writing = {}
  /\ pathwd = CHOOSE wd \in Wds : TRUE
  /\ kernel = {pathwd}
  /\ queue = <<>>
  /\ watches = [d \in {pathwd} |-> 1]
  /\ config_watch = pathwd
  /\ current = NoGen
  /\ feed = [f \in Feeds |-> NotAFeed]
  /\ pc = "idle"
  /\ event = NoEvent
  /\ todo = {}
  /\ self = NoFeed
  /\ back = "events"
  /\ anchored = FALSE
  /\ listed = {}
  /\ skipped = {}
  /\ blind = {}
  /\ changes = 0

Producers ==
  \/ \E n \in Names : \/ \E v \in Values : BeginWrite(n, v) \/ RenameIn(n, v)
                      \/ FinishWrite(n)
                      \/ Delete(n)
  \/ MoveAway \/ RemoveDirectory \/ MakeDirectory

Loop ==
  \/ ReadEvent
  \/ \E f \in Feeds : \/ Skip(f) \/ FeedOverflow(f) \/ FeedLost(f)
                      \/ FeedFile(f)
  \/ EventDone
  \/ MakePath \/ OpenPath \/ WatchPath \/ CheckPath \/ ActivateFails
  \/ List \/ ListFails \/ Refresh \/ RefreshDone
  \/ \E g \in Gens : BeginCommit(g)
  \/ \E f \in Feeds : Activate(f) \/ Fault(f) \/ Destroy(f)
  \/ BeginDestroy \/ CommitDone

Next == Producers \/ Loop

Spec == Init /\ [][Next]_vars

-----------------------------------------------------------------------------
(* Properties.                                                             *)

Kinds == {"none", "overflow", "changed", "removed", "self", "ignored"}

TypeOK ==
  /\ exists \in BOOLEAN
  /\ files \in [Names -> Values \cup {Nothing}]
  /\ writing \subseteq Names
  /\ kernel \subseteq Wds
  /\ pathwd \in kernel \cup {NoWd}
  /\ Len(queue) <= QueueMax + 1
  /\ \A i \in DOMAIN queue : queue[i].kind \in Kinds
  /\ DOMAIN watches \subseteq Wds
  /\ Cardinality(DOMAIN watches) <= MaxWatches
  /\ current \in Gens \cup {NoGen}
  /\ \A f \in Feeds :
       /\ feed[f].wd \in Wds \cup {NoWd}
       /\ feed[f].items \in [Names -> Values \cup {Nothing}]
       /\ Cardinality(Shown(feed[f])) <= MaxItems
       /\ feed[f].overflowed \in BOOLEAN
       /\ feed[f].cancelled \in BOOLEAN
  /\ pc \in {"idle", "events", "mkdir", "open", "watch", "check", "list",
             "refresh", "commit", "destroy"}
  /\ todo \subseteq Feeds
  /\ self \in Feeds \cup {NoFeed}
  /\ back \in {"events", "commit"}
  /\ listed \subseteq Names
  /\ skipped \subseteq Feeds
  /\ blind \subseteq Wds
  /\ changes \in 0..MaxChanges

(* Who relies on a watch: the feeds that have its descriptor, and the      *)
(* configuration.                                                          *)
Holders(wd) ==
  Cardinality({f \in Feeds : feed[f].wd = wd})
  + (IF config_watch = wd THEN 1 ELSE 0)

(* The table counts exactly the holders of a watch, the kernel has no      *)
(* watch that nobody holds, and whoever holds one has it as long as the    *)
(* directory stays: nobody takes it away from another, across reloads too. *)
WatchesShared ==
  /\ \A wd \in DOMAIN watches : watches[wd] = Holders(wd)
  /\ kernel \subseteq DOMAIN watches
  /\ pc = "idle" => \A f \in Feeds : feed[f].wd # NoWd =>
       feed[f].wd \in DOMAIN watches
  /\ \A f \in Feeds : feed[f].cancelled => feed[f].wd = NoWd
                                           /\ Shown(feed[f]) = {}

Quiet == pc = "idle" /\ queue = <<>> /\ writing = {}

(* Once the producers are done and their events are handled, a feed with a *)
(* watch watches the directory its path names and shows exactly its first  *)
(* files, with what they hold; one that could not be activated again shows *)
(* nothing.  Two cases are left out: a scan that did not find a file it    *)
(* had listed while others did not fit, and a dropped event after which    *)
(* the scan for the overflow does not help.                                *)
FirstFiles(f) ==
  /\ feed[f].wd = pathwd
  /\ Shown(feed[f]) = First(Present)
  /\ \A n \in Shown(feed[f]) : feed[f].items[n] = files[n]

ItemsFollowFiles ==
  Quiet => \A f \in Live : ~ feed[f].cancelled =>
    IF feed[f].wd = NoWd THEN Shown(feed[f]) = {}
    ELSE f \notin skipped /\ feed[f].wd \notin blind => FirstFiles(f)

(* README.rst: the lexically first files are shown.                        *)
FirstFilesShown ==
  Quiet => \A f \in Live :
    ~ feed[f].cancelled /\ feed[f].wd \notin blind \cup {NoWd} => FirstFiles(f)
=============================================================================
