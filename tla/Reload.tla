------------------------------- MODULE Reload -------------------------------
(***************************************************************************)
(* How i3sd follows its configuration file: the bounded read of            *)
(* read_config, staging with its validation read, commit, the displayed    *)
(* configuration error and the inotify watch (src/src/main.c).  Editors    *)
(* write the file in place or rename another one over it while i3sd reads. *)
(*                                                                         *)
(* The contents of the file are two halves, each of the edit that wrote    *)
(* it, so that a read can see half of an edit.  Sizes and times matter as  *)
(* far as a change of them during a read is noticed: a write may leave     *)
(* them as they were.                                                      *)
(***************************************************************************)
EXTENDS Integers

CONSTANTS
  Inodes,     (* the inodes the configuration file can have                 *)
  NoInode,    (* no file, or none open                                      *)
  MaxEdits,   (* bound on the number of edits                               *)
  Static,     (* the blocks without an update function                      *)
  Dynamic     (* the blocks with one                                        *)

ASSUME ReloadAssumption ==
  /\ NoInode \notin Inodes
  /\ MaxEdits \in Nat
  /\ Static \cap Dynamic = {}

Edits == 0..MaxEdits
Blocks == Static \cup Dynamic

(* What a configuration amounts to: an error, or a setting of click_events *)
(* (what the command line makes of it is left out).                        *)
Kinds == {"broken", "clicks", "silent"}

(* No configuration is loaded: the empty generation main falls back to.    *)
Fallback == <<>>

VARIABLES
  path,       (* the inode the configuration path names, or NoInode         *)
  contents,   (* the two halves of each inode                               *)
  kind,       (* what the configuration of each edit amounts to             *)
  edits,      (* edits so far                                               *)
  writing,    (* an editor is half through writing the file in place        *)
  pc,         (* where i3sd is                                              *)
  started,    (* the event loop runs                                        *)
  pass,       (* the read is of stage_generation's "load" or "check"        *)
  reader,     (* the open file of read_config                               *)
  candidate,  (* source, inode and click_events of the staged generation    *)
  staged,     (* what the blocks of the candidate have set                  *)
  loaded,     (* the source of app.current                                  *)
  clicks,     (* app.settings.click_events                                  *)
  shown,      (* what the blocks of app.current have set                    *)
  error,      (* app.config_error_active                                    *)
  dirty,      (* app.reload_dirty                                           *)
  watching,   (* the inotify watch exists                                   *)
  queued,     (* a configuration event, or an overflow, is in the queue     *)
  missed,     (* history: an edit i3sd was not told of and has not noticed  *)
  seen        (* history: contents of the file since the check began        *)

disk == <<path, contents, kind, edits, writing>>
app == <<loaded, clicks, shown>>
flags == <<error, dirty>>
vars == <<disk, pc, started, pass, reader, candidate, staged, app, flags,
          watching, queued, missed, seen>>

NoFile == [inode |-> NoInode, first |-> 0, second |-> 0, changed |-> FALSE]
NoCandidate == [source |-> Fallback, inode |-> NoInode, clicks |-> TRUE]

-----------------------------------------------------------------------------
(* Editors.                                                                *)

(* inotify reports a writer that closes and a file renamed into place.     *)
Report ==
  /\ queued' = (queued \/ watching)
  /\ missed' = ~ watching

(* The open file's metadata may or may not tell of a write to it.          *)
Touch(i) ==
  \/ reader' = [reader EXCEPT !.changed = @ \/ reader.inode = i]
  \/ UNCHANGED reader

Recorded(c) == seen' = IF pass = "check" THEN seen \cup {c} ELSE seen

EditInPlace ==
  /\ ~ writing
  /\ path # NoInode
  /\ edits < MaxEdits
  /\ edits' = edits + 1
  /\ writing' = TRUE
  /\ contents' = [contents EXCEPT ![path][1] = edits']
  /\ Touch(path)
  /\ Recorded(contents'[path])
  /\ UNCHANGED <<path, kind, pc, started, pass, candidate, staged, app, flags,
                 watching, queued, missed>>

FinishEdit ==
  /\ writing
  /\ writing' = FALSE
  /\ contents' = [contents EXCEPT ![path][2] = edits]
  /\ Touch(path)
  /\ Recorded(contents'[path])
  /\ Report
  /\ UNCHANGED <<path, kind, edits, pc, started, pass, candidate, staged, app,
                 flags, watching>>

(* A rename, also where there was no file.  The number of an inode that is *)
(* not open any more may be used again.                                    *)
Replace(i) ==
  /\ ~ writing
  /\ i \notin {path, reader.inode}
  /\ edits < MaxEdits
  /\ edits' = edits + 1
  /\ path' = i
  /\ contents' = [contents EXCEPT ![i] = <<edits', edits'>>]
  /\ Recorded(contents'[i])
  /\ Report
  /\ UNCHANGED <<kind, writing, pc, started, pass, reader, candidate, staged,
                 app, flags, watching>>

Remove ==
  /\ ~ writing
  /\ path # NoInode
  /\ path' = NoInode
  /\ UNCHANGED <<contents, kind, edits, writing, pc, started, pass, reader,
                 candidate, staged, app, flags, watching, queued, missed,
                 seen>>

-----------------------------------------------------------------------------
(* read_config.                                                            *)

Close == reader' = NoFile

(* stage_generation returns without a candidate; the program starts with   *)
(* an empty generation and the default settings if it was the first time.  *)
StageFails ==
  /\ pc' = IF started THEN "loop" ELSE "watch"
  /\ pass' = "load"
  /\ Close
  /\ candidate' = NoCandidate
  /\ staged' = [b \in Blocks |-> "none"]
  /\ seen' = {}
  /\ UNCHANGED <<disk, started, app, watching, queued>>

Open ==
  /\ pc = "open"
  /\ path # NoInode
  /\ pc' = "first"
  /\ reader' = [NoFile EXCEPT !.inode = path]
  /\ missed' = FALSE
  /\ seen' = IF pass = "check" THEN {contents[path]} ELSE {}
  /\ UNCHANGED <<disk, started, pass, candidate, staged, app, flags, watching,
                 queued>>

(* A file that cannot be used counts as none.  Only the first read of a    *)
(* reload reports the error, and neither read schedules another reload:    *)
(* the file's return will.                                                 *)
OpenFails ==
  /\ pc = "open"
  /\ path = NoInode
  /\ error' = (error \/ pass = "load")
  /\ missed' = FALSE
  /\ UNCHANGED dirty
  /\ StageFails

ReadFirst ==
  /\ pc = "first"
  /\ pc' = "second"
  /\ reader' = [reader EXCEPT !.first = contents[reader.inode][1]]
  /\ UNCHANGED <<disk, started, pass, candidate, staged, app, flags, watching,
                 queued, missed, seen>>

ReadSecond ==
  /\ pc = "second"
  /\ pc' = "stat"
  /\ reader' = [reader EXCEPT !.second = contents[reader.inode][2]]
  /\ UNCHANGED <<disk, started, pass, candidate, staged, app, flags, watching,
                 queued, missed, seen>>

Source == <<reader.first, reader.second>>

(* Faulty variant: an obsolete candidate is discarded and that is all.     *)
AgainNone == UNCHANGED dirty

(* The newest file is to be loaded.                                        *)
Again == dirty' = TRUE

(* The file changed while it was read: CONFIG_READ_CHANGED.                *)
StatChanged ==
  /\ pc = "stat"
  /\ reader.changed
  /\ Again
  /\ missed' = FALSE
  /\ UNCHANGED error
  /\ StageFails

-----------------------------------------------------------------------------
(* stage_generation.                                                       *)

(* Half an edit may be a configuration or not.                             *)
Amounts(source) ==
  IF source[1] = source[2] THEN {kind[source[1]]} ELSE Kinds

Loads(k) == k # "broken" /\ (started => (k = "clicks") = clicks)

(* The chunk, every init and every staging update run; the blocks may      *)
(* already have something to show.                                         *)
Execute(k) ==
  /\ pc = "stat"
  /\ pass = "load"
  /\ ~ reader.changed
  /\ k \in Amounts(Source)
  /\ Loads(k)
  /\ candidate' = [source |-> Source, inode |-> reader.inode,
                   clicks |-> (k = "clicks")]
  /\ staged' \in [Blocks -> {"none", "staged"}]
  /\ Close
  /\ pass' = "check"
  /\ pc' = "open"
  /\ UNCHANGED <<disk, started, app, flags, watching, queued, missed, seen>>

ExecuteFails(k) ==
  /\ pc = "stat"
  /\ pass = "load"
  /\ ~ reader.changed
  /\ k \in Amounts(Source)
  /\ ~ Loads(k)
  /\ error' = TRUE
  /\ UNCHANGED <<dirty, missed>>
  /\ StageFails

(* Faulty variant: the file is only compared by its inode.                 *)
StableInode == candidate.inode = reader.inode

(* The validation read found the bytes and the inode that were executed.   *)
Stable == candidate.source = Source /\ candidate.inode = reader.inode

CheckFails ==
  /\ pc = "stat"
  /\ pass = "check"
  /\ ~ reader.changed
  /\ ~ Stable
  /\ Again
  /\ missed' = FALSE
  /\ UNCHANGED error
  /\ StageFails

CheckPasses ==
  /\ pc = "stat"
  /\ pass = "check"
  /\ ~ reader.changed
  /\ Stable
  /\ Close
  /\ error' = FALSE
  /\ pc' = IF started THEN "commit" ELSE "watch"
  /\ UNCHANGED <<disk, started, pass, candidate, staged, app, dirty, watching,
                 queued, missed, seen>>

-----------------------------------------------------------------------------
(* main and commit_generation.                                             *)

(* initialize_runtime acquires the watch once the first staging is over.   *)
Watch ==
  /\ pc = "watch"
  /\ watching' = TRUE
  /\ clicks' = candidate.clicks
  /\ pc' = "commit"
  /\ UNCHANGED <<disk, started, pass, reader, candidate, staged, loaded, shown,
                 flags, queued, missed, seen>>

(* Faulty variant: what staging set is kept until a refresh replaces it.   *)
ClearedNone(b) == staged[b]

(* What is left of block b's items before its live refresh.                *)
Cleared(b) == "none"

(* A live refresh that fails faults the block, which clears its items, as  *)
(* does one that shows nothing.                                            *)
Commit ==
  /\ pc = "commit"
  /\ loaded' = candidate.source
  /\ shown' \in [Blocks -> {"none", "staged", "live"}]
  /\ \A b \in Static : shown'[b] = Cleared(b)
  /\ \A b \in Dynamic : shown'[b] \in {Cleared(b), "none", "live"}
  /\ candidate' = NoCandidate
  /\ staged' = [b \in Blocks |-> "none"]
  /\ pass' = "load"
  /\ seen' = {}
  /\ started' = TRUE
  /\ pc' = "loop"
  /\ UNCHANGED <<disk, reader, clicks, flags, watching, queued, missed>>

-----------------------------------------------------------------------------
(* The event loop.                                                         *)

(* handle_inotify; an overflow has the same effect as the lost event.      *)
HandleInotify ==
  /\ pc = "loop"
  /\ queued
  /\ queued' = FALSE
  /\ dirty' = TRUE
  /\ UNCHANGED <<disk, pc, started, pass, reader, candidate, staged, app,
                 error, watching, missed, seen>>

(* SIGHUP.                                                                 *)
Hangup ==
  /\ pc = "loop"
  /\ ~ dirty
  /\ dirty' = TRUE
  /\ UNCHANGED <<disk, pc, started, pass, reader, candidate, staged, app,
                 error, watching, queued, missed, seen>>

(* The flag is cleared before staging, which may set it again.             *)
Reload ==
  /\ pc = "loop"
  /\ dirty
  /\ dirty' = FALSE
  /\ pc' = "open"
  /\ UNCHANGED <<disk, started, pass, reader, candidate, staged, app, error,
                 watching, queued, missed, seen>>

-----------------------------------------------------------------------------
Init ==
  /\ path \in Inodes \cup {NoInode}
  /\ contents = [i \in Inodes |-> <<0, 0>>]
  /\ kind \in [Edits -> Kinds]
  /\ edits = 0
  /\ writing = FALSE
  /\ pc = "open"
  /\ started = FALSE
  /\ pass = "load"
  /\ reader = NoFile
  /\ candidate = NoCandidate
  /\ staged = [b \in Blocks |-> "none"]
  /\ loaded = Fallback
  /\ clicks = TRUE
  /\ shown = [b \in Blocks |-> "none"]
  /\ error = FALSE
  /\ dirty = FALSE
  /\ watching = FALSE
  /\ queued = FALSE
  /\ missed = FALSE
  /\ seen = {}

Editor ==
  \/ EditInPlace
  \/ FinishEdit
  \/ \E i \in Inodes : Replace(i)
  \/ Remove

Program ==
  \/ Open
  \/ OpenFails
  \/ ReadFirst
  \/ ReadSecond
  \/ StatChanged
  \/ \E k \in Kinds : Execute(k) \/ ExecuteFails(k)
  \/ CheckFails
  \/ CheckPasses
  \/ Watch
  \/ Commit
  \/ HandleInotify
  \/ Reload

Next == Editor \/ Program \/ Hangup

Spec == Init /\ [][Next]_vars

(* i3sd goes on, and an editor that started to write finishes.             *)
FairSpec == Spec /\ WF_vars(Program) /\ WF_vars(FinishEdit)

-----------------------------------------------------------------------------
(* Properties.                                                             *)

Readers ==
  [inode : Inodes \cup {NoInode}, first : Edits, second : Edits,
   changed : BOOLEAN]

Candidates ==
  [source : (Edits \X Edits) \cup {Fallback}, inode : Inodes \cup {NoInode},
   clicks : BOOLEAN]

TypeOK ==
  /\ path \in Inodes \cup {NoInode}
  /\ contents \in [Inodes -> Edits \X Edits]
  /\ kind \in [Edits -> Kinds]
  /\ edits \in Edits
  /\ pc \in {"open", "first", "second", "stat", "watch", "commit", "loop"}
  /\ pass \in {"load", "check"}
  /\ reader \in Readers
  /\ reader.inode # NoInode <=> pc \in {"first", "second", "stat"}
  /\ candidate \in Candidates
  /\ staged \in [Blocks -> {"none", "staged"}]
  /\ loaded \in (Edits \X Edits) \cup {Fallback}
  /\ shown \in [Blocks -> {"none", "staged", "live"}]
  /\ {writing, started, clicks, error, dirty, watching, queued, missed}
       \subseteq BOOLEAN
  /\ seen \subseteq Edits \X Edits

(* RLD-002: what is committed is what the file held at some moment since   *)
(* the validation read began: never a mixture of two edits that no reader  *)
(* of the file could have seen, and never an edit that was known to be     *)
(* replaced, even when sizes and times do not tell.                        *)
FreshCommit ==
  [][candidate'.source = Fallback /\ candidate.source # Fallback
     /\ loaded' # loaded
       => loaded' \in seen]_vars

(* RLD-003: nothing a block set while it was staged reaches the bar.       *)
StagedNeverShown == \A b \in Blocks : shown[b] # "staged"

(* The file is what is running, or the bar shows why it is not.            *)
Synced ==
  LET now == contents[path]
      k   == kind[now[1]]
  IN  IF path = NoInode THEN TRUE
      ELSE IF Loads(k) THEN loaded = now /\ ~ error
      ELSE loaded = now \/ error

(* However edits, reads and reloads interleave, the last edit is the one   *)
(* that ends up running, or its error is on the bar; unless the edit was   *)
(* made before the watch existed and no read noticed it.                   *)
LastEditLoaded == <>[](Synced \/ missed)
=============================================================================
