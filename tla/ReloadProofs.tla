---------------------------- MODULE ReloadProofs ----------------------------
(***************************************************************************)
(* Following the configuration file: a committed configuration is what the *)
(* file held at some moment since its validation read began, and nothing   *)
(* set while staging is shown, for any inodes, blocks and number of edits. *)
(***************************************************************************)
EXTENDS Reload, TLAPS

(* The first half of a file is never older than the second, and an editor  *)
(* at work has written the first half of the newest edit.                  *)
Written ==
  /\ \A i \in Inodes : /\ contents[i][2] <= contents[i][1]
                       /\ contents[i][1] <= edits
  /\ writing => path \in Inodes /\ contents[path][1] = edits

(* A read under way, or over: the half that was read first is not newer    *)
(* than the file, and the half read second not newer than the file's       *)
(* first.                                                                  *)
Behind ==
  /\ pc \in {"second", "stat"} => reader.first <= contents[reader.inode][1]
  /\ pc = "stat" => reader.second <= contents[reader.inode][1]
  /\ pass = "check" => /\ candidate.inode \in Inodes
                       /\ candidate.source \in Edits \X Edits
                       /\ candidate.source[2] <= contents[candidate.inode][1]

(* The validation read: the file as it is was seen, and so was what was    *)
(* read unless its second half is newer than its first.  Only such a torn  *)
(* read could match nothing that was ever there; the first half of the     *)
(* same inode, read again, is not older than the torn read's second.       *)
Validated ==
  pass = "check" =>
    /\ pc \in {"open", "first", "second", "stat", "commit", "watch"}
    /\ pc \in {"first", "second", "stat"} => contents[reader.inode] \in seen
    /\ pc = "second" /\ contents[reader.inode][2] <= reader.first
         => <<reader.first, contents[reader.inode][2]>> \in seen
    /\ pc = "stat" /\ reader.second <= reader.first => Source \in seen
    /\ pc \in {"second", "stat"} /\ candidate.inode = reader.inode
         => candidate.source[2] <= reader.first

(* What is about to be committed was seen.                                 *)
Fresh ==
  pc \in {"watch", "commit"} /\ candidate.source # Fallback
    => candidate.source \in seen

(* The inductive invariant.                                                *)
Core == TypeOK /\ Written /\ Behind /\ Validated /\ Fresh /\ StagedNeverShown

-----------------------------------------------------------------------------
(* Halves of a file, and the records of a read and of a candidate.         *)

(* Writing one half of a pair leaves the other.                            *)
LEMMA Halves ==
  ASSUME NEW c \in Edits \X Edits, NEW e \in Edits
  PROVE  /\ [c EXCEPT ![1] = e] = <<e, c[2]>>
         /\ [c EXCEPT ![2] = e] = <<c[1], e>>
         /\ c = <<c[1], c[2]>> /\ c[1] \in Edits /\ c[2] \in Edits
  OBVIOUS

(* The file that is open, with its inode.                                  *)
LEMMA OpenFile ==
  ASSUME TypeOK
  PROVE  /\ reader.inode \in Inodes \cup {NoInode}
         /\ reader.first \in Edits /\ reader.second \in Edits
         /\ candidate.inode \in Inodes \cup {NoInode}
         /\ candidate.source \in (Edits \X Edits) \cup {Fallback}
         /\ pc \in {"first", "second", "stat"} => reader.inode \in Inodes
         /\ NoFile.inode = NoInode
  BY ReloadAssumption DEF TypeOK, NoFile, Readers, Candidates

(* The metadata of the open file may tell of a write; what was read stays. *)
LEMMA Touched ==
  ASSUME TypeOK, NEW i, Touch(i)
  PROVE  /\ reader' \in Readers
         /\ reader'.inode = reader.inode
         /\ reader'.first = reader.first /\ reader'.second = reader.second
<1>1. reader \in Readers
  BY DEF TypeOK
<1>2. CASE UNCHANGED reader
  BY <1>1, <1>2
<1>3. CASE reader' = [reader EXCEPT !.changed = @ \/ reader.inode = i]
  <2> DEFINE c == reader.changed \/ reader.inode = i
  <2>1. c \in BOOLEAN
    BY <1>1 DEF Readers
  <2>2. reader' = [reader EXCEPT !.changed = c]
    BY <1>3
  <2> HIDE DEF c
  <2> QED BY <1>1, <2>1, <2>2 DEF Readers
<1> QED BY <1>2, <1>3 DEF Touch

-----------------------------------------------------------------------------
(* Editors.                                                                *)

(* What the editors share: inode i holds c, which is not older and has one *)
(* new half, or two of the same edit.                                      *)
LEMMA EditKeeps ==
  ASSUME Core, NEW i \in Inodes, NEW c \in Edits \X Edits,
         contents' = [contents EXCEPT ![i] = c],
         contents[i][1] <= c[1], c[2] <= c[1],
         c[2] = contents[i][2] \/ c[2] = c[1],
         Recorded(c),
         path' \in Inodes, edits' \in Edits, edits <= edits', c[1] <= edits',
         {writing', queued', missed'} \subseteq BOOLEAN,
         writing' => path' = i /\ c[1] = edits',
         reader' \in Readers, reader'.inode = reader.inode,
         reader'.first = reader.first, reader'.second = reader.second,
         UNCHANGED <<kind, pc, started, pass, candidate, staged, app, flags,
                     watching>>
  PROVE  Core'
<1>1. /\ contents' \in [Inodes -> Edits \X Edits]
      /\ contents'[i] = c
      /\ \A j \in Inodes : /\ contents'[j][1] \in Edits
                           /\ contents[j][1] \in Edits
                           /\ contents'[j][2] \in Edits
                           /\ contents[j][2] \in Edits
                           /\ contents[j][1] <= contents'[j][1]
                           /\ j # i => contents'[j] = contents[j]
  <2>1. contents \in [Inodes -> Edits \X Edits]
    BY DEF Core, TypeOK
  <2> QED BY <2>1, ReloadAssumption DEF Edits
<1>2. /\ seen' \subseteq Edits \X Edits
      /\ seen \subseteq seen'
      /\ pass = "check" => c \in seen'
  BY DEF Recorded, Core, TypeOK
<1>3. TypeOK'
  BY <1>1, <1>2 DEF Core, TypeOK, app, flags, Readers, Candidates
<1>4. Written'
  <2>1. edits \in Int /\ edits' \in Int
    BY DEF Core, TypeOK, Edits
  <2> QED BY <1>1, <2>1 DEF Core, Written, Edits
<1>5. /\ reader.first \in Int /\ reader.second \in Int
      /\ candidate.source \in Edits \X Edits => candidate.source[2] \in Int
      /\ \A j \in Inodes :
           {contents[j][1], contents'[j][1], contents[j][2], contents'[j][2]}
             \subseteq Int
      /\ pc \in {"first", "second", "stat"} => reader.inode \in Inodes
  BY <1>1, OpenFile DEF Core, Edits
<1>6. Behind'
  BY <1>1, <1>5 DEF Core, Behind
<1>7. Validated'
  <2>1. SUFFICES ASSUME pass = "check"
                 PROVE  Validated'
    BY DEF Validated
  <2>2. ASSUME pc \in {"first", "second", "stat"}
        PROVE  contents'[reader.inode] \in seen'
    BY <1>1, <1>2, <1>5, <2>1, <2>2 DEF Core, Validated
  <2>3. ASSUME pc = "second", contents'[reader.inode][2] <= reader.first
        PROVE  <<reader.first, contents'[reader.inode][2]>> \in seen'
    <3>1. CASE reader.inode # i \/ c[2] = contents[i][2]
      BY <1>1, <1>2, <1>5, <2>1, <2>3, <3>1 DEF Core, Validated
    <3>2. CASE reader.inode = i /\ c[2] = c[1]
      <4>1. c[2] = reader.first
        BY <1>1, <1>5, <2>3, <3>2 DEF Core, Behind
      <4>2. c = <<c[1], c[2]>>
        BY Halves
      <4> QED BY <1>1, <1>2, <2>1, <3>2, <4>1, <4>2
    <3> QED BY <3>1, <3>2
  <2>4. ASSUME pc = "stat", reader.second <= reader.first
        PROVE  Source' \in seen'
    BY <1>2, <2>1, <2>4 DEF Core, Validated, Source
  <2> QED BY <2>1, <2>2, <2>3, <2>4 DEF Core, Validated
<1>8. Fresh' /\ StagedNeverShown'
  BY <1>2 DEF Core, Fresh, StagedNeverShown, app
<1> QED BY <1>3, <1>4, <1>6, <1>7, <1>8 DEF Core

(* The first half of an edit in place.                                     *)
LEMMA EditInPlaceKeeps ==
  ASSUME Core, EditInPlace
  PROVE  Core'
<1> DEFINE c == [contents[path] EXCEPT ![1] = edits']
<1>1. /\ path \in Inodes /\ edits' \in Edits /\ edits <= edits'
      /\ edits' = edits + 1
      /\ contents[path] \in Edits \X Edits
      /\ edits \in Edits
  BY ReloadAssumption DEF EditInPlace, Core, TypeOK, Edits
<1>2. c = <<edits', contents[path][2]>> /\ c \in Edits \X Edits
  BY <1>1, Halves
<1>3. contents' = [contents EXCEPT ![path] = c] /\ contents'[path] = c
  BY <1>1 DEF EditInPlace, Core, TypeOK
<1> HIDE DEF c
<1>4. contents[path][1] <= edits' /\ contents[path][2] <= edits'
  <2>1. contents[path][1] \in Edits /\ contents[path][2] \in Edits
    BY <1>1
  <2> QED BY <1>1, <2>1 DEF Core, Written, Edits
<1>5. /\ reader' \in Readers /\ reader'.inode = reader.inode
      /\ reader'.first = reader.first /\ reader'.second = reader.second
  BY Touched DEF EditInPlace, Core
<1>6. /\ Recorded(c) /\ path' = path /\ writing'
      /\ {writing', queued', missed'} \subseteq BOOLEAN
      /\ UNCHANGED <<kind, pc, started, pass, candidate, staged, app, flags,
                     watching>>
  BY <1>3 DEF EditInPlace, Core, TypeOK
<1>7. /\ c \in Edits \X Edits /\ c[1] = edits'
      /\ c[2] = contents[path][2]
  BY <1>2
<1>8. /\ contents[path][1] <= c[1] /\ c[2] <= c[1] /\ c[1] <= edits'
      /\ c[2] = contents[path][2] \/ c[2] = c[1]
  BY <1>1, <1>4, <1>7 DEF Edits
<1> QED BY <1>1, <1>3, <1>5, <1>6, <1>7, <1>8, EditKeeps

(* The second half: the file is whole again.                               *)
LEMMA FinishEditKeeps ==
  ASSUME Core, FinishEdit
  PROVE  Core'
<1> DEFINE c == [contents[path] EXCEPT ![2] = edits]
<1>1. /\ path \in Inodes /\ edits \in Edits
      /\ contents[path] \in Edits \X Edits
      /\ contents[path][1] = edits
  BY DEF FinishEdit, Core, TypeOK, Written
<1>2. c = <<edits, edits>> /\ c \in Edits \X Edits
  BY <1>1, Halves
<1>3. contents' = [contents EXCEPT ![path] = c] /\ contents'[path] = c
  BY <1>1 DEF FinishEdit, Core, TypeOK
<1> HIDE DEF c
<1>4. /\ reader' \in Readers /\ reader'.inode = reader.inode
      /\ reader'.first = reader.first /\ reader'.second = reader.second
  BY Touched DEF FinishEdit, Core
<1>5. /\ Recorded(c) /\ path' = path /\ edits' = edits /\ ~ writing'
      /\ {writing', queued', missed'} \subseteq BOOLEAN
      /\ UNCHANGED <<kind, pc, started, pass, candidate, staged, app, flags,
                     watching>>
  BY <1>3 DEF FinishEdit, Report, Core, TypeOK
<1>6. c[1] = edits /\ c[2] = edits /\ edits <= edits
  BY <1>1, <1>2 DEF Edits
<1> QED BY <1>1, <1>2, <1>3, <1>4, <1>5, <1>6, EditKeeps

(* Another file is renamed over the configuration; the one that is being   *)
(* read is not touched.                                                    *)
LEMMA ReplaceKeeps ==
  ASSUME Core, NEW i \in Inodes, Replace(i)
  PROVE  Core'
<1> DEFINE c == <<edits', edits'>>
<1>1. /\ edits \in Edits /\ edits' \in Edits /\ edits <= edits'
      /\ edits' <= edits'
  BY ReloadAssumption DEF Replace, Core, TypeOK, Edits
<1>2. c \in Edits \X Edits /\ c[1] = edits' /\ c[2] = edits'
  BY <1>1
<1>3. contents' = [contents EXCEPT ![i] = c] /\ contents'[i] = c
  BY DEF Replace, Core, TypeOK
<1> HIDE DEF c
<1>4. contents[i][1] <= edits'
  <2>1. contents[i][1] \in Edits /\ contents[i][1] <= edits
    BY DEF Core, TypeOK, Written
  <2> QED BY <1>1, <2>1 DEF Edits
<1>5. /\ Recorded(c) /\ path' = i /\ ~ writing'
      /\ {writing', queued', missed'} \subseteq BOOLEAN
      /\ UNCHANGED <<kind, pc, started, pass, reader, candidate, staged, app,
                     flags, watching>>
  BY <1>3 DEF Replace, Report, Core, TypeOK
<1>6. reader' \in Readers
  BY <1>5 DEF Core, TypeOK
<1> QED BY <1>1, <1>2, <1>3, <1>4, <1>5, <1>6, EditKeeps

(* The configuration is removed.                                           *)
LEMMA RemoveKeeps ==
  ASSUME Core, Remove
  PROVE  Core'
<1>1. TypeOK'
  BY DEF Remove, Core, TypeOK, Readers, Candidates, app, flags
<1>2. Written' /\ Behind' /\ Fresh' /\ StagedNeverShown'
  BY DEF Remove, Core, Written, Behind, Fresh, StagedNeverShown, app
<1>3. Validated'
  BY DEF Remove, Core, Validated, Source
<1> QED BY <1>1, <1>2, <1>3 DEF Core

-----------------------------------------------------------------------------
(* Reads and stagings.                                                     *)

(* A staging that ends without a candidate.                                *)
LEMMA StageFailsKeeps ==
  ASSUME Core, StageFails, {error', dirty', missed'} \subseteq BOOLEAN
  PROVE  Core'
<1>1. /\ NoFile \in Readers /\ NoCandidate \in Candidates
      /\ NoFile.inode = NoInode /\ NoCandidate.source = Fallback
  BY ReloadAssumption DEF NoFile, NoCandidate, Readers, Candidates, Edits
<1>2. TypeOK'
  BY <1>1 DEF StageFails, Close, Core, TypeOK, disk, app
<1>3. Written' /\ Behind' /\ StagedNeverShown'
  BY DEF StageFails, Close, Core, Written, Behind, StagedNeverShown, disk, app
<1>4. Validated' /\ Fresh'
  BY <1>1 DEF StageFails, Validated, Fresh
<1> QED BY <1>2, <1>3, <1>4 DEF Core

(* A file that is missing or changed, a chunk that fails, and a validation *)
(* read that found something else.                                         *)
LEMMA FailuresKeep ==
  ASSUME Core,
         \/ OpenFails \/ StatChanged \/ CheckFails
         \/ \E k \in Kinds : ExecuteFails(k)
  PROVE  Core'
<1>1. StageFails /\ {error', dirty', missed'} \subseteq BOOLEAN
  BY DEF OpenFails, StatChanged, CheckFails, ExecuteFails, Again, Core, TypeOK
<1> QED BY <1>1, StageFailsKeeps

(* A read begins.                                                          *)
LEMMA OpenKeeps ==
  ASSUME Core, Open
  PROVE  Core'
<1> DEFINE r == [NoFile EXCEPT !.inode = path]
<1>1. path \in Inodes
  BY DEF Open, Core, TypeOK
<1>2. r \in Readers /\ r.inode = path
  <2>1. NoFile \in Readers
    BY ReloadAssumption DEF NoFile, Readers, Edits
  <2> QED BY <1>1, <2>1 DEF Readers
<1>3. reader' = r
  BY DEF Open
<1> HIDE DEF r
<1>4. contents[path] \in Edits \X Edits
  BY <1>1 DEF Core, TypeOK
<1>5. TypeOK'
  <2>1. seen' \subseteq Edits \X Edits
    BY <1>4 DEF Open
  <2>2. reader'.inode # NoInode
    BY <1>1, <1>2, <1>3, ReloadAssumption
  <2> QED BY <1>2, <1>3, <2>1, <2>2
             DEF Open, Core, TypeOK, disk, app, flags
<1>6. Written' /\ Behind' /\ StagedNeverShown'
  BY DEF Open, Core, Written, Behind, StagedNeverShown, disk, app
<1>7. Validated' /\ Fresh'
  BY <1>2, <1>3 DEF Open, Core, Validated, Fresh, disk
<1> QED BY <1>5, <1>6, <1>7 DEF Core

(* The first half is read: what the file holds is seen, and an earlier     *)
(* torn read of the inode is not newer.                                    *)
LEMMA ReadFirstKeeps ==
  ASSUME Core, ReadFirst
  PROVE  Core'
<1> DEFINE i == reader.inode
           r == [reader EXCEPT !.first = contents[i][1]]
<1>1. /\ reader \in Readers /\ i \in Inodes
      /\ contents[i] \in Edits \X Edits
  BY OpenFile DEF ReadFirst, Core, TypeOK
<1>2. r \in Readers /\ r.inode = i /\ r.first = contents[i][1]
  BY <1>1 DEF Readers
<1>3. reader' = r
  BY DEF ReadFirst
<1> HIDE DEF r
<1>4. contents[i][1] \in Int /\ contents[i][2] \in Int
  BY <1>1 DEF Edits
<1>5. TypeOK'
  <2>1. reader'.inode # NoInode
    BY <1>1, <1>2, <1>3, ReloadAssumption
  <2> QED BY <1>2, <1>3, <2>1 DEF ReadFirst, Core, TypeOK, disk, app, flags
<1>6. Written' /\ StagedNeverShown' /\ Fresh'
  BY DEF ReadFirst, Core, Written, StagedNeverShown, Fresh, disk, app
<1>7. Behind'
  BY <1>2, <1>3, <1>4 DEF ReadFirst, Core, Behind, disk
<1>8. Validated'
  <2>1. SUFFICES ASSUME pass = "check"
                 PROVE  Validated'
    BY DEF Validated, ReadFirst
  <2>2. contents[i] = <<contents[i][1], contents[i][2]>>
    BY <1>1
  <2>3. contents[i] \in seen
    BY <2>1 DEF Core, Validated, ReadFirst
  <2>4. contents[i][2] <= contents[i][1]
    BY <1>1 DEF Core, Written
  <2>5. candidate.inode = i => candidate.source[2] <= r.first
    BY <1>2, <2>1 DEF Core, Behind
  <2> QED BY <1>2, <1>3, <2>2, <2>3, <2>5
             DEF ReadFirst, Validated, disk
<1> QED BY <1>5, <1>6, <1>7, <1>8 DEF Core

(* The second half is read.                                                *)
LEMMA ReadSecondKeeps ==
  ASSUME Core, ReadSecond
  PROVE  Core'
<1> DEFINE i == reader.inode
           r == [reader EXCEPT !.second = contents[i][2]]
<1>1. /\ reader \in Readers /\ i \in Inodes
      /\ contents[i] \in Edits \X Edits
  BY OpenFile DEF ReadSecond, Core, TypeOK
<1>2. /\ r \in Readers /\ r.inode = i /\ r.first = reader.first
      /\ r.second = contents[i][2]
  BY <1>1 DEF Readers
<1>3. reader' = r
  BY DEF ReadSecond
<1> HIDE DEF r
<1>5. TypeOK'
  <2>1. reader'.inode # NoInode
    BY <1>1, <1>2, <1>3, ReloadAssumption
  <2> QED BY <1>2, <1>3, <2>1 DEF ReadSecond, Core, TypeOK, disk, app, flags
<1>6. Written' /\ StagedNeverShown' /\ Fresh'
  BY DEF ReadSecond, Core, Written, StagedNeverShown, Fresh, disk, app
<1>7. Behind'
  <2>1. contents[i][2] <= contents[i][1]
    BY <1>1 DEF Core, Written
  <2> QED BY <1>2, <1>3, <2>1 DEF ReadSecond, Core, Behind, disk
<1>8. Validated'
  BY <1>2, <1>3 DEF ReadSecond, Core, Validated, Source, disk
<1> QED BY <1>5, <1>6, <1>7, <1>8 DEF Core

(* The chunk is executed: the validation read follows.                     *)
LEMMA ExecuteKeeps ==
  ASSUME Core, NEW k \in Kinds, Execute(k)
  PROVE  Core'
<1> DEFINE c == [source |-> Source, inode |-> reader.inode,
                 clicks |-> (k = "clicks")]
<1>1. /\ reader.inode \in Inodes /\ Source \in Edits \X Edits
      /\ Source[2] = reader.second
      /\ NoFile \in Readers /\ NoFile.inode = NoInode
  BY OpenFile, ReloadAssumption
     DEF Execute, Core, Source, NoFile, Readers, Edits
<1>2. /\ c \in Candidates
      /\ c.source = Source /\ c.inode = reader.inode
  BY <1>1 DEF Candidates
<1>3. candidate' = c /\ reader' = NoFile
  BY DEF Execute, Close
<1> HIDE DEF c
<1>4. TypeOK'
  BY <1>1, <1>2, <1>3 DEF Execute, Core, TypeOK, disk, app, flags
<1>5. Written' /\ StagedNeverShown' /\ Fresh' /\ Validated'
  BY DEF Execute, Core, Written, StagedNeverShown, Fresh, Validated, disk, app
<1>6. Behind'
  BY <1>1, <1>2, <1>3 DEF Execute, Core, Behind, disk
<1> QED BY <1>4, <1>5, <1>6 DEF Core

(* A validation read that finds the candidate was not torn: the first half *)
(* of the same inode would have been older than the candidate's second.    *)
LEMMA CheckPassesKeeps ==
  ASSUME Core, CheckPasses
  PROVE  Core'
<1>1. NoFile \in Readers /\ NoFile.inode = NoInode
  BY ReloadAssumption DEF NoFile, Readers, Edits
<1>2. TypeOK'
  BY <1>1 DEF CheckPasses, Close, Core, TypeOK, disk, app
<1>3. Written' /\ StagedNeverShown' /\ Behind' /\ Validated'
  BY DEF CheckPasses, Core, Written, StagedNeverShown, Behind, Validated,
         disk, app
<1>4. candidate.source \in seen
  <2>1. candidate.source = Source /\ Source[2] = reader.second
    BY DEF CheckPasses, Stable, Source
  <2>2. reader.second <= reader.first
    BY <2>1 DEF CheckPasses, Stable, Core, Validated
  <2> QED BY <2>1, <2>2 DEF CheckPasses, Core, Validated
<1>5. Fresh'
  BY <1>4 DEF CheckPasses, Fresh
<1> QED BY <1>2, <1>3, <1>5 DEF Core

-----------------------------------------------------------------------------
(* main, commit_generation and the event loop.                             *)

(* The watch is acquired.                                                  *)
LEMMA WatchKeeps ==
  ASSUME Core, Watch
  PROVE  Core'
<1>1. candidate.clicks \in BOOLEAN
  BY DEF Core, TypeOK, Candidates
<1>2. TypeOK'
  BY <1>1 DEF Watch, Core, TypeOK, disk, flags
<1>3. Written' /\ StagedNeverShown' /\ Behind' /\ Fresh'
  BY DEF Watch, Core, Written, StagedNeverShown, Behind, Fresh, disk
<1>4. Validated'
  BY DEF Watch, Core, Validated, Source, disk
<1> QED BY <1>2, <1>3, <1>4 DEF Core

(* The candidate is committed.                                             *)
LEMMA CommitKeeps ==
  ASSUME Core, Commit
  PROVE  Core'
<1>1. /\ candidate.source \in (Edits \X Edits) \cup {Fallback}
      /\ NoCandidate \in Candidates /\ NoCandidate.source = Fallback
  BY ReloadAssumption DEF Core, TypeOK, Candidates, NoCandidate
<1>2. TypeOK'
  BY <1>1 DEF Commit, Core, TypeOK, disk, flags
<1>3. StagedNeverShown'
  BY DEF Commit, Cleared, StagedNeverShown, Blocks
<1>4. Written' /\ Behind' /\ Validated' /\ Fresh'
  BY DEF Commit, Core, Written, Behind, Validated, Fresh, disk
<1> QED BY <1>2, <1>3, <1>4 DEF Core

(* The loop learns of an edit, a hangup, and starts a reload.              *)
LEMMA LoopKeeps ==
  ASSUME Core, HandleInotify \/ Hangup \/ Reload
  PROVE  Core'
<1>1. TypeOK'
  BY DEF HandleInotify, Hangup, Reload, Core, TypeOK, disk, app, Readers,
         Candidates
<1>2. Written' /\ StagedNeverShown' /\ Fresh'
  BY DEF HandleInotify, Hangup, Reload, Core, Written, StagedNeverShown, Fresh,
         disk, app
<1>3. Behind' /\ Validated'
  BY DEF HandleInotify, Hangup, Reload, Core, Behind, Validated, disk, Source
<1> QED BY <1>1, <1>2, <1>3 DEF Core

-----------------------------------------------------------------------------
(* The theorems.                                                           *)

(* The invariant holds at first.                                           *)
LEMMA InitCore == Init => Core
<1> SUFFICES ASSUME Init
             PROVE  Core
  OBVIOUS
<1>1. /\ NoFile \in Readers /\ NoCandidate \in Candidates
      /\ NoFile.inode = NoInode /\ 0 \in Edits
  BY ReloadAssumption DEF NoFile, NoCandidate, Readers, Candidates, Edits
<1>2. TypeOK
  BY <1>1 DEF Init, TypeOK
<1>3. Written /\ Behind /\ Validated /\ Fresh /\ StagedNeverShown
  BY DEF Init, Written, Behind, Validated, Fresh, StagedNeverShown
<1> QED BY <1>2, <1>3 DEF Core

(* Every step keeps the invariant.                                         *)
LEMMA NextKeeps == Core /\ [Next]_vars => Core'
<1> SUFFICES ASSUME Core, [Next]_vars
             PROVE  Core'
  OBVIOUS
<1>1. CASE Editor
  BY <1>1, EditInPlaceKeeps, FinishEditKeeps, ReplaceKeeps, RemoveKeeps
     DEF Editor
<1>2. CASE Program
  BY <1>2, OpenKeeps, FailuresKeep, ReadFirstKeeps, ReadSecondKeeps,
     ExecuteKeeps, CheckPassesKeeps, WatchKeeps, CommitKeeps, LoopKeeps
     DEF Program
<1>3. CASE Hangup
  BY <1>3, LoopKeeps
<1>4. CASE UNCHANGED vars
  <2>1. TypeOK' /\ Written'
    BY <1>4 DEF Core, TypeOK, Written, vars, disk, app, flags
  <2>2. Behind' /\ Validated'
    BY <1>4 DEF Core, Behind, Validated, Source, vars, disk
  <2>3. Fresh' /\ StagedNeverShown'
    BY <1>4 DEF Core, Fresh, StagedNeverShown, vars, app
  <2> QED BY <2>1, <2>2, <2>3 DEF Core
<1> QED BY <1>1, <1>2, <1>3, <1>4 DEF Next

(* The invariant holds throughout.                                         *)
THEOREM ReloadInductive == Spec => []Core
  BY InitCore, NextKeeps, PTL DEF Spec

(* Type correctness.                                                       *)
THEOREM ReloadTyped == Spec => []TypeOK
<1>1. Core => TypeOK
  BY DEF Core
<1> QED BY <1>1, ReloadInductive, PTL

(* Nothing that a block set while its configuration was staged is shown:   *)
(* commit_generation clears it before the live refresh.                    *)
THEOREM StagedStaysHidden == Spec => []StagedNeverShown
<1>1. Core => StagedNeverShown
  BY DEF Core
<1> QED BY <1>1, ReloadInductive, PTL

(* What is committed is what the file held since the validation read       *)
(* began, although each read can be torn and neither sizes nor times need  *)
(* tell.                                                                   *)
THEOREM CommitsAreFresh == Spec => FreshCommit
<1> DEFINE A == candidate'.source = Fallback /\ candidate.source # Fallback
                /\ loaded' # loaded => loaded' \in seen
<1>1. Core /\ [Next]_vars => [A]_vars
  <2> SUFFICES ASSUME Core, Next, loaded' # loaded,
                      candidate.source # Fallback
               PROVE  loaded' \in seen
    OBVIOUS
  <2>1. Commit
    BY DEF Next, Editor, EditInPlace, FinishEdit, Replace, Remove, Program,
           Open, OpenFails, ReadFirst, ReadSecond, StatChanged, Execute,
           ExecuteFails, CheckFails, CheckPasses, StageFails, Watch,
           HandleInotify, Reload, Hangup, app
  <2> QED BY <2>1 DEF Commit, Core, Fresh
<1> QED BY <1>1, ReloadInductive, PTL DEF Spec, FreshCommit
=============================================================================
