---------------------------- MODULE SourcesProofs ----------------------------
(***************************************************************************)
(* Proofs about Sources, one kind of source after the other.               *)
(***************************************************************************)
EXTENDS Sources, Sequences, FiniteSets, FiniteSetTheorems,
        SequenceTheorems, WellFoundedInduction, TLAPS

-----------------------------------------------------------------------------
(* ctx:set.                                                                 *)

(* Where the reconciliation is: every state its caller has given has an     *)
(* entry in both lists, and outside ctx:set there is none.                  *)
Progress ==
  /\ Len(set.next) = Len(given) /\ Len(set.reuse) = Len(given)
  /\ Len(given) <= set.count
  /\ ~set.running => set = Items!NoSet /\ given = <<>>
  /\ set.running /\ ~set.list => set.count = 1

(* An item has the instance of the place it is in.                          *)
Placed(item, list, i) ==
  item.instance = IF item.state = Hidden THEN Items!Plain
                  ELSE Items!Instance(list, item.id, i)

(* No two items of the block have an id in common, and only those of lists  *)
(* have one.                                                                *)
Identified ==
  /\ \A i \in DOMAIN items : /\ Placed(items[i], list_mode, i)
                             /\ items[i].id # NoId => list_mode
  /\ \A i, j \in DOMAIN items :
       items[i].id = items[j].id /\ items[i].id # NoId => i = j
  /\ ~list_mode => Len(items) <= 1

(* The i-th state given is that of the item which is reused, or of the one  *)
(* that was made.                                                           *)
ReusedAt(i) ==
  /\ set.reuse[i] \in DOMAIN items
  /\ set.list = list_mode
  /\ set.next[i] = Items!Unmade
  /\ given[i] = <<items[set.reuse[i]].id, items[set.reuse[i]].state>>
  /\ given[i][1] = NoId => set.reuse[i] = i

MadeAt(i) ==
  /\ set.next[i] \in Items!Item
  /\ given[i] = <<set.next[i].id, set.next[i].state>>
  /\ Placed(set.next[i], set.list, i)

Answered ==
  \A i \in DOMAIN given :
    /\ IF set.reuse[i] # 0 THEN ReusedAt(i) ELSE MadeAt(i)
    /\ given[i][1] # NoId => set.list

(* No id was given twice: either they are all indexed, or each is where it  *)
(* was before.                                                              *)
GivenOnce ==
  /\ \A i, j \in DOMAIN given :
       given[i][1] = given[j][1] /\ given[i][1] # NoId => i = j
  /\ set.indexed =>
       set.new_ids = {given[i][1] : i \in DOMAIN given} \ {NoId}
  /\ ~set.indexed =>
       \A i \in DOMAIN given :
         given[i][1] # NoId => /\ set.list = list_mode
                               /\ i \in DOMAIN items
                               /\ items[i].id = given[i][1]

(* Every cell has one owner, an item or one that is being made.             *)
MadeIndices == {i \in DOMAIN given : set.reuse[i] = 0}

Separate ==
  /\ memory = {items[i].cell : i \in DOMAIN items}
                \cup {set.next[i].cell : i \in MadeIndices}
  /\ \A i, j \in DOMAIN items : items[i].cell = items[j].cell => i = j
  /\ \A i, j \in MadeIndices : set.next[i].cell = set.next[j].cell => i = j
  /\ \A i \in DOMAIN items, j \in MadeIndices :
       items[i].cell # set.next[j].cell

(* A list that has not changed so far has every item in its old place.      *)
ChangeNoticed ==
  set.running /\ ~set.changed =>
    /\ set.count = Len(items)
    /\ \A i \in DOMAIN given : set.reuse[i] = i

Sets ==
  [running : BOOLEAN, list : BOOLEAN, count : 0..ListLimit,
   reuse : Seq(0..ListLimit), next : Seq(Items!Item \cup {Items!Unmade}),
   indexed : BOOLEAN, new_ids : SUBSET Ids, changed : BOOLEAN]

ItemsTyped ==
  /\ {staging, faulted, list_mode, render_dirty, shown} \subseteq BOOLEAN
  /\ items \in Seq(Items!Item) /\ Len(items) <= ListLimit
  /\ set \in Sets
  /\ given \in Seq((Ids \cup {NoId}) \X (States \cup {Hidden}))
  /\ memory \subseteq Cells

ItemsInv ==
  /\ ItemsTyped /\ Progress /\ Identified /\ Answered /\ GivenOnce
  /\ Separate /\ ChangeNoticed /\ Items!FrameCurrent

-----------------------------------------------------------------------------
(* A call that has not begun.                                               *)
LEMMA NoSetTyped == ASSUME Items!ItemsConstants PROVE Items!NoSet \in Sets
<1>1. /\ {} \in SUBSET Ids /\ 0 \in 0..ListLimit
      /\ <<>> \in Seq(0..ListLimit)
      /\ <<>> \in Seq(Items!Item \cup {Items!Unmade})
  BY DEF Items!ItemsConstants
<1> QED BY <1>1 DEF Items!NoSet, Sets

(* The memory of items is that of each of them.                             *)
LEMMA OwnedByItems ==
  ASSUME Items!ItemsConstants, items \in Seq(Items!Item)
  PROVE  Items!Owned(items) = {items[i].cell : i \in DOMAIN items}
<1>1. \A i \in DOMAIN items : items[i].cell \in Cells
  <2>1. \A i \in DOMAIN items : items[i] \in Items!Item
    OBVIOUS
  <2>2. \A item \in Items!Item : item.cell \in Cells
    BY DEF Items!Item
  <2> QED BY <2>1, <2>2
<1>2. -1 \notin Cells
  BY DEF Items!ItemsConstants
<1> QED BY <1>1, <1>2 DEF Items!Owned, Items!Unmade

(* While no call runs, the items are all there is.                          *)
LEMMA IdleKeeps ==
  ASSUME ItemsTyped', set' = Items!NoSet, given' = <<>>, Identified',
         memory' = {items'[i].cell : i \in DOMAIN items'},
         \A i, j \in DOMAIN items' : items'[i].cell = items'[j].cell => i = j,
         Items!FrameCurrent'
  PROVE  ItemsInv'
<1>1. DOMAIN given' = {} /\ Len(given') = 0
  OBVIOUS
<1>2. /\ set'.next = <<>> /\ set'.reuse = <<>> /\ set'.count = 0
      /\ ~set'.running /\ ~set'.indexed
  BY DEF Items!NoSet
<1>3. Progress'
  BY <1>1, <1>2 DEF Progress
<1>4. Answered' /\ GivenOnce' /\ ChangeNoticed'
  BY <1>1, <1>2 DEF Answered, GivenOnce, ChangeNoticed
<1>5. MadeIndices' = {}
  BY <1>1 DEF MadeIndices
<1>6. Separate'
  BY <1>5 DEF Separate
<1> QED BY <1>3, <1>4, <1>6 DEF ItemsInv

(* A block starts with no items.                                            *)
LEMMA ItemsInit == ASSUME Items!ItemsConstants, Items!Init PROVE ItemsInv
<1>1. DOMAIN given = {} /\ Len(given) = 0 /\ DOMAIN items = {}
  BY DEF Items!Init
<1>2. /\ set.next = <<>> /\ set.reuse = <<>> /\ set.count = 0
      /\ ~set.running /\ ~set.indexed
  BY DEF Items!Init, Items!NoSet
<1>3. Progress /\ Identified
  BY <1>1, <1>2 DEF Progress, Identified, Items!Init
<1>4. Answered /\ GivenOnce /\ ChangeNoticed
  BY <1>1, <1>2 DEF Answered, GivenOnce, ChangeNoticed
<1>5. Separate
  BY <1>1 DEF Separate, MadeIndices, Items!Init
<1>6. ItemsTyped
  <2>1. <<>> \in Seq(Items!Item) /\ Len(items) = 0 /\ 0 <= ListLimit
    BY DEF Items!Init, Items!ItemsConstants
  <2>2. <<>> \in Seq((Ids \cup {NoId}) \X (States \cup {Hidden}))
    OBVIOUS
  <2> QED BY <2>1, <2>2, NoSetTyped DEF ItemsTyped, Items!Init
<1> QED BY <1>3, <1>4, <1>5, <1>6 DEF ItemsInv, Items!Init, Items!FrameCurrent

(* classify_set_argument.                                                   *)
LEMMA BeginSetInv ==
  ASSUME Items!ItemsConstants, ItemsInv, NEW list \in BOOLEAN,
         NEW count \in 0..ListLimit, Items!BeginSet(list, count)
  PROVE  ItemsInv'
<1> DEFINE begun == [Items!NoSet EXCEPT !.running = TRUE, !.list = list,
                       !.count = count, !.changed = count # Len(items)]
<1>1. given = <<>> /\ given' = <<>> /\ set' = begun /\ (list \/ count = 1)
      /\ UNCHANGED <<staging, faulted, items, list_mode, memory, render_dirty,
                     shown>>
  BY DEF ItemsInv, Progress, Items!BeginSet, Items!block
<1>2. DOMAIN given = {} /\ DOMAIN given' = {} /\ Len(given') = 0
  BY <1>1
<1>3. /\ begun.next = <<>> /\ begun.reuse = <<>> /\ begun.count = count
      /\ begun.running /\ ~begun.indexed /\ begun.list = list
      /\ begun.changed = (count # Len(items))
  BY DEF Items!NoSet
<1>4. begun \in Sets
  BY NoSetTyped DEF Sets
<1> HIDE DEF begun
<1>5. ItemsTyped'
  BY <1>1, <1>4 DEF ItemsInv, ItemsTyped
<1>6. Progress' /\ Identified'
  BY <1>1, <1>2, <1>3 DEF ItemsInv, Progress, Identified, Placed,
     Items!Instance, Items!Plain
<1>7. Answered' /\ GivenOnce' /\ ChangeNoticed'
  BY <1>1, <1>2, <1>3 DEF Answered, GivenOnce, ChangeNoticed
<1>8. MadeIndices = {} /\ MadeIndices' = {}
  BY <1>2 DEF MadeIndices
<1>9. Separate'
  BY <1>1, <1>8 DEF ItemsInv, Separate
<1> QED BY <1>1, <1>5, <1>6, <1>7, <1>9 DEF ItemsInv, Items!FrameCurrent

(* The memory of a list that is being made.                                 *)
LEMMA OwnedByMade ==
  ASSUME Items!ItemsConstants, ItemsInv
  PROVE  Items!Owned(set.next) = {set.next[i].cell : i \in MadeIndices}
<1>1. DOMAIN set.next = DOMAIN given
  BY DEF ItemsInv, ItemsTyped, Progress
<1>2. \A i \in DOMAIN given : i \notin MadeIndices =>
        set.next[i].cell = Items!Unmade.cell
  BY DEF ItemsInv, Answered, ReusedAt, MadeIndices
<1>3. \A i \in MadeIndices : set.next[i].cell # Items!Unmade.cell
  BY DEF ItemsInv, Answered, MadeAt, MadeIndices, Items!Item, Items!Unmade,
         Items!ItemsConstants
<1>4. MadeIndices \subseteq DOMAIN given
  BY DEF MadeIndices
<1> QED BY <1>1, <1>2, <1>3, <1>4 DEF Items!Owned

(* Whatever fails, the memory of what was made goes, and nothing else.      *)
LEMMA SetFailsInv ==
  ASSUME Items!ItemsConstants, ItemsInv, Items!SetFails
  PROVE  ItemsInv'
<1>1. set' = Items!NoSet /\ given' = <<>>
      /\ UNCHANGED <<staging, faulted, items, list_mode, render_dirty, shown>>
      /\ memory' = memory \ Items!Owned(set.next)
  BY DEF Items!SetFails
<1>2. Items!Owned(set.next) = {set.next[i].cell : i \in MadeIndices}
  BY OwnedByMade
<1>3. memory' = {items[i].cell : i \in DOMAIN items}
  BY <1>1, <1>2 DEF ItemsInv, Separate
<1>4. ItemsTyped'
  BY <1>1, NoSetTyped DEF ItemsInv, ItemsTyped
<1>5. Identified' /\ Items!FrameCurrent'
  BY <1>1 DEF ItemsInv, Identified, Placed, Items!Instance, Items!Plain,
     Items!FrameCurrent
<1>6. \A i, j \in DOMAIN items' : items'[i].cell = items'[j].cell => i = j
  BY <1>1 DEF ItemsInv, Separate
<1> QED BY <1>1, <1>3, <1>4, <1>5, <1>6, IdleKeeps

(* No item is reused twice.                                                 *)
LEMMA ReusedOnce ==
  ASSUME Answered, GivenOnce, Identified
  PROVE  \A i, j \in DOMAIN given :
           set.reuse[i] = set.reuse[j] /\ set.reuse[i] # 0 => i = j
<1> SUFFICES ASSUME NEW i \in DOMAIN given, NEW j \in DOMAIN given,
                    set.reuse[i] = set.reuse[j], set.reuse[i] # 0
             PROVE  i = j
  OBVIOUS
<1>1. ReusedAt(i) /\ ReusedAt(j)
  BY DEF Answered
<1>2. given[i][1] = given[j][1]
  BY <1>1 DEF ReusedAt
<1>3. CASE given[i][1] = NoId
  BY <1>1, <1>2, <1>3 DEF ReusedAt
<1>4. CASE given[i][1] # NoId
  BY <1>2, <1>4 DEF GivenOnce
<1> QED BY <1>3, <1>4

(* The list that a call leaves, if it succeeds.                             *)
NewItem(i) == IF set.reuse[i] # 0 THEN items[set.reuse[i]] ELSE set.next[i]

(* A new item is the one that was given, with the instance of its place.    *)
LEMMA NewItemRight ==
  ASSUME Items!ItemsConstants, ItemsInv, NEW i \in DOMAIN given
  PROVE  /\ NewItem(i) \in Items!Item
         /\ given[i] = <<NewItem(i).id, NewItem(i).state>>
         /\ Placed(NewItem(i), set.list, i)
         /\ NewItem(i).id # NoId => set.list
<1>1. /\ IF set.reuse[i] # 0 THEN ReusedAt(i) ELSE MadeAt(i)
      /\ given[i][1] # NoId => set.list
  BY DEF ItemsInv, Answered
<1>2. CASE set.reuse[i] = 0
  BY <1>1, <1>2 DEF MadeAt, NewItem
<1>3. CASE set.reuse[i] # 0
  <2> DEFINE r == set.reuse[i]
  <2>1. /\ r \in DOMAIN items /\ set.list = list_mode /\ NewItem(i) = items[r]
        /\ given[i] = <<items[r].id, items[r].state>>
        /\ given[i][1] = NoId => r = i
    BY <1>1, <1>3 DEF ReusedAt, NewItem
  <2>2. items[r] \in Items!Item
    BY <2>1 DEF ItemsInv, ItemsTyped
  <2>3. Placed(items[r], list_mode, r)
    BY <2>1 DEF ItemsInv, Identified
  <2>4. Placed(items[r], list_mode, i)
    BY <2>1, <2>3 DEF Placed, Items!Instance
  <2> QED BY <1>1, <2>1, <2>2, <2>4
<1> QED BY <1>2, <1>3

(* All states were good: the new list has all the memory but what the items *)
(* had that are not in it.                                                  *)
LEMMA SetDoneInv ==
  ASSUME Items!ItemsConstants, ItemsInv, Items!SetDone
  PROVE  ItemsInv'
<1> DEFINE new == [i \in 1..set.count |-> NewItem(i)]
           taken == {set.reuse[i] : i \in DOMAIN given}
<1>1. /\ items' = new /\ list_mode' = set.list
      /\ memory' = memory \ Items!Retired
      /\ set' = Items!NoSet /\ given' = <<>>
      /\ UNCHANGED <<staging, faulted>>
      /\ render_dirty' = (render_dirty \/ (set.changed /\ ~staging))
      /\ shown' = (shown /\ Items!Fragments' = Items!Fragments)
      /\ set.running
  BY DEF Items!SetDone, Items!Shows, NewItem
<1>2. /\ set \in Sets /\ set.count \in 0..ListLimit
      /\ DOMAIN given = 1..set.count /\ DOMAIN set.reuse = 1..set.count
      /\ ~set.list => set.count = 1
  <2>1. set \in Sets /\ set.count \in 0..ListLimit
        /\ set.reuse \in Seq(0..ListLimit)
    BY DEF ItemsInv, ItemsTyped, Sets
  <2>2. Len(given) = set.count /\ Len(set.reuse) = set.count
        /\ (~set.list => set.count = 1)
    BY DEF ItemsInv, Progress, Items!SetDone
  <2>3. given \in Seq((Ids \cup {NoId}) \X (States \cup {Hidden}))
    BY DEF ItemsInv, ItemsTyped
  <2> QED BY <2>1, <2>2, <2>3
<1>3. \A i \in 1..set.count :
        /\ new[i] \in Items!Item
        /\ given[i] = <<new[i].id, new[i].state>>
        /\ Placed(new[i], set.list, i)
        /\ new[i].id # NoId => set.list
  BY <1>2, NewItemRight
<1>4. DOMAIN new = 1..set.count /\ new \in Seq(Items!Item)
      /\ Len(new) = set.count
  <2>1. \A i \in 1..set.count : NewItem(i) \in Items!Item
    BY <1>3
  <2>2. new \in [1..set.count -> Items!Item]
    BY <2>1
  <2>3. set.count \in Nat
    BY <1>2 DEF Items!ItemsConstants
  <2> QED BY <2>2, <2>3
<1>5. Identified'
  <2>1. \A i, j \in 1..set.count :
          new[i].id = new[j].id /\ new[i].id # NoId => i = j
    <3> SUFFICES ASSUME NEW i \in 1..set.count, NEW j \in 1..set.count,
                        new[i].id = new[j].id, new[i].id # NoId
                 PROVE  i = j
      OBVIOUS
    <3> HIDE DEF new
    <3>1. given[i][1] = new[i].id /\ given[j][1] = new[j].id
      BY <1>3
    <3> QED BY <1>2, <3>1 DEF ItemsInv, GivenOnce
  <2> HIDE DEF new
  <2>2. \A i \in 1..set.count : Placed(items[i], list_mode, i)'
    BY <1>1, <1>3 DEF Placed, Items!Instance, Items!Plain
  <2> QED BY <1>1, <1>2, <1>3, <1>4, <2>1, <2>2 DEF Identified
<1>6. Items!Retired = {items[i].cell : i \in DOMAIN items \ taken}
  <2> DEFINE left == [i \in DOMAIN items |->
                        IF i \in Items!Range(set.reuse) THEN Items!Unmade
                        ELSE items[i]]
  <2>1. Items!Range(set.reuse) = taken
    BY <1>2 DEF Items!Range
  <2>2. \A i \in DOMAIN items : items[i].cell # Items!Unmade.cell
    <3>1. \A i \in DOMAIN items : items[i] \in Items!Item
      BY DEF ItemsInv, ItemsTyped
    <3>2. \A item \in Items!Item : item.cell # Items!Unmade.cell
      BY DEF Items!Item, Items!Unmade, Items!ItemsConstants
    <3> QED BY <3>1, <3>2
  <2>3. \A i \in DOMAIN items : left[i].cell =
          IF i \in taken THEN Items!Unmade.cell ELSE items[i].cell
    BY <2>1
  <2>4. Items!Owned(left) = {items[i].cell : i \in DOMAIN items \ taken}
    <3> HIDE DEF taken
    <3>1. DOMAIN left = DOMAIN items
      OBVIOUS
    <3> HIDE DEF left
    <3> QED BY <2>2, <2>3, <3>1 DEF Items!Owned
  <2> QED BY <2>4 DEF Items!Retired
<1>7. /\ memory' = {new[i].cell : i \in 1..set.count}
      /\ \A i, j \in 1..set.count : new[i].cell = new[j].cell => i = j
  <2>1. \A i \in MadeIndices : i \in 1..set.count /\ new[i] = set.next[i]
    BY <1>2 DEF MadeIndices, NewItem
  <2>2. \A i \in 1..set.count : i \notin MadeIndices =>
          /\ set.reuse[i] \in DOMAIN items /\ set.reuse[i] \in taken
          /\ new[i] = items[set.reuse[i]] /\ set.reuse[i] # 0
    BY <1>2 DEF MadeIndices, NewItem, ItemsInv, Answered, ReusedAt
  <2>3. \A r \in DOMAIN items \cap taken :
          \E i \in 1..set.count : i \notin MadeIndices /\ new[i] = items[r]
    <3> SUFFICES ASSUME NEW r \in DOMAIN items, r \in taken
                 PROVE  \E i \in 1..set.count :
                          i \notin MadeIndices /\ new[i] = items[r]
      OBVIOUS
    <3>1. PICK i \in 1..set.count : set.reuse[i] = r
      BY <1>2
    <3>2. r # 0
      BY DEF ItemsInv, ItemsTyped
    <3> QED BY <3>1, <3>2 DEF MadeIndices, NewItem
  <2>4. \A i, j \in 1..set.count :
          set.reuse[i] = set.reuse[j] /\ set.reuse[i] # 0 => i = j
    BY <1>2, ReusedOnce DEF ItemsInv
  <2> HIDE DEF new, taken
  <2>5. memory' = {new[i].cell : i \in 1..set.count}
    <3>1. \A c \in memory' : \E i \in 1..set.count : c = new[i].cell
      BY <1>1, <1>6, <2>1, <2>3 DEF ItemsInv, Separate
    <3>2. \A i \in 1..set.count : new[i].cell \in memory'
      <4> SUFFICES ASSUME NEW i \in 1..set.count PROVE new[i].cell \in memory'
        OBVIOUS
      <4>1. CASE i \in MadeIndices
        BY <1>1, <1>6, <2>1, <4>1 DEF ItemsInv, Separate
      <4>2. CASE i \notin MadeIndices
        BY <1>1, <1>6, <2>2, <4>2 DEF ItemsInv, Separate
      <4> QED BY <4>1, <4>2
    <3> QED BY <3>1, <3>2
  <2>6. \A i, j \in 1..set.count : new[i].cell = new[j].cell => i = j
    BY <2>1, <2>2, <2>4 DEF ItemsInv, Separate
  <2> QED BY <2>5, <2>6
<1>8. memory' \subseteq Cells
  BY <1>1 DEF ItemsInv, ItemsTyped
<1>9. ItemsTyped'
  <2>1. {staging', faulted', list_mode', render_dirty', shown'}
          \subseteq BOOLEAN
    <3>1. set.list \in BOOLEAN /\ set.changed \in BOOLEAN
      BY <1>2 DEF Sets
    <3> QED BY <1>1, <3>1 DEF ItemsInv, ItemsTyped
  <2> HIDE DEF new
  <2> QED BY <1>1, <1>2, <1>4, <1>8, <2>1, NoSetTyped DEF ItemsTyped
<1>10. Items!FrameCurrent'
  <2>1. CASE ~staging /\ ~render_dirty /\ ~set.changed
    <3>1. set.count = Len(items) /\ \A i \in 1..set.count : set.reuse[i] = i
      BY <1>1, <1>2, <2>1 DEF ItemsInv, ChangeNoticed
    <3>2. new = items
      <4>1. items \in Seq(Items!Item)
        BY DEF ItemsInv, ItemsTyped
      <4>2. \A i \in 1..set.count : NewItem(i) = items[i]
        BY <1>2, <3>1 DEF NewItem
      <4>3. items = [i \in 1..Len(items) |-> items[i]]
        BY <4>1
      <4> QED BY <3>1, <4>2, <4>3
    <3>3. UNCHANGED <<items, faulted>>
      BY <1>1, <3>2
    <3>4. Items!Fragments' = Items!Fragments
      BY <3>3 DEF Items!Fragments
    <3> QED BY <1>1, <2>1, <3>4 DEF ItemsInv, Items!FrameCurrent
  <2>2. CASE staging \/ render_dirty \/ set.changed
    BY <1>1, <2>2 DEF Items!FrameCurrent
  <2> QED BY <2>1, <2>2
<1> HIDE DEF new
<1> QED BY <1>1, <1>4, <1>5, <1>7, <1>9, <1>10, IdleKeeps

(* The old item a state is compared with is the only one with its id, or    *)
(* the one in its place.                                                    *)
LEMMA MatchFound ==
  ASSUME Items!ItemsConstants, ItemsInv, NEW id
  PROVE  /\ Items!Match(id) \in 0..ListLimit
         /\ Items!Match(id) # 0 =>
              /\ Items!Match(id) \in DOMAIN items
              /\ items[Items!Match(id)].id = id
              /\ set.list = list_mode
              /\ id = NoId => Items!Match(id) = Items!Index
              /\ Items!InPlace(id) => Items!Match(id) = Items!Index
<1> DEFINE old == IF ~Items!Reusable THEN {}
                  ELSE IF id = NoId THEN {Items!Index} \cap DOMAIN items
                  ELSE IF Items!InPlace(id) THEN {Items!Index}
                  ELSE DOMAIN items
           same == {i \in old : items[i].id = id}
<1>1. Items!Match(id) = IF same = {} THEN 0 ELSE CHOOSE i \in same : TRUE
  BY DEF Items!Match
<1>2. /\ DOMAIN items = 1..Len(items) /\ Len(items) \in Nat
      /\ Len(items) <= ListLimit /\ ListLimit \in Nat
      /\ Len(set.next) \in Nat
  BY DEF ItemsInv, ItemsTyped, Sets, Items!ItemsConstants
<1>3. CASE same = {}
  BY <1>1, <1>2, <1>3
<1>4. CASE same # {}
  <2> DEFINE m == Items!Match(id)
  <2>1. m \in old /\ items[m].id = id
    BY <1>1, <1>4
  <2> HIDE DEF m
  <2>2. Items!Reusable /\ m \in DOMAIN items
    BY <1>2, <2>1 DEF Items!InPlace, Items!Index
  <2>3. (id = NoId \/ Items!InPlace(id)) => m = Items!Index
    <3>1. Items!InPlace(id) => Items!Index \in DOMAIN items
      BY <1>2 DEF Items!InPlace, Items!Index
    <3> QED BY <2>1, <2>2, <3>1
  <2> QED BY <1>2, <2>1, <2>2, <2>3 DEF Items!Reusable, m
<1> QED BY <1>3, <1>4

(* The id of a new item is the one that was given.                          *)
LEMMA SeenGiven ==
  ASSUME ItemsInv
  PROVE  Items!Seen = {given[i][1] : i \in DOMAIN given} \ {NoId}
<1>1. DOMAIN set.next = DOMAIN given
  BY DEF ItemsInv, ItemsTyped, Progress, Sets
<1>2. \A i \in DOMAIN given : Items!NewId(i) = given[i][1]
  BY DEF ItemsInv, Answered, ReusedAt, MadeAt, Items!NewId
<1> QED BY <1>1, <1>2 DEF Items!Seen, ItemsInv, GivenOnce

(* The cells of some items.                                                *)
CellsOf(f, S) == {f[i].cell : i \in S}

(* As many cells as a set of indices has members, at the most.              *)
LEMMA CellsCounted ==
  ASSUME NEW f, NEW n \in Nat, NEW S \in SUBSET (1..n)
  PROVE  /\ IsFiniteSet(CellsOf(f, S))
         /\ Cardinality(CellsOf(f, S)) <= n
<1>1. IsFiniteSet(S) /\ Cardinality(S) <= n
  <2>1. IsFiniteSet(1..n) /\ Cardinality(1..n) = n
    BY FS_Interval
  <2> QED BY <2>1, FS_Subset
<1> DEFINE g == [i \in S |-> f[i].cell]
           T == {f[i].cell : i \in S}
<1>2. g \in Surjection(S, T)
  BY DEF Surjection
<1> HIDE DEF T
<1>3. IsFiniteSet(T) /\ Cardinality(T) <= Cardinality(S)
  BY <1>1, <1>2, FS_Surjection
<1>4. Cardinality(T) \in Nat /\ Cardinality(S) \in Nat
  BY <1>1, <1>3, FS_CardinalityType
<1> QED BY <1>1, <1>3, <1>4 DEF T, CellsOf

(* The sizes of sets that Items speaks of.                                  *)
LEMMA SameSizes ==
  \A S : /\ Items!IsFiniteSet(S) <=> IsFiniteSet(S)
         /\ Items!Cardinality(S) = Cardinality(S)
<1>1. \A S : Items!IsFiniteSet(S) <=> IsFiniteSet(S)
  BY DEF Items!IsFiniteSet, IsFiniteSet
<1>2. \A S : Items!Cardinality(S) = Cardinality(S)
  BY DEF Items!Cardinality, Cardinality
<1> QED BY <1>1, <1>2

(* There is room for the list being made beside the items.                  *)
LEMMA RoomLeft ==
  ASSUME Items!ItemsConstants, ItemsInv, Len(given) < set.count
  PROVE  Items!Free # {}
<1> DEFINE A == CellsOf(items, DOMAIN items)
           B == CellsOf(set.next, MadeIndices)
<1>1. memory = A \cup B
  BY DEF ItemsInv, Separate, CellsOf
<1>2. /\ Len(items) \in Nat /\ Len(items) <= ListLimit
      /\ DOMAIN items = 1..Len(items)
      /\ Len(given) \in Nat /\ DOMAIN given = 1..Len(given)
      /\ set.count \in 0..ListLimit /\ ListLimit \in Nat
  BY DEF ItemsInv, ItemsTyped, Sets, Items!ItemsConstants
<1>3. IsFiniteSet(A) /\ Cardinality(A) <= Len(items)
  BY <1>2, CellsCounted
<1>4. IsFiniteSet(B) /\ Cardinality(B) <= Len(given)
  <2>1. MadeIndices \in SUBSET (1..Len(given))
    BY <1>2 DEF MadeIndices
  <2> QED BY <1>2, <2>1, CellsCounted
<1> HIDE DEF A, B
<1>5. /\ IsFiniteSet(memory)
      /\ Cardinality(memory) <= Cardinality(A) + Cardinality(B)
  <2>1. /\ IsFiniteSet(A \cup B)
        /\ Cardinality(A \cup B) =
             Cardinality(A) + Cardinality(B) - Cardinality(A \cap B)
    BY <1>3, <1>4, FS_Union
  <2>2. /\ Cardinality(A) \in Nat /\ Cardinality(B) \in Nat
        /\ Cardinality(A \cap B) \in Nat
    BY <1>3, <1>4, FS_Intersection, FS_CardinalityType
  <2> QED BY <1>1, <2>1, <2>2
<1>6. /\ Cardinality(A) \in Nat /\ Cardinality(B) \in Nat
      /\ Cardinality(memory) \in Nat
  BY <1>3, <1>4, <1>5, FS_CardinalityType
<1>7. Cardinality(memory) < 2 * ListLimit
  BY <1>2, <1>3, <1>4, <1>5, <1>6
<1> SUFFICES ASSUME Cells \subseteq memory PROVE FALSE
  BY DEF Items!Free
<1>8. IsFiniteSet(Cells) /\ Cardinality(Cells) <= Cardinality(memory)
  BY <1>5, FS_Subset
<1>9. Cardinality(Cells) \in Nat /\ Cardinality(Cells) >= 2 * ListLimit
  BY <1>8, SameSizes, FS_CardinalityType DEF Items!ItemsConstants
<1> QED BY <1>2, <1>6, <1>7, <1>8, <1>9

(* One state more: it is found among the items and kept, or made anew.      *)
LEMMA ReconcileInv ==
  ASSUME Items!ItemsConstants, ItemsInv, NEW id \in Ids \cup {NoId},
         NEW state \in States \cup {Hidden}, Items!Reconcile(id, state)
  PROVE  ItemsInv'
<1>0. PICK k \in Nat : k = Len(given) + 1
  BY DEF ItemsInv, ItemsTyped
<1> DEFINE kept == Items!Kept(id, state)
           r == IF kept THEN Items!Match(id) ELSE 0
           cell == CHOOSE c \in Items!Free : TRUE
           x == IF kept THEN Items!Unmade ELSE Items!Made(id, state, cell)
           indexed == set.indexed \/ (id # NoId /\ ~Items!InPlace(id))
           ids == IF id # NoId /\ indexed THEN Items!Seen \cup {id}
                  ELSE set.new_ids
           changed == set.changed \/ ~kept \/ Items!Moved(id)
<1>1. /\ set.running /\ Items!Index <= set.count /\ (id # NoId => set.list)
      /\ ~Items!Duplicate(id)
      /\ given' = Append(given, <<id, state>>)
      /\ set' = [set EXCEPT !.reuse = Append(@, r), !.next = Append(@, x),
                            !.indexed = indexed, !.new_ids = ids,
                            !.changed = changed]
      /\ memory' = IF kept THEN memory ELSE memory \cup {cell}
      /\ UNCHANGED <<staging, faulted, items, list_mode, render_dirty, shown>>
  BY DEF Items!Reconcile
<1>2. /\ set \in Sets /\ items \in Seq(Items!Item)
      /\ given \in Seq((Ids \cup {NoId}) \X (States \cup {Hidden}))
      /\ Len(set.next) = k - 1 /\ Len(set.reuse) = k - 1
      /\ k \in Nat \ {0} /\ Items!Index = k /\ k <= set.count
      /\ set.count \in 0..ListLimit /\ ListLimit \in Nat
      /\ set.reuse \in Seq(0..ListLimit)
      /\ set.next \in Seq(Items!Item \cup {Items!Unmade})
  <2>1. set \in Sets /\ items \in Seq(Items!Item)
        /\ given \in Seq((Ids \cup {NoId}) \X (States \cup {Hidden}))
    BY DEF ItemsInv, ItemsTyped
  <2>2. Len(set.next) = Len(given) /\ Len(set.reuse) = Len(given)
    BY DEF ItemsInv, Progress
  <2>3. Len(given) \in Nat
    BY <2>1
  <2> QED BY <1>0, <1>1, <2>1, <2>2, <2>3
          DEF Sets, Items!Index, Items!ItemsConstants
<1>3. /\ r \in 0..ListLimit
      /\ kept => r # 0
      /\ ~kept => r = 0
      /\ r # 0 => /\ r \in DOMAIN items /\ items[r].id = id
                  /\ items[r].state = state /\ set.list = list_mode
                  /\ (id = NoId \/ Items!InPlace(id)) => r = k
  BY <1>0, <1>2, MatchFound DEF Items!Kept
<1>4. ~kept => /\ cell \in Cells /\ cell \notin memory
               /\ x \in Items!Item
               /\ x.id = id /\ x.state = state /\ x.cell = cell
               /\ Placed(x, set.list, k)
  <2>1. cell \in Items!Free
    BY <1>0, <1>2, RoomLeft
  <2>2. cell \in Cells /\ cell \notin memory
    BY <2>1 DEF Items!Free
  <2> DEFINE place == IF state = Hidden THEN Items!Plain
                      ELSE Items!Instance(set.list, id, k)
  <2>3. place \in {Items!Plain} \cup ({"id"} \X Ids)
                    \cup ({"place"} \X (1..ListLimit))
    BY <1>2 DEF Items!Instance
  <2>4. ~kept => x = [id |-> id, state |-> state, cell |-> cell,
                      instance |-> place]
    BY <1>2 DEF Items!Made
  <2> HIDE DEF x, place, cell, kept
  <2>5. ~kept => x \in Items!Item
    BY <2>2, <2>3, <2>4 DEF Items!Item
  <2> QED BY <2>2, <2>4, <2>5 DEF Placed, place
<1>5. kept => x = Items!Unmade
  OBVIOUS
<1>6. /\ set'.running = set.running /\ set'.list = set.list
      /\ set'.count = set.count /\ set'.reuse = Append(set.reuse, r)
      /\ set'.next = Append(set.next, x) /\ set'.indexed = indexed
      /\ set'.new_ids = ids /\ set'.changed = changed
      /\ set' \in Sets
  <2>1. indexed \in BOOLEAN /\ changed \in BOOLEAN
    BY <1>2 DEF Sets
  <2>2. ids \in SUBSET Ids
    <3>1. Items!Seen \in SUBSET Ids
      <4>1. \A i \in DOMAIN given : given[i][1] \in Ids \cup {NoId}
        BY <1>2
      <4> QED BY <4>1, SeenGiven
    <3> QED BY <1>2, <3>1 DEF Sets
  <2>3. x \in Items!Item \cup {Items!Unmade}
    BY <1>4, <1>5
  <2> HIDE DEF r, x, indexed, ids, changed
  <2>4. Append(set.reuse, r) \in Seq(0..ListLimit)
    BY <1>2, <1>3
  <2>5. Append(set.next, x) \in Seq(Items!Item \cup {Items!Unmade})
    BY <1>2, <2>3
  <2> QED BY <1>1, <1>2, <2>1, <2>2, <2>4, <2>5 DEF Sets
<1> HIDE DEF x, r, cell
<1>7. /\ DOMAIN given = 1..(k-1) /\ DOMAIN given' = 1..k /\ Len(given') = k
      /\ given'[k] = <<id, state>> /\ set'.reuse[k] = r /\ set'.next[k] = x
      /\ \A i \in 1..(k-1) : /\ given'[i] = given[i]
                             /\ set'.reuse[i] = set.reuse[i]
                             /\ set'.next[i] = set.next[i]
      /\ Len(set'.reuse) = k /\ Len(set'.next) = k
  <2>1. DOMAIN given = 1..(k-1) /\ DOMAIN given' = 1..k /\ Len(given') = k
        /\ given'[k] = <<id, state>>
        /\ \A i \in 1..(k-1) : given'[i] = given[i]
    BY <1>0, <1>1, <1>2
  <2>2. set'.reuse[k] = r /\ Len(set'.reuse) = k
        /\ \A i \in 1..(k-1) : set'.reuse[i] = set.reuse[i]
    BY <1>2, <1>6
  <2>3. set'.next[k] = x /\ Len(set'.next) = k
        /\ \A i \in 1..(k-1) : set'.next[i] = set.next[i]
    BY <1>2, <1>6
  <2> QED BY <2>1, <2>2, <2>3
<1>8. ItemsTyped'
  <2>1. memory' \subseteq Cells
    BY <1>1, <1>4 DEF ItemsInv, ItemsTyped
  <2>2. given' \in Seq((Ids \cup {NoId}) \X (States \cup {Hidden}))
    BY <1>1, <1>2
  <2> QED BY <1>1, <1>6, <2>1, <2>2 DEF ItemsInv, ItemsTyped
<1>9. Progress'
  BY <1>1, <1>2, <1>6, <1>7 DEF ItemsInv, Progress
<1>10. Identified'
  BY <1>1 DEF ItemsInv, Identified, Placed, Items!Instance, Items!Plain
<1>11. Answered'
  <2>1. \A i \in 1..(k-1) :
          /\ IF set.reuse[i] # 0 THEN ReusedAt(i) ELSE MadeAt(i)
          /\ given[i][1] # NoId => set.list
    BY <1>7 DEF ItemsInv, Answered
  <2>2. \A i \in 1..(k-1) :
          /\ IF set'.reuse[i] # 0 THEN ReusedAt(i)' ELSE MadeAt(i)'
          /\ given'[i][1] # NoId => set'.list
    <3> SUFFICES ASSUME NEW i \in 1..(k-1)
                 PROVE  /\ IF set'.reuse[i] # 0 THEN ReusedAt(i)'
                           ELSE MadeAt(i)'
                        /\ given'[i][1] # NoId => set'.list
      OBVIOUS
    <3>1. /\ given'[i] = given[i] /\ set'.reuse[i] = set.reuse[i]
          /\ set'.next[i] = set.next[i] /\ set'.list = set.list
          /\ items' = items /\ list_mode' = list_mode
      BY <1>1, <1>6, <1>7
    <3>2. ReusedAt(i) => ReusedAt(i)'
      BY <3>1 DEF ReusedAt, Items!Unmade, Items!Plain
    <3>3. MadeAt(i) => MadeAt(i)'
      BY <3>1 DEF MadeAt, Placed, Items!Instance, Items!Plain, Items!Item
    <3> QED BY <2>1, <3>1, <3>2, <3>3
  <2>3. IF set'.reuse[k] # 0 THEN ReusedAt(k)' ELSE MadeAt(k)'
    <3>1. CASE r # 0
      BY <1>1, <1>3, <1>5, <1>6, <1>7, <3>1 DEF ReusedAt, Items!Unmade
    <3>2. CASE r = 0
      BY <1>3, <1>4, <1>6, <1>7, <3>2
         DEF MadeAt, Placed, Items!Instance, Items!Plain, Items!Item
    <3> QED BY <1>7, <3>1, <3>2
  <2>4. given'[k][1] # NoId => set'.list
    BY <1>1, <1>6, <1>7
  <2>5. \A i \in 1..k : i = k \/ i \in 1..(k-1)
    BY <1>2
  <2> QED BY <1>7, <2>2, <2>3, <2>4, <2>5 DEF Answered
<1>12. GivenOnce'
  <2>1. \A i \in 1..k : i = k \/ i \in 1..(k-1)
    BY <1>2
  <2>2. id # NoId => \A i \in 1..(k-1) : given[i][1] # id
    <3> SUFFICES ASSUME id # NoId, NEW i \in 1..(k-1), given[i][1] = id
                 PROVE  FALSE
      OBVIOUS
    <3>1. Items!InPlace(id)
      BY <1>1, <1>7, SeenGiven DEF Items!Duplicate
    <3>2. ~set.indexed /\ k \in DOMAIN items /\ items[k].id = id
      BY <1>2, <3>1 DEF Items!InPlace
    <3>3. i \in DOMAIN items /\ items[i].id = id
      BY <1>7, <3>2 DEF ItemsInv, GivenOnce
    <3>4. i = k
      BY <3>2, <3>3 DEF ItemsInv, Identified
    <3> QED BY <1>2, <3>4
  <2>3. \A i, j \in DOMAIN given' :
          given'[i][1] = given'[j][1] /\ given'[i][1] # NoId => i = j
    <3>1. \A i, j \in 1..(k-1) :
            given[i][1] = given[j][1] /\ given[i][1] # NoId => i = j
      BY <1>7 DEF ItemsInv, GivenOnce
    <3> QED BY <1>7, <2>1, <2>2, <3>1
  <2>4. indexed =>
          ids = {given'[i][1] : i \in DOMAIN given'} \ {NoId}
    <3>1. {given'[i][1] : i \in DOMAIN given'} =
            {given[i][1] : i \in DOMAIN given} \cup {id}
      <4>1. \A i \in DOMAIN given' :
              given'[i][1] \in {given[j][1] : j \in DOMAIN given} \cup {id}
        BY <1>7, <2>1
      <4>2. \A i \in DOMAIN given : i \in DOMAIN given'
                                    /\ given[i][1] = given'[i][1]
        BY <1>2, <1>7
      <4>3. k \in DOMAIN given' /\ given'[k][1] = id
        BY <1>2, <1>7
      <4> QED BY <4>1, <4>2, <4>3
    <3>2. CASE id # NoId
      BY <3>1, <3>2, SeenGiven
    <3>3. CASE id = NoId
      BY <3>1, <3>3 DEF ItemsInv, GivenOnce
    <3> QED BY <3>2, <3>3
  <2>5. ~indexed => \A i \in DOMAIN given' :
          given'[i][1] # NoId => /\ set.list = list_mode
                                 /\ i \in DOMAIN items
                                 /\ items[i].id = given'[i][1]
    <3> SUFFICES ASSUME ~indexed, NEW i \in DOMAIN given', given'[i][1] # NoId
                 PROVE  /\ set.list = list_mode
                        /\ i \in DOMAIN items
                        /\ items[i].id = given'[i][1]
      OBVIOUS
    <3>1. CASE i \in 1..(k-1)
      BY <1>7, <3>1 DEF ItemsInv, GivenOnce
    <3>2. CASE i = k
      <4>1. Items!InPlace(id)
        BY <1>7, <3>2
      <4> QED BY <1>2, <1>7, <3>2, <4>1 DEF Items!InPlace, Items!Reusable
    <3> QED BY <1>7, <2>1, <3>1, <3>2
  <2> HIDE DEF indexed, ids
  <2> QED BY <1>1, <1>6, <2>3, <2>4, <2>5 DEF GivenOnce
<1>13. Separate'
  <2>3. /\ memory = {items[i].cell : i \in DOMAIN items}
                       \cup {set.next[i].cell : i \in MadeIndices}
        /\ \A i, j \in DOMAIN items : items[i].cell = items[j].cell => i = j
        /\ \A i, j \in MadeIndices :
             set.next[i].cell = set.next[j].cell => i = j
        /\ \A i \in DOMAIN items, j \in MadeIndices :
             items[i].cell # set.next[j].cell
    BY DEF ItemsInv, Separate
  <2>4. items' = items
    BY <1>1
  <2>5. {items'[i].cell : i \in DOMAIN items'} =
          {items[i].cell : i \in DOMAIN items}
    BY <2>4
  <2>1. CASE kept
    <3>1. MadeIndices' = MadeIndices
      <4>1. r # 0
        BY <1>3, <2>1
      <4>2. \A i \in 1..k : i = k \/ i \in 1..(k-1)
        BY <1>2
      <4> QED BY <1>2, <1>7, <4>1, <4>2 DEF MadeIndices
    <3>2. \A i \in MadeIndices : set'.next[i] = set.next[i]
      BY <1>7 DEF MadeIndices
    <3>3. memory' = memory
      BY <1>1, <2>1
    <3>4. {set'.next[i].cell : i \in MadeIndices'} =
            {set.next[i].cell : i \in MadeIndices}
      BY <3>1, <3>2
    <3>5. memory' = {items'[i].cell : i \in DOMAIN items'}
                      \cup {set'.next[i].cell : i \in MadeIndices'}
      BY <2>3, <2>5, <3>3, <3>4
    <3>6. /\ \A i, j \in DOMAIN items' :
               items'[i].cell = items'[j].cell => i = j
          /\ \A i, j \in MadeIndices' :
               set'.next[i].cell = set'.next[j].cell => i = j
          /\ \A i \in DOMAIN items', j \in MadeIndices' :
               items'[i].cell # set'.next[j].cell
      BY <2>3, <2>4, <3>1, <3>2
    <3> QED BY <3>5, <3>6 DEF Separate
  <2>2. CASE ~kept
    <3>1. MadeIndices' = MadeIndices \cup {k} /\ k \notin MadeIndices
      <4>1. r = 0
        BY <1>3, <2>2
      <4>2. \A i \in 1..k : i = k \/ i \in 1..(k-1)
        BY <1>2
      <4> QED BY <1>2, <1>7, <4>1, <4>2 DEF MadeIndices
    <3>2. \A i \in MadeIndices : set'.next[i] = set.next[i]
      BY <1>7 DEF MadeIndices
    <3>3. memory' = memory \cup {cell} /\ cell \notin memory
          /\ set'.next[k].cell = cell
      BY <1>1, <1>4, <1>7, <2>2
    <3>4. \A i \in MadeIndices : set.next[i].cell \in memory
      BY DEF ItemsInv, Separate
    <3>5. \A i \in DOMAIN items : items[i].cell \in memory
      BY DEF ItemsInv, Separate
    <3>6. {set'.next[i].cell : i \in MadeIndices'} =
            {set.next[i].cell : i \in MadeIndices} \cup {cell}
      BY <3>1, <3>2, <3>3
    <3>7. memory' = {items'[i].cell : i \in DOMAIN items'}
                      \cup {set'.next[i].cell : i \in MadeIndices'}
      BY <2>3, <2>5, <3>3, <3>6
    <3>8. \A i, j \in MadeIndices' :
            set'.next[i].cell = set'.next[j].cell => i = j
      BY <2>3, <3>1, <3>2, <3>3, <3>4
    <3>9. \A i \in DOMAIN items', j \in MadeIndices' :
            items'[i].cell # set'.next[j].cell
      <4> SUFFICES ASSUME NEW i \in DOMAIN items, NEW j \in MadeIndices'
                   PROVE  items[i].cell # set'.next[j].cell
        BY <1>1
      <4>1. CASE j = k
        BY <3>3, <3>5, <4>1
      <4>2. CASE j \in MadeIndices
        BY <3>2, <4>2 DEF ItemsInv, Separate
      <4> QED BY <3>1, <4>1, <4>2
    <3>10. \A i, j \in DOMAIN items' : items'[i].cell = items'[j].cell => i = j
      BY <1>1 DEF ItemsInv, Separate
    <3> QED BY <3>7, <3>8, <3>9, <3>10 DEF Separate
  <2> QED BY <2>1, <2>2
<1>14. ChangeNoticed'
  <2> SUFFICES ASSUME set'.running, ~set'.changed
               PROVE  /\ set'.count = Len(items')
                      /\ \A i \in DOMAIN given' : set'.reuse[i] = i
    BY DEF ChangeNoticed
  <2>1. ~set.changed /\ kept /\ Items!Match(id) = k
    BY <1>2, <1>6 DEF Items!Moved
  <2>2. set.count = Len(items) /\ \A i \in 1..(k-1) : set.reuse[i] = i
    BY <1>1, <1>7, <2>1 DEF ItemsInv, ChangeNoticed
  <2>3. r = k
    BY <2>1 DEF r
  <2>4. \A i \in 1..k : i = k \/ i \in 1..(k-1)
    BY <1>2
  <2> QED BY <1>1, <1>6, <1>7, <2>2, <2>3, <2>4
<1>15. Items!FrameCurrent'
  BY <1>1 DEF ItemsInv, Items!FrameCurrent
<1> QED BY <1>8, <1>9, <1>10, <1>11, <1>12, <1>13, <1>14, <1>15 DEF ItemsInv

(* A fault, a commit and a reload leave a block without items.              *)
LEMMA ClearedInv ==
  ASSUME Items!ItemsConstants, ItemsInv, ~set.running,
         Items!Fault \/ Items!Commit \/ Items!Reload
  PROVE  ItemsInv'
<1>1. set = Items!NoSet /\ given = <<>>
  BY DEF ItemsInv, Progress
<1>2. set' = Items!NoSet /\ given' = <<>> /\ items' = <<>>
  BY <1>1 DEF Items!Fault, Items!Commit, Items!Reload
<1>3. MadeIndices = {}
  BY <1>1 DEF MadeIndices
<1>4. memory' = {}
  <2>1. CASE Items!Reload
    BY <2>1 DEF Items!Reload
  <2>2. CASE memory' = memory \ Items!Owned(items)
    BY <2>2, <1>3, OwnedByItems DEF ItemsInv, ItemsTyped, Separate
  <2> QED BY <2>1, <2>2 DEF Items!Fault, Items!Commit
<1>5. {staging', faulted', list_mode', render_dirty', shown'} \subseteq BOOLEAN
  BY DEF ItemsInv, ItemsTyped, Items!Fault, Items!Commit, Items!Reload,
         Items!Shows
<1>6. Items!FrameCurrent'
  BY DEF Items!Fault, Items!Commit, Items!Reload, Items!FrameCurrent
<1>7. DOMAIN items' = {} /\ Len(items') = 0
  BY <1>2
<1>8. ItemsTyped'
  BY <1>1, <1>2, <1>4, <1>5, <1>7
     DEF ItemsInv, ItemsTyped, Items!ItemsConstants
<1>9. Identified'
  BY <1>7 DEF Identified
<1> QED BY <1>2, <1>4, <1>6, <1>7, <1>8, <1>9, IdleKeeps

(* render_status.                                                           *)
LEMMA RenderInv ==
  ASSUME ItemsInv, Items!Render
  PROVE  ItemsInv'
<1>1. shown' = TRUE /\ render_dirty' = FALSE
      /\ UNCHANGED <<staging, faulted, items, list_mode, memory, set, given>>
  BY DEF Items!Render
<1>2. ItemsTyped' /\ Items!FrameCurrent'
  BY <1>1 DEF ItemsInv, ItemsTyped, Items!FrameCurrent
<1>3. Progress' /\ Identified'
  BY <1>1 DEF ItemsInv, Progress, Identified, Placed, Items!Instance,
     Items!Plain, Items!NoSet
<1>4. Answered' /\ GivenOnce' /\ ChangeNoticed'
  BY <1>1 DEF ItemsInv, Answered, ReusedAt, MadeAt, Placed, Items!Instance,
     Items!Plain, Items!Item, Items!Unmade, GivenOnce, ChangeNoticed
<1>5. Separate'
  BY <1>1 DEF ItemsInv, Separate, MadeIndices
<1> QED BY <1>2, <1>3, <1>4, <1>5 DEF ItemsInv

(* Steps elsewhere.                                                         *)
LEMMA ItemsStutter == ASSUME ItemsInv, UNCHANGED item_vars PROVE ItemsInv'
<1>1. UNCHANGED <<staging, faulted, items, list_mode, memory, render_dirty,
                  set, given, shown>>
  BY DEF item_vars
<1>2. ItemsTyped' /\ Items!FrameCurrent'
  BY <1>1 DEF ItemsInv, ItemsTyped, Items!FrameCurrent
<1>3. Progress' /\ Identified'
  BY <1>1 DEF ItemsInv, Progress, Identified, Placed, Items!Instance,
     Items!Plain, Items!NoSet
<1>4. Answered' /\ GivenOnce' /\ ChangeNoticed'
  BY <1>1 DEF ItemsInv, Answered, ReusedAt, MadeAt, Placed, Items!Instance,
     Items!Plain, Items!Item, Items!Unmade, GivenOnce, ChangeNoticed
<1>5. Separate'
  BY <1>1 DEF ItemsInv, Separate, MadeIndices
<1> QED BY <1>2, <1>3, <1>4, <1>5 DEF ItemsInv

LEMMA ItemsNext ==
  ASSUME Items!ItemsConstants, ItemsInv, Items!Next
  PROVE  ItemsInv'
<1>1. CASE \E list \in BOOLEAN, count \in 0..ListLimit :
             Items!BeginSet(list, count)
  BY <1>1, BeginSetInv
<1>2. CASE \E id \in Ids \cup {NoId}, state \in States \cup {Hidden} :
             Items!Reconcile(id, state)
  BY <1>2, ReconcileInv
<1>3. CASE Items!SetDone
  BY <1>3, SetDoneInv
<1>4. CASE Items!SetFails
  BY <1>4, SetFailsInv
<1>5. CASE Items!Render
  BY <1>5, RenderInv
<1>6. CASE Items!Fault \/ Items!Commit \/ Items!Reload
  <2>1. ~set.running
    BY <1>6 DEF Items!Fault, Items!Commit, Items!Reload
  <2> QED BY <1>6, <2>1, ClearedInv
<1> QED BY <1>1, <1>2, <1>3, <1>4, <1>5, <1>6 DEF Items!Next

(* As many cells as items that have one each.                               *)
LEMMA CellsOfEach ==
  ASSUME NEW f, NEW n \in Nat,
         \A i, j \in 1..n : f[i].cell = f[j].cell => i = j
  PROVE  /\ IsFiniteSet(CellsOf(f, 1..n))
         /\ Cardinality(CellsOf(f, 1..n)) = n
<1> DEFINE T == {f[i].cell : i \in 1..n}
           g == [i \in 1..n |-> f[i].cell]
<1>1. g \in Surjection(1..n, T)
  BY DEF Surjection
<1>2. g \in Injection(1..n, T)
  BY DEF Injection, IsInjective
<1>3. IsFiniteSet(1..n) /\ Cardinality(1..n) = n
  BY FS_Interval
<1> HIDE DEF T, g
<1>4. IsFiniteSet(T) /\ Cardinality(T) = n
  BY <1>1, <1>2, <1>3, FS_Surjection
<1> QED BY <1>4 DEF T, CellsOf

LEMMA ItemsMemoryOwned ==
  ASSUME Items!ItemsConstants, ItemsInv
  PROVE  Items!MemoryOwned
<1> DEFINE A == CellsOf(items, DOMAIN items)
           B == CellsOf(set.next, MadeIndices)
<1>1. Items!Owned(items) = A
  BY OwnedByItems DEF ItemsInv, ItemsTyped, CellsOf
<1>2. Items!Owned(set.next) = B
  BY OwnedByMade DEF CellsOf
<1>3. memory = A \cup B /\ A \cap B = {}
  BY DEF ItemsInv, Separate, CellsOf
<1>4. IsFiniteSet(A) /\ Cardinality(A) = Len(items)
  <2>1. Len(items) \in Nat /\ DOMAIN items = 1..Len(items)
    BY DEF ItemsInv, ItemsTyped
  <2>2. \A i, j \in 1..Len(items) : items[i].cell = items[j].cell => i = j
    BY <2>1 DEF ItemsInv, Separate
  <2> QED BY <2>1, <2>2, CellsOfEach
<1>5. IsFiniteSet(B)
  <2>1. MadeIndices \in SUBSET (1..Len(given)) /\ Len(given) \in Nat
    BY DEF ItemsInv, ItemsTyped, MadeIndices
  <2> QED BY <2>1, CellsCounted
<1> HIDE DEF A, B
<1>6. Cardinality(memory) = Cardinality(A) + Cardinality(B)
  <2>1. Cardinality(A \cup B) =
          Cardinality(A) + Cardinality(B) - Cardinality(A \cap B)
    BY <1>4, <1>5, FS_Union
  <2>2. Cardinality(A \cap B) = 0
    BY <1>3, FS_EmptySet
  <2>3. Cardinality(A) \in Nat /\ Cardinality(B) \in Nat
    BY <1>4, <1>5, FS_CardinalityType
  <2> QED BY <1>3, <2>1, <2>2, <2>3
<1>7. Cardinality(memory) = Len(items) + Cardinality(Items!Owned(set.next))
  BY <1>2, <1>4, <1>6
<1> QED BY <1>1, <1>2, <1>3, <1>7, SameSizes DEF Items!MemoryOwned

LEMMA ItemsClicksFind ==
  ASSUME ItemsInv
  PROVE  Items!ClicksFind
<1> SUFFICES ASSUME NEW i \in DOMAIN items, Items!Visible(items[i])
             PROVE  Items!Found(items[i].instance) = {i}
  BY DEF Items!ClicksFind
<1>1. items[i].instance = Items!Instance(list_mode, items[i].id, i)
  BY DEF ItemsInv, Identified, Placed, Items!Visible
<1>2. DOMAIN items = 1..Len(items) /\ Len(items) \in Nat
      /\ list_mode \in BOOLEAN
  BY DEF ItemsInv, ItemsTyped
<1>3. CASE ~list_mode
  <2>1. Len(items) = 1 /\ i = 1
    BY <1>2, <1>3 DEF ItemsInv, Identified
  <2> QED BY <1>1, <1>2, <1>3, <2>1 DEF Items!Found, Items!Instance
<1>4. CASE list_mode /\ items[i].id # NoId
  <2>1. items[i].instance = <<"id", items[i].id>>
    BY <1>1, <1>4 DEF Items!Instance
  <2>2. \A j \in DOMAIN items : items[j].id = items[i].id => j = i
    BY <1>4 DEF ItemsInv, Identified
  <2> QED BY <1>4, <2>1, <2>2 DEF Items!Found
<1>5. CASE list_mode /\ items[i].id = NoId
  <2>1. items[i].instance = <<"place", i>>
    BY <1>1, <1>5 DEF Items!Instance
  <2> QED BY <1>5, <2>1 DEF Items!Found
<1> QED BY <1>2, <1>3, <1>4, <1>5

LEMMA ItemsAreAtomic ==
  ASSUME Items!ItemsConstants, ItemsInv
  PROVE  Items!SetAtomic
<1>1. Items!SetExactly
  BY DEF Items!SetExactly, Items!NewId, ItemsInv, Answered, ReusedAt, MadeAt
<1> QED BY <1>1, ItemsMemoryOwned, ItemsClicksFind
        DEF Items!SetAtomic, ItemsInv

(* ctx:set is all or nothing (main.c), for every number of items, any ids   *)
(* and states.                                                              *)
THEOREM SetStaysAtomic == Spec => []SetAtomic
<1> DEFINE Inv == kind = "items" => ItemsInv
<1> USE SourcesAssumption
<1>1. Init => Inv
  BY ItemsInit DEF Init
<1>2. Inv /\ [Next]_vars => Inv'
  <2> SUFFICES ASSUME Inv, [Next]_vars, kind' = "items" PROVE ItemsInv'
    OBVIOUS
  <2>1. kind = "items" /\ (Items!Next \/ UNCHANGED item_vars)
    BY DEF Next, SourceStep, FeedStep, ItemStep, ClickStep, vars
  <2> QED BY <2>1, ItemsNext, ItemsStutter
<1>3. Inv => SetAtomic
  BY ItemsAreAtomic DEF SetAtomic
<1> QED BY <1>1, <1>2, <1>3, PTL DEF Spec

-----------------------------------------------------------------------------
(* Clicks.  The proof about the framer speaks of the same module.           *)

Framer == INSTANCE ClicksProofs

LEMMA SameFramer ==
  /\ Clicks!ClicksConstants => Framer!ClicksConstants
  /\ Clicks!Init => Framer!Init
  /\ [Clicks!Next]_(Clicks!vars) => [Framer!Next]_(Framer!vars)
  /\ Framer!ClicksFramed => Clicks!ClicksFramed
<1>1. Clicks!ClicksConstants => Framer!ClicksConstants
  BY DEF Clicks!ClicksConstants, Framer!ClicksConstants
<1>2. Clicks!Init => Framer!Init
  BY DEF Clicks!Init, Framer!Init, Clicks!Fresh, Framer!Fresh, Clicks!NewBar,
         Framer!NewBar, Clicks!NoEvent, Framer!NoEvent
<1>3. [Clicks!Next]_(Clicks!vars) => [Framer!Next]_(Framer!vars)
  BY DEF Clicks!vars, Framer!vars, Clicks!NoEvent, Framer!NoEvent,
         Clicks!Fresh, Framer!Fresh, Clicks!Goes, Framer!Goes,
         Clicks!Irrecoverable, Framer!Irrecoverable, Clicks!Spaces,
         Framer!Spaces, Clicks!Opening, Framer!Opening, Clicks!Closing,
         Framer!Closing, Clicks!Kept, Framer!Kept, Clicks!EndsString,
         Framer!EndsString, Clicks!InString, Framer!InString, Clicks!Opened,
         Framer!Opened, Clicks!Reset, Framer!Reset, Clicks!ClosedTo,
         Framer!ClosedTo, Clicks!InEvent, Framer!InEvent, Clicks!Feed,
         Framer!Feed, Clicks!NewBar, Framer!NewBar, Clicks!Partner,
         Framer!Partner, Clicks!Between, Framer!Between, Clicks!Within,
         Framer!Within, Clicks!InText, Framer!InText, Clicks!Following,
         Framer!Following, Clicks!Written, Framer!Written, Clicks!Brackets,
         Framer!Brackets, Clicks!Fits, Framer!Fits, Clicks!Write,
         Framer!Write, Clicks!Garble, Framer!Garble, Clicks!Babble,
         Framer!Babble, Clicks!Bytes, Framer!Bytes, Clicks!Read, Framer!Read,
         Clicks!Next, Framer!Next
<1>4. Framer!ClicksFramed => Clicks!ClicksFramed
  BY DEF Clicks!ClicksFramed, Framer!ClicksFramed
<1> QED BY <1>1, <1>2, <1>3, <1>4

(* Every event of the bar within the limits is dispatched, and nothing else *)
(* is (click.c), whatever the limits are.                                   *)
THEOREM ClicksStayFramed == Spec => []ClicksFramed
<1> DEFINE Inv == kind = "clicks" => Framer!IInv
<1> USE SourcesAssumption
<1>1. Init => Inv
  BY SameFramer, Framer!IInvInit DEF Init
<1>2. Inv /\ [Next]_vars => Inv'
  <2> SUFFICES ASSUME Inv, [Next]_vars, kind' = "clicks" PROVE Framer!IInv'
    OBVIOUS
  <2>1. kind = "clicks" /\ (Clicks!Next \/ UNCHANGED click_vars)
    BY DEF Next, SourceStep, FeedStep, ItemStep, ClickStep, vars
  <2>2. [Clicks!Next]_(Clicks!vars)
    BY <2>1 DEF click_vars, Clicks!vars
  <2> QED BY <2>1, <2>2, SameFramer, Framer!IInvNext
<1>3. Inv => ClicksFramed
  <2> SUFFICES ASSUME Inv, kind = "clicks" PROVE Clicks!ClicksFramed
    BY DEF ClicksFramed
  <2> QED BY SameFramer DEF Framer!IInv
<1> QED BY <1>1, <1>2, <1>3, PTL DEF Spec

-----------------------------------------------------------------------------
(* Directory feeds.                                                         *)

(* The state of a feed, and the events the kernel queues.                   *)
FeedState ==
  [wd : Wds \cup {NoWd}, items : [FileNames -> Data \cup {Nothing}],
   overflowed : BOOLEAN, cancelled : BOOLEAN]

FileKinds == {"changed", "removed"}
Events ==
  [kind : FileKinds, wd : Wds \cup {NoWd}, name : FileNames]
    \cup [kind : Feed!Kinds \ FileKinds, wd : Wds \cup {NoWd},
          name : {Nothing}]

FeedTyped ==
  /\ files \in [FileNames -> Data \cup {Nothing}]
  /\ pathwd \in kernel \cup {NoWd}
  /\ config_watch \in Wds
  /\ feed \in [Feed!Feeds -> FeedState]
  /\ listed \subseteq FileNames
  /\ event \in Events

(* A full queue has room for one overflow event more.                       *)
QueueFits(q) ==
  /\ q \in Seq(Events)
  /\ \/ Len(q) <= QueueMax
     \/ Len(q) = QueueMax + 1 /\ \E i \in DOMAIN q : q[i] = Feed!Overflow

HoldersAt(fd, wd) == {f \in Feed!Feeds : fd[f].wd = wd}

HoldersIn(fd, c, wd) ==
  Cardinality(HoldersAt(fd, wd))
  + (IF c = wd THEN 1 ELSE 0)

(* The table k counts its holders: the feeds fd and the configuration,      *)
(* which holds c.  The kernel has no other watches, and none of those it    *)
(* says are gone.                                                           *)
Balanced(k, fd, c) ==
  /\ k = [watches |-> k.watches, kernel |-> k.kernel, queue |-> k.queue]
  /\ k.watches \in [DOMAIN k.watches -> Nat]
  /\ DOMAIN k.watches \subseteq Wds
  /\ IsFiniteSet(DOMAIN k.watches)
  /\ Cardinality(DOMAIN k.watches) <= MaxWatches
  /\ k.kernel \subseteq DOMAIN k.watches
  /\ QueueFits(k.queue)
  /\ \A i \in DOMAIN k.queue :
       k.queue[i].kind = "ignored" => k.queue[i].wd \notin k.kernel
  /\ \A wd \in DOMAIN k.watches : k.watches[wd] = HoldersIn(fd, c, wd)

(* Where the loop is, and which feeds may have watches there.               *)
Activating == {"mkdir", "open", "watch"}
Scanning == {"check", "list", "refresh"}

FeedPlaces ==
  /\ pc \in {"idle", "events", "commit", "destroy"} \cup Activating
              \cup Scanning
  /\ back \in {"events", "commit"}
  /\ pc \in {"idle", "events"} => back = "events"
  /\ pc \in {"commit", "destroy"} => back = "commit"
  /\ pc = "idle" => todo = {}
  /\ todo \subseteq
       IF pc = "destroy" THEN Feed!Feeds \ Feed!Live ELSE Feed!Live
  /\ pc \in Activating \cup Scanning =>
       self \in Feed!Live /\ self \notin todo /\ ~feed[self].cancelled
  /\ pc \in Activating => feed[self].wd = NoWd
  /\ back = "events" \/ pc = "destroy" =>
       \A f \in Feed!Feeds \ (Feed!Live \cup todo) : feed[f].wd = NoWd
  /\ back = "commit" /\ pc # "destroy" =>
       \A f \in todo : feed[f].wd = NoWd /\ ~feed[f].cancelled

(* A watch the kernel has said is gone does not come back before all who    *)
(* had it were told.                                                        *)
GoneForNow ==
  event.kind = "ignored" =>
    back = "events" /\ pc # "idle" /\ event.wd \notin DOMAIN watches

Tracked ==
  \A f \in Feed!Feeds : feed[f].wd # NoWd =>
    \/ feed[f].wd \in DOMAIN watches
    \/ event.kind = "ignored" /\ feed[f].wd = event.wd /\ f \in todo

CancelledEmpty ==
  \A f \in Feed!Feeds :
    feed[f].cancelled => feed[f].wd = NoWd /\ Feed!Shown(feed[f]) = {}

FeedInv ==
  /\ FeedTyped /\ Balanced(Feed!registry, feed, config_watch)
  /\ FeedPlaces /\ GoneForNow /\ Tracked /\ CancelledEmpty

-----------------------------------------------------------------------------
(* The sizes of sets that DirectoryFeed speaks of.                          *)
LEMMA FeedSizes ==
  \A S : /\ Feed!IsFiniteSet(S) <=> IsFiniteSet(S)
         /\ Feed!Cardinality(S) = Cardinality(S)
<1>1. \A S : Feed!IsFiniteSet(S) <=> IsFiniteSet(S)
  BY DEF Feed!IsFiniteSet, IsFiniteSet
<1>2. \A S : Feed!Cardinality(S) = Cardinality(S)
  BY DEF Feed!Cardinality, Cardinality
<1> QED BY <1>1, <1>2

(* Another event leaves a queue that fits, with no other new events.        *)
LEMMA QueueKept ==
  ASSUME Feed!DirectoryFeedConstants, NEW q, QueueFits(q), NEW e \in Events
  PROVE  /\ QueueFits(Feed!Notified(q, e))
         /\ \A i \in DOMAIN Feed!Notified(q, e) :
              \/ Feed!Notified(q, e)[i] \in {e, Feed!Overflow}
              \/ \E j \in DOMAIN q : Feed!Notified(q, e)[i] = q[j]
<1> USE DEF QueueFits
<1>1. Feed!Overflow \in Events
  BY DEF Feed!Overflow, Feed!Event, Events, FileKinds, Feed!Kinds
<1>2. QueueMax \in Nat
  BY DEF Feed!DirectoryFeedConstants
<1>3. CASE Feed!Notified(q, e) = q
  BY <1>3
<1>4. CASE Len(q) < QueueMax /\ Feed!Notified(q, e) = Append(q, e)
  <2>1. Append(q, e) \in Seq(Events) /\ Len(Append(q, e)) <= QueueMax
    BY <1>2, <1>4
  <2>2. \A i \in DOMAIN Append(q, e) :
          Append(q, e)[i] = e \/ \E j \in DOMAIN q : Append(q, e)[i] = q[j]
    OBVIOUS
  <2> QED BY <1>4, <2>1, <2>2
<1>5. CASE /\ ~ \E i \in DOMAIN q : q[i] = Feed!Overflow
           /\ ~ Len(q) < QueueMax
           /\ Feed!Notified(q, e) = Append(q, Feed!Overflow)
  <2>1. Len(q) = QueueMax
    BY <1>2, <1>5
  <2> DEFINE q2 == Append(q, Feed!Overflow)
  <2>2. q2 \in Seq(Events) /\ Len(q2) = QueueMax + 1
    BY <1>1, <2>1
  <2>3. q2[QueueMax + 1] = Feed!Overflow /\ QueueMax + 1 \in DOMAIN q2
    BY <1>2, <2>1, <2>2
  <2>4. \A i \in DOMAIN q2 :
          q2[i] = Feed!Overflow \/ \E j \in DOMAIN q : q2[i] = q[j]
    OBVIOUS
  <2> QED BY <1>5, <2>2, <2>3, <2>4
<1> QED BY <1>3, <1>4, <1>5 DEF Feed!Notified

(* How many feeds hold a watch, when one of them changes its mind.          *)
LEMMA HoldersCounted ==
  ASSUME Feed!DirectoryFeedConstants, NEW fd, NEW c, NEW wd
  PROVE  /\ IsFiniteSet(HoldersAt(fd, wd))
         /\ Cardinality(HoldersAt(fd, wd)) \in Nat
         /\ HoldersIn(fd, c, wd) \in Nat
<1> DEFINE S == HoldersAt(fd, wd)
<1>1. IsFiniteSet(Feed!Feeds)
  BY FeedSizes DEF Feed!DirectoryFeedConstants, Feed!Feeds
<1>2. IsFiniteSet(S)
  BY <1>1, FS_Subset DEF HoldersAt
<1>3. Cardinality(S) \in Nat
  BY <1>2, FS_CardinalityType
<1> QED BY <1>2, <1>3 DEF HoldersIn

OthersStay(f, fd, fd2) ==
  \A g \in Feed!Feeds \ {f} : fd2[g].wd = fd[g].wd

LEMMA HolderMoves ==
  ASSUME Feed!DirectoryFeedConstants, NEW fd, NEW fd2, NEW c,
         NEW f \in Feed!Feeds, fd2[f].wd # fd[f].wd,
         OthersStay(f, fd, fd2)
  PROVE  /\ \A wd : wd # fd[f].wd /\ wd # fd2[f].wd =>
              HoldersIn(fd2, c, wd) = HoldersIn(fd, c, wd)
         /\ HoldersIn(fd2, c, fd[f].wd) = HoldersIn(fd, c, fd[f].wd) - 1
         /\ HoldersIn(fd2, c, fd2[f].wd) = HoldersIn(fd, c, fd2[f].wd) + 1
<1> USE DEF OthersStay
<1>1. ASSUME NEW wd, wd # fd[f].wd, wd # fd2[f].wd
      PROVE  HoldersIn(fd2, c, wd) = HoldersIn(fd, c, wd)
  <2>1. HoldersAt(fd2, wd) = HoldersAt(fd, wd)
    BY <1>1 DEF HoldersAt
  <2> QED BY <2>1 DEF HoldersIn
<1>2. HoldersIn(fd2, c, fd[f].wd) = HoldersIn(fd, c, fd[f].wd) - 1
  <2>1. /\ HoldersAt(fd2, fd[f].wd) = HoldersAt(fd, fd[f].wd) \ {f}
        /\ f \in HoldersAt(fd, fd[f].wd)
    BY DEF HoldersAt
  <2>2. /\ IsFiniteSet(HoldersAt(fd, fd[f].wd))
        /\ Cardinality(HoldersAt(fd, fd[f].wd)) \in Nat
    BY HoldersCounted
  <2>3. Cardinality(HoldersAt(fd2, fd[f].wd))
          = Cardinality(HoldersAt(fd, fd[f].wd)) - 1
    BY <2>1, <2>2, FS_RemoveElement
  <2> QED BY <2>2, <2>3 DEF HoldersIn
<1>3. HoldersIn(fd2, c, fd2[f].wd) = HoldersIn(fd, c, fd2[f].wd) + 1
  <2>1. /\ HoldersAt(fd2, fd2[f].wd) = HoldersAt(fd, fd2[f].wd) \cup {f}
        /\ f \notin HoldersAt(fd, fd2[f].wd)
    BY DEF HoldersAt
  <2>2. /\ IsFiniteSet(HoldersAt(fd, fd2[f].wd))
        /\ Cardinality(HoldersAt(fd, fd2[f].wd)) \in Nat
    BY HoldersCounted
  <2>3. Cardinality(HoldersAt(fd2, fd2[f].wd))
          = Cardinality(HoldersAt(fd, fd2[f].wd)) + 1
    BY <2>1, <2>2, FS_AddElement
  <2> QED BY <2>2, <2>3 DEF HoldersIn
<1> QED BY <1>1, <1>2, <1>3

(* Feeds may change where the table does not matter.                        *)
LEMMA SameHolders ==
  ASSUME NEW k, NEW fd, NEW fd2, NEW c, Balanced(k, fd, c),
         \A f \in Feed!Feeds : \/ fd2[f].wd = fd[f].wd
                               \/ /\ fd[f].wd \notin DOMAIN k.watches
                                  /\ fd2[f].wd \notin DOMAIN k.watches
  PROVE  Balanced(k, fd2, c)
<1> SUFFICES ASSUME NEW wd \in DOMAIN k.watches
             PROVE  HoldersIn(fd2, c, wd) = HoldersIn(fd, c, wd)
  BY DEF Balanced
<1>1. HoldersAt(fd2, wd) = HoldersAt(fd, wd)
  BY DEF HoldersAt
<1> QED BY <1>1 DEF HoldersIn

(* An event is queued, after the kernel has dropped some watches.           *)
LEMMA ToldBalanced ==
  ASSUME Feed!DirectoryFeedConstants, NEW k, NEW fd, NEW c,
         Balanced(k, fd, c), NEW K \in SUBSET k.kernel, NEW e \in Events,
         e.kind = "ignored" => e.wd \notin K
  PROVE  Balanced([watches |-> k.watches, kernel |-> K,
                   queue |-> Feed!Notified(k.queue, e)], fd, c)
<1> DEFINE q == Feed!Notified(k.queue, e)
<1>1. /\ QueueFits(q)
      /\ \A i \in DOMAIN q : \/ q[i] \in {e, Feed!Overflow}
                             \/ \E j \in DOMAIN k.queue : q[i] = k.queue[j]
  BY QueueKept DEF Balanced
<1>2. Feed!Overflow.kind # "ignored"
  BY DEF Feed!Overflow, Feed!Event
<1> HIDE DEF q
<1>3. \A i \in DOMAIN q : q[i].kind = "ignored" => q[i].wd \notin K
  BY <1>1, <1>2 DEF Balanced
<1>4. K \subseteq DOMAIN k.watches
  BY DEF Balanced
<1> DEFINE k2 == [watches |-> k.watches, kernel |-> K, queue |-> q]
<1>5. k2.watches = k.watches /\ k2.kernel = K /\ k2.queue = q
  OBVIOUS
<1>6. Balanced(k2, fd, c)
  BY <1>1, <1>3, <1>4, <1>5 DEF Balanced
<1> QED BY <1>6 DEF q

(* The events of a watch.                                                   *)
LEMMA EventsTyped ==
  ASSUME NEW wd \in Wds \cup {NoWd}
  PROVE  /\ \A n \in FileNames, kd \in FileKinds :
              /\ Feed!Event(kd, wd, n) \in Events
              /\ Feed!Event(kd, wd, n).kind # "ignored"
         /\ Feed!Event("self", wd, Nothing) \in Events
         /\ Feed!Event("self", wd, Nothing).kind # "ignored"
         /\ Feed!Event("ignored", wd, Nothing) \in Events
         /\ Feed!Event("ignored", wd, Nothing).wd = wd
         /\ Feed!NoEvent \in Events /\ Feed!NoEvent.kind # "ignored"
BY DEF Feed!Event, Feed!NoEvent, Events, FileKinds, Feed!Kinds

(* i3sd_watch_release takes out one holder, and the watch with the last one *)
(* only.                                                                    *)
LEMMA ReleasedBalanced ==
  ASSUME Feed!DirectoryFeedConstants, NEW k, NEW fd, NEW fd2, NEW c,
         Balanced(k, fd, c), NEW f \in Feed!Feeds, fd2[f].wd = NoWd,
         OthersStay(f, fd, fd2)
  PROVE  LET k2 == Feed!Released(k, fd[f].wd)
         IN  /\ Balanced(k2, fd2, c)
             /\ k2.kernel \subseteq k.kernel
             /\ DOMAIN k2.watches \subseteq DOMAIN k.watches
             /\ \A g \in Feed!Feeds :
                  fd2[g].wd \in DOMAIN k.watches =>
                    fd2[g].wd \in DOMAIN k2.watches
<1> DEFINE wd == fd[f].wd
           k2 == Feed!Released(k, wd)
<1>1. NoWd \notin DOMAIN k.watches
  BY DEF Balanced, Feed!DirectoryFeedConstants
<1>2. CASE wd \notin DOMAIN k.watches
  <2>1. k2 = k
    BY <1>2 DEF Feed!Released
  <2>2. Balanced(k, fd2, c)
    <3>1. \A g \in Feed!Feeds : \/ fd2[g].wd = fd[g].wd
                                \/ /\ fd[g].wd \notin DOMAIN k.watches
                                   /\ fd2[g].wd \notin DOMAIN k.watches
      BY <1>1, <1>2 DEF OthersStay
    <3> QED BY <3>1, SameHolders
  <2> QED BY <2>1, <2>2
<1>3. CASE wd \in DOMAIN k.watches
  <2>1. fd2[f].wd # fd[f].wd
    BY <1>1, <1>3
  <2>2. /\ \A w : w # wd /\ w # NoWd =>
             HoldersIn(fd2, c, w) = HoldersIn(fd, c, w)
        /\ HoldersIn(fd2, c, wd) = HoldersIn(fd, c, wd) - 1
    BY <2>1, HolderMoves
  <2>3. k.watches[wd] = HoldersIn(fd, c, wd) /\ k.watches[wd] \in Nat
    BY <1>3 DEF Balanced
  <2>4. /\ k = [watches |-> k.watches, kernel |-> k.kernel, queue |-> k.queue]
        /\ k.watches \in [DOMAIN k.watches -> Nat]
        /\ DOMAIN k.watches \subseteq Wds
        /\ k.kernel \subseteq DOMAIN k.watches
    BY DEF Balanced
  <2>5. CASE k.watches[wd] > 1
    <3> DEFINE w2 == [k.watches EXCEPT ![wd] = @ - 1]
    <3>1. k2 = [watches |-> w2, kernel |-> k.kernel, queue |-> k.queue]
      BY <1>3, <2>4, <2>5 DEF Feed!Released
    <3>2. k2.watches = w2 /\ k2.kernel = k.kernel /\ k2.queue = k.queue
      BY <3>1
    <3>3. /\ w2 \in [DOMAIN k.watches -> Nat]
          /\ DOMAIN w2 = DOMAIN k.watches
      <4>1. k.watches[wd] - 1 \in Nat
        BY <2>3, <2>5
      <4>2. \A w \in DOMAIN k.watches : w2[w] \in Nat
        BY <2>4, <4>1
      <4>3. DOMAIN w2 = DOMAIN k.watches
        BY <2>4
      <4> HIDE DEF w2
      <4>4. w2 = [w \in DOMAIN k.watches |-> w2[w]]
        BY <2>4, <4>3 DEF w2
      <4> QED BY <4>2, <4>3, <4>4
    <3>4. \A w \in DOMAIN w2 : w2[w] = HoldersIn(fd2, c, w)
      BY <1>1, <2>2, <2>3, <2>4 DEF Balanced
    <3> HIDE DEF w2, k2
    <3>5. Balanced(k2, fd2, c)
      BY <3>1, <3>2, <3>3, <3>4 DEF Balanced
    <3> QED BY <3>2, <3>3, <3>5 DEF k2
  <2>6. CASE ~ k.watches[wd] > 1
    <3> DEFINE w2 == Feed!Without(k.watches, wd)
               k1 == [watches |-> w2, kernel |-> k.kernel, queue |-> k.queue]
    <3>1. k2 = Feed!Unwatched(k1, wd)
      <4>1. [k EXCEPT !.watches = Feed!Without(@, wd)] = k1
        BY <2>4
      <4> QED BY <1>3, <2>6, <4>1 DEF Feed!Released
    <3>2. /\ DOMAIN w2 = DOMAIN k.watches \ {wd}
          /\ w2 \in [DOMAIN w2 -> Nat]
          /\ \A w \in DOMAIN w2 : w2[w] = k.watches[w]
      BY <2>4 DEF Feed!Without
    <3>3. HoldersIn(fd2, c, wd) = 0
      <4>1. HoldersIn(fd2, c, wd) \in Nat
        BY HoldersCounted
      <4> QED BY <2>2, <2>3, <2>6, <4>1
    <3>4. \A g \in Feed!Feeds : fd2[g].wd # wd
      <4> DEFINE S == HoldersAt(fd2, wd)
      <4>1. IsFiniteSet(S) /\ Cardinality(S) \in Nat
        BY HoldersCounted
      <4>2. Cardinality(S) + (IF c = wd THEN 1 ELSE 0) = 0
        BY <3>3 DEF HoldersIn
      <4>3. Cardinality(S) = 0
        BY <4>1, <4>2
      <4>4. S = {}
        BY <4>1, <4>3, FS_EmptySet
      <4> QED BY <4>4 DEF HoldersAt
    <3>5. \A w \in DOMAIN w2 : w2[w] = HoldersIn(fd2, c, w)
      BY <1>1, <2>2, <3>2 DEF Balanced
    <3>6. /\ IsFiniteSet(DOMAIN w2) /\ Cardinality(DOMAIN w2) <= MaxWatches
      <4>1. /\ IsFiniteSet(DOMAIN k.watches)
            /\ Cardinality(DOMAIN k.watches) <= MaxWatches
        BY DEF Balanced
      <4>2. /\ IsFiniteSet(DOMAIN w2)
            /\ Cardinality(DOMAIN w2) = Cardinality(DOMAIN k.watches) - 1
        BY <1>3, <3>2, <4>1, FS_RemoveElement
      <4>3. Cardinality(DOMAIN k.watches) \in Nat /\ MaxWatches \in Nat
        BY <4>1, FS_CardinalityType DEF Feed!DirectoryFeedConstants
      <4> QED BY <4>1, <4>2, <4>3
    <3> HIDE DEF w2
    <3>7. k1.watches = w2 /\ k1.kernel = k.kernel /\ k1.queue = k.queue
      OBVIOUS
    <3>8. CASE wd \notin k.kernel
      <4>1. k2 = k1
        BY <3>1, <3>8 DEF Feed!Unwatched
      <4>2. k1.kernel \subseteq DOMAIN w2
        BY <2>4, <3>2, <3>8
      <4> HIDE DEF k1
      <4>3. Balanced(k1, fd2, c)
        BY <2>4, <3>2, <3>5, <3>6, <3>7, <4>2 DEF Balanced, k1
      <4> QED BY <3>2, <3>4, <3>7, <4>1, <4>3
    <3>9. CASE wd \in k.kernel
      <4> DEFINE e == Feed!Event("ignored", wd, Nothing)
                 K == k.kernel \ {wd}
                 k3 == [watches |-> w2, kernel |-> K, queue |-> k.queue]
                 k4 == [watches |-> w2, kernel |-> K,
                        queue |-> Feed!Notified(k.queue, e)]
      <4>1. k2 = k4
        BY <3>1, <3>9 DEF Feed!Unwatched
      <4>2. e \in Events /\ e.wd = wd
        BY <1>3, <2>4, EventsTyped
      <4>3. K \subseteq DOMAIN w2
        BY <2>4, <3>2
      <4>4. k3.watches = w2 /\ k3.kernel = K /\ k3.queue = k.queue
        OBVIOUS
      <4>5. \A i \in DOMAIN k.queue :
              k.queue[i].kind = "ignored" => k.queue[i].wd \notin K
        BY DEF Balanced
      <4> HIDE DEF k3, e
      <4>6. Balanced(k3, fd2, c)
        BY <2>4, <3>2, <3>5, <3>6, <4>3, <4>4, <4>5 DEF Balanced, k3
      <4>7. Balanced([watches |-> k3.watches, kernel |-> K,
                      queue |-> Feed!Notified(k3.queue, e)], fd2, c)
        <5>1. K \in SUBSET k3.kernel
          BY <4>4
        <5>2. e.kind = "ignored" => e.wd \notin K
          BY <4>2
        <5> QED BY <4>2, <4>6, <5>1, <5>2, ToldBalanced
      <4>8. Balanced(k4, fd2, c)
        BY <4>4, <4>7
      <4>9. k4.watches = w2 /\ k4.kernel = K
        OBVIOUS
      <4> QED BY <3>2, <3>4, <4>1, <4>8, <4>9
    <3> QED BY <3>8, <3>9
  <2> QED BY <2>3, <2>5, <2>6
<1> QED BY <1>2, <1>3

(* The kernel may give wd: whoever has it is in the table, and no event     *)
(* still to be read says that it is gone.                                   *)
Grantable(k, fd, c, wd) ==
  /\ wd \notin DOMAIN k.watches =>
       /\ Cardinality(DOMAIN k.watches) < MaxWatches
       /\ c # wd
       /\ \A g \in Feed!Feeds : fd[g].wd # wd
  /\ \A i \in DOMAIN k.queue :
       k.queue[i].kind = "ignored" => k.queue[i].wd # wd

(* i3sd_watch_acquire adds one holder.                                      *)
LEMMA AcquiredBalanced ==
  ASSUME Feed!DirectoryFeedConstants, NEW k, NEW fd, NEW fd2, NEW c,
         Balanced(k, fd, c), NEW f \in Feed!Feeds, fd[f].wd = NoWd,
         NEW wd \in Wds, fd2[f].wd = wd,
         OthersStay(f, fd, fd2),
         Grantable(k, fd, c, wd)
  PROVE  /\ Balanced(Feed!Acquired(k, wd), fd2, c)
         /\ Feed!Acquired(k, wd).kernel = k.kernel \cup {wd}
         /\ DOMAIN Feed!Acquired(k, wd).watches = DOMAIN k.watches \cup {wd}
<1> DEFINE w2 == [d \in DOMAIN k.watches \cup {wd} |->
                    IF d \notin DOMAIN k.watches THEN 1
                    ELSE IF d = wd THEN k.watches[d] + 1 ELSE k.watches[d]]
           k2 == [watches |-> w2, kernel |-> k.kernel \cup {wd},
                  queue |-> k.queue]
<1>1. /\ k = [watches |-> k.watches, kernel |-> k.kernel, queue |-> k.queue]
      /\ k.watches \in [DOMAIN k.watches -> Nat]
      /\ DOMAIN k.watches \subseteq Wds
      /\ k.kernel \subseteq DOMAIN k.watches
  BY DEF Balanced
<1>2. Feed!Acquired(k, wd) = k2
  BY DEF Feed!Acquired
<1>3. /\ w2 \in [DOMAIN w2 -> Nat]
      /\ DOMAIN w2 = DOMAIN k.watches \cup {wd}
  BY <1>1
<1>4. \A w \in DOMAIN w2 : w2[w] = HoldersIn(fd2, c, w)
  <2>1. NoWd # wd /\ NoWd \notin DOMAIN k.watches
    BY <1>1 DEF Feed!DirectoryFeedConstants
  <2>2. /\ \A w : w # NoWd /\ w # wd =>
             HoldersIn(fd2, c, w) = HoldersIn(fd, c, w)
        /\ HoldersIn(fd2, c, wd) = HoldersIn(fd, c, wd) + 1
    <3>1. /\ fd2[f].wd # fd[f].wd /\ fd[f].wd = NoWd /\ fd2[f].wd = wd
      BY <2>1
    <3> HIDE DEF w2, k2
    <3> QED BY <3>1, HolderMoves
  <2>3. wd \notin DOMAIN k.watches => HoldersIn(fd, c, wd) = 0
    <3> SUFFICES ASSUME wd \notin DOMAIN k.watches
                 PROVE  HoldersIn(fd, c, wd) = 0
      OBVIOUS
    <3>1. HoldersAt(fd, wd) = {} /\ c # wd
      BY DEF Grantable, HoldersAt
    <3>2. Cardinality(HoldersAt(fd, wd)) = 0
      BY <3>1, FS_EmptySet
    <3> QED BY <3>1, <3>2 DEF HoldersIn
  <2>4. \A w \in DOMAIN k.watches : k.watches[w] = HoldersIn(fd, c, w)
    BY DEF Balanced
  <2> QED BY <2>1, <2>2, <2>3, <2>4
<1>5. IsFiniteSet(DOMAIN w2) /\ Cardinality(DOMAIN w2) <= MaxWatches
  <2>1. /\ IsFiniteSet(DOMAIN k.watches)
        /\ Cardinality(DOMAIN k.watches) <= MaxWatches
    BY DEF Balanced
  <2>2. Cardinality(DOMAIN k.watches) \in Nat /\ MaxWatches \in Nat
    BY <2>1, FS_CardinalityType DEF Feed!DirectoryFeedConstants
  <2>3. /\ IsFiniteSet(DOMAIN w2)
        /\ Cardinality(DOMAIN w2) = IF wd \in DOMAIN k.watches
                                    THEN Cardinality(DOMAIN k.watches)
                                    ELSE Cardinality(DOMAIN k.watches) + 1
    <3> DEFINE D == DOMAIN k.watches
    <3>1. DOMAIN w2 = D \cup {wd} /\ IsFiniteSet(D)
      BY <1>3, <2>1
    <3> HIDE DEF w2, D
    <3>2. /\ IsFiniteSet(D \cup {wd})
          /\ Cardinality(D \cup {wd}) =
               IF wd \in D THEN Cardinality(D) ELSE Cardinality(D) + 1
      BY <3>1, FS_AddElement
    <3> QED BY <3>1, <3>2 DEF D
  <2>4. wd \notin DOMAIN k.watches =>
          Cardinality(DOMAIN k.watches) < MaxWatches
    BY DEF Grantable
  <2> QED BY <2>1, <2>2, <2>3, <2>4
<1> HIDE DEF w2
<1>6. /\ k2.watches = w2 /\ k2.kernel = k.kernel \cup {wd}
      /\ k2.queue = k.queue
  OBVIOUS
<1>7. k2.kernel \subseteq DOMAIN w2 /\ DOMAIN w2 \subseteq Wds
  BY <1>1, <1>3, <1>6
<1>8. QueueFits(k.queue) /\
      \A i \in DOMAIN k.queue :
        k.queue[i].kind = "ignored" => k.queue[i].wd \notin k2.kernel
  BY <1>6 DEF Balanced, Grantable
<1>9. k2 = [watches |-> k2.watches, kernel |-> k2.kernel, queue |-> k2.queue]
  OBVIOUS
<1> HIDE DEF k2
<1>10. Balanced(k2, fd2, c)
  BY <1>3, <1>4, <1>5, <1>6, <1>7, <1>8, <1>9 DEF Balanced
<1> QED BY <1>2, <1>3, <1>6, <1>10

(* The queue remembers no more watches than the kernel queues events: the   *)
(* overflow event, for which there is one place more, has none.             *)
LEMMA QueuedWatches ==
  ASSUME Feed!DirectoryFeedConstants, NEW q, QueueFits(q)
  PROVE  LET S == {q[i].wd : i \in {j \in DOMAIN q : q[j].wd # NoWd}}
         IN  /\ IsFiniteSet(S)
             /\ Cardinality(S) \in Nat /\ Cardinality(S) <= QueueMax
<1> DEFINE I == {j \in DOMAIN q : q[j].wd # NoWd}
           S == {q[i].wd : i \in I}
           m == [i \in I |-> q[i].wd]
<1>1. DOMAIN q = 1..Len(q) /\ Len(q) \in Nat /\ QueueMax \in Nat
  BY DEF QueueFits, Feed!DirectoryFeedConstants
<1>2. /\ IsFiniteSet(1..Len(q)) /\ Cardinality(1..Len(q)) = Len(q)
  <2>1. \A n \in Nat : IsFiniteSet(1..n) /\ Cardinality(1..n) = n
    BY FS_Interval
  <2> QED BY <1>1, <2>1
<1>3. IsFiniteSet(I) /\ Cardinality(I) \in Nat /\ Cardinality(I) <= QueueMax
  <2>1. IsFiniteSet(I) /\ Cardinality(I) <= Len(q)
    BY <1>1, <1>2, FS_Subset
  <2>2. Cardinality(I) \in Nat
    BY <2>1, FS_CardinalityType
  <2>3. CASE Len(q) <= QueueMax
    BY <1>1, <2>1, <2>2, <2>3
  <2>4. CASE Len(q) = QueueMax + 1 /\ \E i \in DOMAIN q : q[i] = Feed!Overflow
    <3>1. PICK i \in 1..Len(q) : q[i] = Feed!Overflow
      BY <1>1, <2>4
    <3>2. i \notin I
      BY <3>1 DEF Feed!Overflow, Feed!Event
    <3>3. /\ IsFiniteSet((1..Len(q)) \ {i})
          /\ Cardinality((1..Len(q)) \ {i}) = QueueMax
      <4> DEFINE T == 1..Len(q)
      <4>1. IsFiniteSet(T) /\ Cardinality(T) = Len(q) /\ i \in T
        BY <1>2
      <4> HIDE DEF T
      <4>2. IsFiniteSet(T \ {i}) /\ Cardinality(T \ {i}) = Len(q) - 1
        BY <4>1, FS_RemoveElement
      <4>3. Len(q) - 1 = QueueMax
        BY <1>1, <2>4
      <4> QED BY <4>2, <4>3 DEF T
    <3>4. I \in SUBSET ((1..Len(q)) \ {i})
      BY <1>1, <3>2
    <3> HIDE DEF I
    <3>5. Cardinality(I) <= QueueMax
      BY <3>3, <3>4, FS_Subset
    <3> QED BY <2>1, <2>2, <3>5
  <2> QED BY <2>3, <2>4 DEF QueueFits
<1>4. m \in Surjection(I, S)
  BY DEF Surjection
<1> HIDE DEF I, m, S
<1>5. IsFiniteSet(S) /\ Cardinality(S) <= Cardinality(I)
  BY <1>3, <1>4, FS_Surjection
<1>6. Cardinality(S) \in Nat
  BY <1>5, FS_CardinalityType
<1>7. Cardinality(S) <= QueueMax
  BY <1>1, <1>3, <1>5, <1>6
<1> QED BY <1>5, <1>6, <1>7 DEF S, I

(* The kernel always has a descriptor that nothing remembers.               *)
LEMMA UnknownLeft ==
  ASSUME Feed!DirectoryFeedConstants, FeedInv
  PROVE  Feed!Unknown # {}
<1> DEFINE D == DOMAIN watches
           Q == {queue[i].wd : i \in {j \in DOMAIN queue : queue[j].wd # NoWd}}
           K == ((D \cup Q) \cup {config_watch}) \cup {event.wd}
<1> SUFFICES ASSUME Feed!Unknown = {} PROVE FALSE
  OBVIOUS
<1>1. /\ kernel \subseteq D /\ QueueFits(queue)
      /\ IsFiniteSet(D) /\ Cardinality(D) <= MaxWatches
  BY DEF FeedInv, Balanced, Feed!registry
<1>2. IsFiniteSet(Q) /\ Cardinality(Q) \in Nat /\ Cardinality(Q) <= QueueMax
  BY <1>1, QueuedWatches
<1>3. Wds \in SUBSET K
  <2>1. NoWd \notin Wds
    BY DEF Feed!DirectoryFeedConstants
  <2>2. \A f \in Feed!Feeds : feed[f].wd \in K \cup {NoWd}
    BY DEF FeedInv, Tracked
  <2>3. \A i \in DOMAIN queue : queue[i].wd \in K \cup {NoWd}
    OBVIOUS
  <2>4. Wds \subseteq kernel \cup D \cup {config_watch, event.wd}
                       \cup {feed[f].wd : f \in Feed!Feeds}
                       \cup {queue[i].wd : i \in DOMAIN queue}
    BY DEF Feed!Unknown
  <2>5. kernel \cup D \cup {config_watch, event.wd} \subseteq K
    BY <1>1
  <2> HIDE DEF K
  <2> QED BY <2>1, <2>2, <2>3, <2>4, <2>5
<1> HIDE DEF D, Q
<1>4. /\ IsFiniteSet(K) /\ Cardinality(K) \in Nat
      /\ Cardinality(K) <= Cardinality(D) + Cardinality(Q) + 2
  <2>1. Cardinality(D) \in Nat
    BY <1>1, FS_CardinalityType
  <2>2. /\ IsFiniteSet(D \cup Q)
        /\ Cardinality(D \cup Q) =
             Cardinality(D) + Cardinality(Q) - Cardinality(D \cap Q)
    BY <1>1, <1>2, FS_Union
  <2>3. Cardinality(D \cap Q) \in Nat
    <3>1. IsFiniteSet(D \cap Q)
      BY <1>1, FS_Subset
    <3> QED BY <3>1, FS_CardinalityType
  <2>4. Cardinality(D \cup Q) \in Nat
    BY <2>2, FS_CardinalityType
  <2>5. /\ IsFiniteSet((D \cup Q) \cup {config_watch})
        /\ Cardinality((D \cup Q) \cup {config_watch}) \in Nat
        /\ Cardinality((D \cup Q) \cup {config_watch}) <=
             Cardinality(D \cup Q) + 1
    BY <2>2, <2>4, FS_AddElement
  <2>6. /\ IsFiniteSet(K) /\ Cardinality(K) \in Nat
        /\ Cardinality(K) <= Cardinality((D \cup Q) \cup {config_watch}) + 1
    BY <2>5, FS_AddElement
  <2> QED BY <1>2, <2>1, <2>2, <2>3, <2>4, <2>5, <2>6
<1> HIDE DEF K
<1>5. /\ IsFiniteSet(Wds) /\ Cardinality(Wds) \in Nat
      /\ Cardinality(Wds) <= Cardinality(K)
  <2>1. IsFiniteSet(Wds) /\ Cardinality(Wds) <= Cardinality(K)
    BY <1>3, <1>4, FS_Subset
  <2> QED BY <2>1, FS_CardinalityType
<1>6. Cardinality(Wds) > MaxWatches + QueueMax + 2
      /\ MaxWatches \in Nat /\ QueueMax \in Nat
  BY <1>5, FeedSizes DEF Feed!DirectoryFeedConstants
<1>7. Cardinality(D) \in Nat
  BY <1>1, FS_CardinalityType
<1> QED BY <1>1, <1>2, <1>4, <1>5, <1>6, <1>7

(* What the kernel gives is known to all who have it, or to none.           *)
LEMMA PathWdKnown ==
  ASSUME Feed!DirectoryFeedConstants, FeedInv
  PROVE  /\ Feed!PathWd \in Wds
         /\ event.kind = "ignored" => Feed!PathWd # event.wd
         /\ \A i \in DOMAIN queue :
              queue[i].kind = "ignored" => queue[i].wd # Feed!PathWd
         /\ Feed!PathWd \notin DOMAIN watches =>
              /\ pathwd = NoWd /\ config_watch # Feed!PathWd
              /\ \A f \in Feed!Feeds : feed[f].wd # Feed!PathWd
<1>1. /\ pathwd \in kernel \cup {NoWd} /\ kernel \subseteq DOMAIN watches
      /\ DOMAIN watches \subseteq Wds
      /\ \A i \in DOMAIN queue :
           queue[i].kind = "ignored" => queue[i].wd \notin kernel
  BY DEF FeedInv, FeedTyped, Balanced, Feed!registry
<1>2. CASE pathwd # NoWd
  <2>1. Feed!PathWd = pathwd
    BY <1>2 DEF Feed!PathWd
  <2>2. event.kind = "ignored" => event.wd \notin DOMAIN watches
    BY DEF FeedInv, GoneForNow
  <2> QED BY <1>1, <1>2, <2>1, <2>2
<1>3. CASE pathwd = NoWd
  <2>1. Feed!PathWd \in Feed!Unknown
    <3>1. Feed!PathWd = CHOOSE wd \in Feed!Unknown : TRUE
      BY <1>3 DEF Feed!PathWd
    <3> QED BY <3>1, UnknownLeft
  <2> HIDE DEF Feed!PathWd
  <2> QED BY <1>3, <2>1 DEF Feed!Unknown
<1> QED BY <1>2, <1>3

(* A feed gives its watch back: nobody else loses theirs.                   *)
LEMMA CloseWatchInv ==
  ASSUME Feed!DirectoryFeedConstants, FeedInv, NEW f \in Feed!Feeds,
         Feed!CloseWatch(f), NEW fd2, fd2[f].wd = NoWd,
         OthersStay(f, feed, fd2)
  PROVE  /\ Balanced(Feed!registry', fd2, config_watch)
         /\ pathwd' \in kernel' \cup {NoWd}
         /\ DOMAIN watches' \subseteq DOMAIN watches
         /\ \A g \in Feed!Feeds :
              fd2[g].wd \in DOMAIN watches => fd2[g].wd \in DOMAIN watches'
<1> DEFINE k == Feed!registry
           k2 == Feed!Released(k, feed[f].wd)
<1>1. Balanced(k, feed, config_watch)
  BY DEF FeedInv
<1>2. k.watches = watches
  BY DEF Feed!registry
<1> HIDE DEF k
<1>3. /\ Balanced(k2, fd2, config_watch)
      /\ DOMAIN k2.watches \subseteq DOMAIN k.watches
      /\ \A g \in Feed!Feeds : fd2[g].wd \in DOMAIN k.watches =>
                                 fd2[g].wd \in DOMAIN k2.watches
  BY <1>1, ReleasedBalanced
<1>4. /\ watches' = k2.watches /\ kernel' = k2.kernel /\ queue' = k2.queue
      /\ pathwd' = IF pathwd \in k2.kernel THEN pathwd ELSE NoWd
  BY DEF Feed!CloseWatch, Feed!Become, k
<1> HIDE DEF k2
<1>5. Feed!registry' = k2
  BY <1>3, <1>4 DEF Feed!registry, Balanced
<1> QED BY <1>2, <1>3, <1>4, <1>5

-----------------------------------------------------------------------------
(* Producers change the disk and the kernel's side of the watches.          *)
LEMMA ProducerKeeps ==
  ASSUME FeedInv, files' \in [FileNames -> Data \cup {Nothing}],
         pathwd' \in kernel' \cup {NoWd},
         Balanced(Feed!registry', feed, config_watch),
         UNCHANGED <<config_watch, current, feed, pc, event, todo, self, back,
                     listed, watches>>
  PROVE  FeedInv'
<1>1. FeedTyped'
  BY DEF FeedInv, FeedTyped
<1>2. Balanced(Feed!registry', feed', config_watch')
  OBVIOUS
<1>3. FeedPlaces'
  BY DEF FeedInv, FeedPlaces, Feed!Live
<1>4. GoneForNow' /\ Tracked' /\ CancelledEmpty'
  BY DEF FeedInv, GoneForNow, Tracked, CancelledEmpty
<1> QED BY <1>1, <1>2, <1>3, <1>4 DEF FeedInv

(* Nothing happens to the watches.                                          *)
LEMMA SameInotify ==
  ASSUME FeedInv, UNCHANGED <<kernel, pathwd, queue, watches>>
  PROVE  /\ Balanced(Feed!registry', feed, config_watch)
         /\ pathwd' \in kernel' \cup {NoWd}
<1>1. Feed!registry' = Feed!registry
  BY DEF Feed!registry
<1> QED BY <1>1 DEF FeedInv, FeedTyped

LEMMA ReportInv ==
  ASSUME Feed!DirectoryFeedConstants, FeedInv,
         NEW kd \in FileKinds, NEW n \in FileNames, Feed!Report(kd, n),
         UNCHANGED <<kernel, pathwd, watches>>
  PROVE  /\ Balanced(Feed!registry', feed, config_watch)
         /\ pathwd' \in kernel' \cup {NoWd}
<1>1. CASE pathwd = NoWd
  BY <1>1, SameInotify DEF Feed!Report
<1>2. CASE pathwd # NoWd
  <2> DEFINE e == Feed!Event(kd, pathwd, n)
             k == Feed!registry
  <2>1. /\ k.watches = watches /\ k.kernel = kernel /\ k.queue = queue
    BY DEF Feed!registry
  <2>2. pathwd \in Wds \cup {NoWd} /\ Balanced(k, feed, config_watch)
    BY <2>1 DEF FeedInv, FeedTyped, Balanced
  <2>3. e \in Events /\ e.kind # "ignored"
    BY <2>2, EventsTyped
  <2> HIDE DEF k, e
  <2>4. Balanced([watches |-> k.watches, kernel |-> k.kernel,
                  queue |-> Feed!Notified(k.queue, e)], feed, config_watch)
    BY <2>2, <2>3, ToldBalanced
  <2>5. Feed!registry' = [watches |-> k.watches, kernel |-> k.kernel,
                          queue |-> Feed!Notified(k.queue, e)]
    BY <1>2, <2>1 DEF Feed!Report, Feed!registry, e
  <2> QED BY <2>4, <2>5 DEF FeedInv, FeedTyped
<1> QED BY <1>1, <1>2

LEMMA ReportSelfInv ==
  ASSUME Feed!DirectoryFeedConstants, FeedInv, NEW gone \in BOOLEAN,
         Feed!ReportSelf(gone), UNCHANGED watches
  PROVE  /\ Balanced(Feed!registry', feed, config_watch)
         /\ pathwd' \in kernel' \cup {NoWd}
<1>1. pathwd' = NoWd
  BY DEF Feed!ReportSelf
<1>2. /\ Feed!registry.watches = watches /\ Feed!registry.kernel = kernel
      /\ Feed!registry.queue = queue
      /\ Balanced(Feed!registry, feed, config_watch)
      /\ pathwd \in kernel \cup {NoWd}
      /\ kernel \subseteq Wds /\ NoWd \notin Wds
  BY DEF Feed!registry, FeedInv, FeedTyped, Balanced,
         Feed!DirectoryFeedConstants
<1>3. CASE pathwd = NoWd
  <2>1. queue' = queue /\ kernel' = kernel
    BY <1>2, <1>3 DEF Feed!ReportSelf
  <2>2. Feed!registry' = Feed!registry
    BY <2>1 DEF Feed!registry
  <2> QED BY <1>1, <1>2, <2>2
<1>4. CASE pathwd # NoWd
  <2> DEFINE e == Feed!Event("self", pathwd, Nothing)
             q1 == Feed!Notified(queue, e)
             e2 == Feed!Event("ignored", pathwd, Nothing)
             k1 == [watches |-> watches, kernel |-> kernel, queue |-> q1]
             K == kernel \ {pathwd}
             k2 == [watches |-> watches, kernel |-> K,
                    queue |-> Feed!Notified(q1, e2)]
  <2>1. /\ e \in Events /\ e.kind # "ignored"
        /\ e2 \in Events /\ e2.wd = pathwd
    <3>1. pathwd \in Wds \cup {NoWd}
      BY <1>2
    <3> QED BY <3>1, EventsTyped
  <2> HIDE DEF e, e2
  <2>2. Balanced(k1, feed, config_watch)
    BY <1>2, <2>1, ToldBalanced
  <2> HIDE DEF q1
  <2>3. /\ k1.watches = watches /\ k1.kernel = kernel /\ k1.queue = q1
        /\ K \in SUBSET kernel /\ e2.wd \notin K
    BY <2>1
  <2> HIDE DEF k1
  <2>4. Balanced(k2, feed, config_watch)
    BY <2>1, <2>2, <2>3, ToldBalanced
  <2>5. Feed!registry' = IF gone THEN k2 ELSE k1
    BY <1>4 DEF Feed!ReportSelf, Feed!registry, k1, q1, e, e2
  <2> QED BY <1>1, <2>2, <2>4, <2>5
<1> QED BY <1>3, <1>4

LEMMA ProducersInv ==
  ASSUME Feed!DirectoryFeedConstants, FeedInv, Feed!Producers
  PROVE  FeedInv'
<1>1. Nothing \in Data \cup {Nothing}
  OBVIOUS
<1>2. files \in [FileNames -> Data \cup {Nothing}]
  BY DEF FeedInv, FeedTyped
<1>3. ASSUME NEW n \in FileNames, NEW v \in Data, Feed!BeginWrite(n, v)
      PROVE  FeedInv'
  BY <1>2, <1>3, SameInotify, ProducerKeeps
     DEF Feed!BeginWrite, Feed!inotify, Feed!rest, Feed!control
<1>4. ASSUME NEW n \in FileNames, NEW v \in Data, Feed!RenameIn(n, v)
      PROVE  FeedInv'
  <2>1. files' \in [FileNames -> Data \cup {Nothing}]
    BY <1>2, <1>4 DEF Feed!RenameIn
  <2>2. "changed" \in FileKinds
    BY DEF FileKinds
  <2>3. /\ Feed!Report("changed", n) /\ UNCHANGED <<kernel, pathwd>>
        /\ UNCHANGED <<config_watch, current, feed, pc, event, todo, self,
                       back, listed, watches>>
    BY <1>4 DEF Feed!RenameIn, Feed!rest, Feed!control
  <2> QED BY <2>1, <2>2, <2>3, ReportInv, ProducerKeeps
<1>5. ASSUME NEW n \in FileNames, Feed!FinishWrite(n) PROVE FeedInv'
  <2>1. "changed" \in FileKinds
    BY DEF FileKinds
  <2>2. /\ Feed!Report("changed", n) /\ UNCHANGED <<kernel, pathwd, files>>
        /\ UNCHANGED <<config_watch, current, feed, pc, event, todo, self,
                       back, listed, watches>>
    BY <1>5 DEF Feed!FinishWrite, Feed!rest, Feed!control
  <2> QED BY <1>2, <2>1, <2>2, ReportInv, ProducerKeeps
<1>6. ASSUME NEW n \in FileNames, Feed!Delete(n) PROVE FeedInv'
  <2>1. files' \in [FileNames -> Data \cup {Nothing}]
    BY <1>2, <1>6 DEF Feed!Delete
  <2>2. "removed" \in FileKinds
    BY DEF FileKinds
  <2>3. /\ Feed!Report("removed", n) /\ UNCHANGED <<kernel, pathwd>>
        /\ UNCHANGED <<config_watch, current, feed, pc, event, todo, self,
                       back, listed, watches>>
    BY <1>6 DEF Feed!Delete, Feed!rest, Feed!control
  <2> QED BY <2>1, <2>2, <2>3, ReportInv, ProducerKeeps
<1>7. CASE Feed!MoveAway \/ Feed!RemoveDirectory
  <2>1. PICK gone \in BOOLEAN : Feed!ReportSelf(gone)
    BY <1>7 DEF Feed!MoveAway, Feed!RemoveDirectory
  <2>2. files' \in [FileNames -> Data \cup {Nothing}]
    BY <1>7 DEF Feed!MoveAway, Feed!RemoveDirectory, Feed!LoseDirectory,
                Feed!NoFiles
  <2>3. UNCHANGED <<config_watch, current, feed, pc, event, todo, self, back,
                    listed, watches>>
    BY <1>7 DEF Feed!MoveAway, Feed!RemoveDirectory, Feed!rest, Feed!control
  <2> QED BY <2>1, <2>2, <2>3, ReportSelfInv, ProducerKeeps
<1>8. CASE Feed!MakeDirectory
  <2>1. /\ UNCHANGED <<kernel, pathwd, queue, watches, files>>
        /\ UNCHANGED <<config_watch, current, feed, pc, event, todo, self,
                       back, listed>>
    BY <1>8 DEF Feed!MakeDirectory, Feed!inotify, Feed!rest, Feed!control
  <2> QED BY <1>2, <2>1, SameInotify, ProducerKeeps
<1> QED BY <1>3, <1>4, <1>5, <1>6, <1>7, <1>8 DEF Feed!Producers

-----------------------------------------------------------------------------
(* A step of the loop itself.                                               *)
LEMMA ControlKeeps ==
  ASSUME FeedInv, event' \in Events, listed' \subseteq FileNames,
         FeedPlaces', GoneForNow', Tracked',
         UNCHANGED <<files, kernel, pathwd, queue, watches, config_watch,
                     current, feed>>
  PROVE  FeedInv'
<1>1. FeedTyped'
  BY DEF FeedInv, FeedTyped
<1>2. Balanced(Feed!registry', feed', config_watch')
  BY SameInotify
<1>3. CancelledEmpty'
  BY DEF FeedInv, CancelledEmpty
<1> QED BY <1>1, <1>2, <1>3 DEF FeedInv

LEMMA SkipInv ==
  ASSUME FeedInv, NEW f \in Feed!Feeds, Feed!Skip(f)
  PROVE  FeedInv'
<1> USE DEF Feed!Skip, Feed!disk, Feed!inotify, Feed!history
<1>1. FeedPlaces'
  BY DEF FeedInv, FeedPlaces, Feed!Live, Activating, Scanning
<1>2. Tracked'
  <2>1. ~ (event.kind = "ignored" /\ feed[f].wd = event.wd
           /\ feed[f].wd # NoWd)
    BY DEF Feed!Concerns, FeedInv, CancelledEmpty
  <2> QED BY <2>1 DEF FeedInv, Tracked
<1>3. GoneForNow' /\ event' \in Events /\ listed' \subseteq FileNames
  BY DEF FeedInv, GoneForNow, FeedTyped
<1> QED BY <1>1, <1>2, <1>3, ControlKeeps

LEMMA EventDoneInv == ASSUME FeedInv, Feed!EventDone PROVE FeedInv'
<1> USE DEF Feed!EventDone, Feed!disk, Feed!inotify, Feed!history
<1>1. FeedPlaces'
  BY DEF FeedInv, FeedPlaces, Feed!Live, Activating, Scanning
<1>2. event' \in Events /\ event'.kind # "ignored"
  BY EventsTyped
<1>3. Tracked' /\ GoneForNow' /\ listed' \subseteq FileNames
  BY <1>2 DEF FeedInv, Tracked, GoneForNow, FeedTyped
<1> QED BY <1>1, <1>2, <1>3, ControlKeeps

(* Nothing but the place changes, which stays within the walk over the      *)
(* feeds.                                                                   *)
LEMMA PlaceKeeps ==
  ASSUME FeedInv, FeedPlaces', pc' # "idle",
         listed' \subseteq FileNames,
         todo \subseteq todo' \/ event.kind # "ignored",
         UNCHANGED <<files, kernel, pathwd, queue, watches, config_watch,
                     current, feed, event, back>>
  PROVE  FeedInv'
<1>1. GoneForNow' /\ Tracked' /\ event' \in Events
  BY DEF FeedInv, GoneForNow, Tracked, FeedTyped
<1> QED BY <1>1, ControlKeeps

LEMMA ActivationInv ==
  ASSUME FeedInv, Feed!MakePath \/ Feed!OpenPath \/ Feed!CheckPath
  PROVE  FeedInv'
<1> USE DEF Feed!MakePath, Feed!OpenPath, Feed!CheckPath, Feed!disk,
            Feed!inotify, Feed!history
<1>1. FeedPlaces'
  BY DEF FeedInv, FeedPlaces, Feed!Live, Activating, Scanning
<1>2. pc' # "idle" /\ todo' = todo
  OBVIOUS
<1>3. listed' \subseteq FileNames
  BY DEF FeedInv, FeedTyped
<1>4. UNCHANGED <<files, kernel, pathwd, queue, watches, config_watch,
                  current, feed, event, back>>
  OBVIOUS
<1> QED BY <1>1, <1>2, <1>3, <1>4, PlaceKeeps

LEMMA ScanEndsInv ==
  ASSUME FeedInv, Feed!ListFails \/ Feed!RefreshDone
  PROVE  FeedInv'
<1> USE DEF Feed!ListFails, Feed!RefreshDone, Feed!disk, Feed!inotify,
            Feed!history
<1>1. FeedPlaces'
  BY DEF FeedInv, FeedPlaces, Feed!Live, Activating, Scanning
<1>2. pc' # "idle" /\ todo' = todo
  BY DEF FeedInv, FeedPlaces
<1>3. listed' \subseteq FileNames
  BY DEF FeedInv, FeedTyped
<1>4. UNCHANGED <<files, kernel, pathwd, queue, watches, config_watch,
                  current, feed, event, back>>
  OBVIOUS
<1> QED BY <1>1, <1>2, <1>3, <1>4, PlaceKeeps

LEMMA CommitStepsInv ==
  ASSUME FeedInv,
         \/ Feed!BeginDestroy \/ Feed!CommitDone
         \/ \E f \in Feed!Feeds : Feed!Activate(f)
  PROVE  FeedInv'
<1> USE DEF Feed!BeginDestroy, Feed!CommitDone, Feed!Activate, Feed!disk,
            Feed!inotify, Feed!history
<1>1. FeedPlaces'
  <2>1. CASE Feed!BeginDestroy \/ Feed!CommitDone
    BY <2>1 DEF FeedInv, FeedPlaces, Feed!Live, Activating, Scanning
  <2>2. ASSUME NEW f \in Feed!Feeds, Feed!Activate(f) PROVE FeedPlaces'
    BY <2>2 DEF FeedInv, FeedPlaces, Feed!Live, Activating, Scanning
  <2> QED BY <2>1, <2>2
<1>2. event.kind # "ignored"
  BY DEF FeedInv, GoneForNow, FeedPlaces
<1>3. /\ event' \in Events /\ event'.kind # "ignored"
      /\ listed' \subseteq FileNames
  BY <1>2 DEF FeedInv, FeedTyped
<1>4. Tracked' /\ GoneForNow'
  BY <1>2 DEF FeedInv, Tracked, GoneForNow
<1>5. UNCHANGED <<files, kernel, pathwd, queue, watches, config_watch,
                  current, feed>>
  OBVIOUS
<1> QED BY <1>1, <1>3, <1>4, <1>5, ControlKeeps

LEMMA FeedOverflowInv ==
  ASSUME FeedInv, NEW f \in Feed!Feeds, Feed!FeedOverflow(f)
  PROVE  FeedInv'
<1> USE DEF Feed!FeedOverflow, Feed!Take, Feed!disk, Feed!inotify,
            Feed!history
<1>1. FeedPlaces'
  BY DEF FeedInv, FeedPlaces, Feed!Live, Activating, Scanning,
         Feed!Concerns
<1>2. pc' # "idle" /\ event.kind # "ignored"
  OBVIOUS
<1>3. listed' \subseteq FileNames
  BY DEF FeedInv, FeedTyped
<1>4. UNCHANGED <<files, kernel, pathwd, queue, watches, config_watch,
                  current, feed, event, back>>
  OBVIOUS
<1> QED BY <1>1, <1>2, <1>3, <1>4, PlaceKeeps

(* i3sd's next event.                                                       *)
LEMMA ReadEventInv ==
  ASSUME Feed!DirectoryFeedConstants, FeedInv, Feed!ReadEvent
  PROVE  FeedInv'
<1> USE DEF Feed!ReadEvent, Feed!disk, Feed!history
<1> DEFINE k == Feed!registry
<1>1. /\ k.watches = watches /\ k.kernel = kernel /\ k.queue = queue
      /\ Balanced(k, feed, config_watch)
  BY DEF FeedInv, Feed!registry
<1> HIDE DEF k
<1>2. /\ queue \in Seq(Events) /\ queue # <<>>
      /\ event' = queue[1] /\ event' \in Events
      /\ queue' \in Seq(Events) /\ Len(queue') = Len(queue) - 1
      /\ \A i \in DOMAIN queue' : queue'[i] = queue[i + 1]
                                  /\ i + 1 \in DOMAIN queue
  BY <1>1 DEF Balanced, QueueFits
<1>3. QueueFits(queue')
  <2>1. Len(queue) <= QueueMax + 1 /\ QueueMax \in Nat
    BY <1>1 DEF Balanced, QueueFits, Feed!DirectoryFeedConstants
  <2>2. Len(queue) \in Nat
    BY <1>2
  <2>3. Len(queue') <= QueueMax
    BY <1>2, <2>1, <2>2
  <2> QED BY <1>2, <2>3 DEF QueueFits
<1>4. \A i \in DOMAIN queue : queue[i].kind = "ignored" =>
                                queue[i].wd \notin kernel
  BY <1>1 DEF Balanced
<1>5. /\ \A i \in DOMAIN queue' : queue'[i].kind = "ignored" =>
                                    queue'[i].wd \notin kernel
      /\ event'.kind = "ignored" => event'.wd \notin kernel
  BY <1>2, <1>4
<1>6. /\ DOMAIN watches' \subseteq DOMAIN watches
      /\ \A wd \in DOMAIN watches' : watches'[wd] = watches[wd]
      /\ watches' \in [DOMAIN watches' -> Nat]
      /\ \A wd \in DOMAIN watches :
           \/ wd \in DOMAIN watches'
           \/ event'.kind = "ignored" /\ wd = event'.wd
      /\ event'.kind = "ignored" => event'.wd \notin DOMAIN watches'
  BY <1>1 DEF Feed!Without, Balanced
<1>7. Balanced(Feed!registry', feed', config_watch')
  <2> DEFINE k2 == [watches |-> watches', kernel |-> kernel, queue |-> queue']
  <2>1. k2.watches = watches' /\ k2.kernel = kernel /\ k2.queue = queue'
    OBVIOUS
  <2>2. /\ IsFiniteSet(DOMAIN watches')
        /\ Cardinality(DOMAIN watches') <= MaxWatches
    <3>1. /\ IsFiniteSet(DOMAIN watches)
          /\ Cardinality(DOMAIN watches) <= MaxWatches
      BY <1>1 DEF Balanced
    <3>2. /\ IsFiniteSet(DOMAIN watches')
          /\ Cardinality(DOMAIN watches') <= Cardinality(DOMAIN watches)
      BY <1>6, <3>1, FS_Subset
    <3>3. /\ Cardinality(DOMAIN watches) \in Nat
          /\ Cardinality(DOMAIN watches') \in Nat /\ MaxWatches \in Nat
      BY <3>1, <3>2, FS_CardinalityType DEF Feed!DirectoryFeedConstants
    <3> QED BY <3>1, <3>2, <3>3
  <2>3. kernel \subseteq DOMAIN watches'
    BY <1>1, <1>5, <1>6 DEF Balanced
  <2>4. /\ DOMAIN watches' \subseteq Wds
        /\ \A wd \in DOMAIN watches' :
             watches'[wd] = HoldersIn(feed, config_watch, wd)
    BY <1>1, <1>6 DEF Balanced
  <2>5. k2 = [watches |-> k2.watches, kernel |-> k2.kernel,
              queue |-> k2.queue]
    OBVIOUS
  <2>6. Feed!registry' = k2 /\ feed' = feed /\ config_watch' = config_watch
    BY DEF Feed!registry
  <2> HIDE DEF k2
  <2>7. Balanced(k2, feed, config_watch)
    BY <1>3, <1>5, <1>6, <2>1, <2>2, <2>3, <2>4, <2>5 DEF Balanced
  <2> QED BY <2>6, <2>7
<1>8. FeedPlaces'
  BY DEF FeedInv, FeedPlaces, Feed!Live, Activating, Scanning
<1>9. Tracked'
  <2> SUFFICES ASSUME NEW f \in Feed!Feeds, feed[f].wd # NoWd
               PROVE  \/ feed[f].wd \in DOMAIN watches'
                      \/ /\ event'.kind = "ignored"
                         /\ feed[f].wd = event'.wd /\ f \in todo'
    BY DEF Tracked
  <2>1. f \in Feed!Live
    BY DEF FeedInv, FeedPlaces
  <2>2. feed[f].wd \in DOMAIN watches
    BY DEF FeedInv, FeedPlaces, Tracked
  <2> QED BY <1>6, <2>1, <2>2
<1>10. GoneForNow' /\ CancelledEmpty' /\ FeedTyped'
  BY <1>2, <1>6 DEF GoneForNow, FeedInv, CancelledEmpty, FeedTyped
<1> QED BY <1>7, <1>8, <1>9, <1>10 DEF FeedInv

(* The least of a set of naturals.                                          *)
LEMMA LeastNatural ==
  ASSUME NEW S \in SUBSET Nat, S # {}
  PROVE  \E m \in S : \A n \in S : m <= n
<1> DEFINE R == OpToRel(<, Nat)
<1>1. IsWellFoundedOn(R, Nat)
  BY NatLessThanWellFounded
<1>2. \A a, b \in Nat : a < b => <<a, b>> \in R
  BY DEF OpToRel
<1> HIDE DEF R
<1>3. PICK m \in S : \A n \in S : ~ (<<n, m>> \in R)
  BY <1>1, WFMin
<1>4. ASSUME NEW n \in S PROVE m <= n
  <2>1. n \in Nat /\ m \in Nat
    BY <1>3
  <2>2. ~ (n < m)
    BY <1>2, <1>3, <2>1
  <2> QED BY <2>1, <2>2
<1> QED BY <1>3, <1>4

-----------------------------------------------------------------------------
(* What the operations on items and watches leave of a feed.                *)
LEMMA ItemsTypedKept ==
  ASSUME NEW r \in FeedState, NEW n \in FileNames,
         NEW v \in Data \cup {Nothing}
  PROVE  \A s \in {Feed!Put(r, n, v), Feed!Removed(r, n)} :
           /\ s \in FeedState
           /\ s.wd = r.wd /\ s.cancelled = r.cancelled
<1> DEFINE Kept(s) ==
             s \in FeedState /\ s.wd = r.wd /\ s.cancelled = r.cancelled
<1>1. \A m, w : w \in Data \cup {Nothing} => Kept([r EXCEPT !.items[m] = w])
  BY DEF FeedState
<1>2. \A s : Kept(s) => Kept([s EXCEPT !.overflowed = TRUE])
  BY DEF FeedState
<1>3. \A m, w : w \in Data \cup {Nothing} =>
        Kept([r EXCEPT !.items[m] = Nothing, !.items[n] = w,
                       !.overflowed = TRUE])
  BY DEF FeedState
<1>4. Kept(Feed!Put(r, n, v))
  <2> HIDE DEF Kept
  <2>1. Kept(r)
    BY DEF Kept
  <2> QED BY <1>1, <1>2, <1>3, <2>1 DEF Feed!Put
<1>5. Kept(Feed!Removed(r, n))
  BY <1>1 DEF Feed!Removed
<1> QED BY <1>4, <1>5

LEMMA NothingShown ==
  /\ Feed!NewFeed \in FeedState /\ Feed!NewFeed.wd = NoWd
  /\ ~Feed!NewFeed.cancelled
  /\ Feed!NotAFeed \in FeedState /\ Feed!NotAFeed.wd = NoWd
  /\ Feed!Shown(Feed!NotAFeed) = {}
  /\ \A r \in FeedState :
       /\ Feed!Closed(r) \in FeedState /\ Feed!Closed(r).wd = NoWd
       /\ Feed!Closed(r).cancelled = r.cancelled
       /\ Feed!Cleared(Feed!Closed(r)) \in FeedState
       /\ Feed!Cleared(Feed!Closed(r)).wd = NoWd
       /\ Feed!Cleared(Feed!Closed(r)).cancelled = r.cancelled
       /\ Feed!Cancelled(r) \in FeedState /\ Feed!Cancelled(r).wd = NoWd
       /\ Feed!Shown(Feed!Cancelled(r)) = {}
BY DEF Feed!NewFeed, Feed!NotAFeed, Feed!Closed, Feed!Cleared,
       Feed!Cancelled, Feed!NoFiles, Feed!Shown, FeedState

(* One feed changes.                                                        *)
LEMMA OneFeedChanges ==
  ASSUME FeedInv, NEW f \in Feed!Feeds, NEW r \in FeedState,
         r.cancelled => r.wd = NoWd /\ Feed!Shown(r) = {},
         feed' = [feed EXCEPT ![f] = r]
  PROVE  /\ feed' \in [Feed!Feeds -> FeedState] /\ CancelledEmpty'
         /\ feed'[f] = r
         /\ \A g \in Feed!Feeds \ {f} : feed'[g] = feed[g]
<1>1. feed \in [Feed!Feeds -> FeedState]
  BY DEF FeedInv, FeedTyped
<1>2. /\ feed' \in [Feed!Feeds -> FeedState] /\ feed'[f] = r
      /\ \A g \in Feed!Feeds \ {f} : feed'[g] = feed[g]
  BY <1>1
<1>3. CancelledEmpty'
  <2> SUFFICES ASSUME NEW g \in Feed!Feeds, feed'[g].cancelled
               PROVE  feed'[g].wd = NoWd /\ Feed!Shown(feed'[g]) = {}
    BY DEF CancelledEmpty, Feed!Shown
  <2>1. CASE g = f
    BY <1>2, <2>1
  <2>2. CASE g # f
    <3>1. feed'[g] = feed[g]
      BY <1>2, <2>2
    <3> QED BY <3>1 DEF FeedInv, CancelledEmpty
  <2> QED BY <2>1, <2>2
<1> QED BY <1>2, <1>3

(* Items of a feed change.                                                  *)
LEMMA ItemsKeep ==
  ASSUME FeedInv, NEW f \in Feed!Feeds, NEW r \in FeedState,
         r.wd = feed[f].wd, r.cancelled = feed[f].cancelled,
         ~feed[f].cancelled, feed' = [feed EXCEPT ![f] = r],
         listed' \subseteq FileNames, FeedPlaces', pc' # "idle",
         todo' = todo \/ event.kind # "ignored",
         UNCHANGED <<files, kernel, pathwd, queue, watches, config_watch,
                     current, event, back>>
  PROVE  FeedInv'
<1>1. /\ feed' \in [Feed!Feeds -> FeedState] /\ CancelledEmpty'
      /\ \A g \in Feed!Feeds : feed'[g].wd = feed[g].wd
  BY OneFeedChanges
<1>2. FeedTyped'
  BY <1>1 DEF FeedInv, FeedTyped
<1>3. Balanced(Feed!registry', feed', config_watch')
  <2>1. Feed!registry' = Feed!registry
    BY DEF Feed!registry
  <2>2. Balanced(Feed!registry, feed, config_watch)
    BY DEF FeedInv
  <2>3. Balanced(Feed!registry, feed', config_watch)
    BY <1>1, <2>2, SameHolders
  <2> QED BY <2>1, <2>3
<1>4. GoneForNow'
  BY DEF FeedInv, GoneForNow
<1>5. Tracked'
  BY <1>1 DEF FeedInv, Tracked
<1> QED BY <1>1, <1>2, <1>3, <1>4, <1>5 DEF FeedInv

(* The watches of feeds where the loop is, when a feed changes its items.   *)
LEMMA RefreshedTyped ==
  ASSUME FeedInv, NEW f \in Feed!Feeds, NEW n \in FileNames
  PROVE  LET r == Feed!Refreshed(feed[f], n)
         IN  /\ r \in FeedState
             /\ r.wd = feed[f].wd /\ r.cancelled = feed[f].cancelled
<1>1. feed[f] \in FeedState /\ files[n] \in Data \cup {Nothing}
  BY DEF FeedInv, FeedTyped
<1> QED BY <1>1, ItemsTypedKept DEF Feed!Refreshed

LEMMA FeedFileInv ==
  ASSUME FeedInv, NEW f \in Feed!Feeds, Feed!FeedFile(f)
  PROVE  FeedInv'
<1> DEFINE n == event.name
           r == IF event.kind = "removed" \/ files[n] = Nothing
                THEN Feed!Removed(feed[f], n) ELSE Feed!Refreshed(feed[f], n)
<1> USE DEF Feed!FeedFile, Feed!Take, Feed!disk, Feed!inotify, Feed!history
<1>1. n \in FileNames
  BY DEF FeedInv, FeedTyped, Events, Feed!Kinds, FileKinds
<1>2. feed[f] \in FeedState
  BY DEF FeedInv, FeedTyped
<1>3. /\ r \in FeedState
      /\ r.wd = feed[f].wd /\ r.cancelled = feed[f].cancelled
  BY <1>1, <1>2, ItemsTypedKept, RefreshedTyped
<1>4. feed' = [feed EXCEPT ![f] = r]
  OBVIOUS
<1>5. ~feed[f].cancelled
  BY DEF Feed!Concerns
<1> HIDE DEF r
<1>6. /\ feed' \in [Feed!Feeds -> FeedState]
      /\ \A g \in Feed!Feeds : /\ feed'[g].wd = feed[g].wd
                               /\ feed'[g].cancelled = feed[g].cancelled
  BY <1>3, <1>4, <1>5, OneFeedChanges
<1>7. pc' \in {"events", "list"} /\ (pc' = "list" => self' = f)
  OBVIOUS
<1>8. FeedPlaces'
  BY <1>5, <1>6, <1>7 DEF FeedInv, FeedPlaces, Feed!Live, Activating,
                          Scanning
<1>9. listed' \subseteq FileNames /\ pc' # "idle" /\ event.kind # "ignored"
  BY <1>7 DEF FeedInv, FeedTyped
<1>10. UNCHANGED <<files, kernel, pathwd, queue, watches, config_watch,
                   current, event, back>>
  OBVIOUS
<1> QED BY <1>3, <1>4, <1>5, <1>8, <1>9, <1>10, ItemsKeep

LEMMA ScanInv ==
  ASSUME Feed!DirectoryFeedConstants, FeedInv, Feed!List \/ Feed!Refresh
  PROVE  FeedInv'
<1> USE DEF Feed!List, Feed!Refresh, Feed!disk, Feed!inotify, Feed!history
<1>1. /\ pc \in Scanning /\ self \in Feed!Feeds /\ feed[self] \in FeedState
      /\ ~feed[self].cancelled
  BY DEF FeedInv, FeedPlaces, FeedTyped, Scanning, Feed!Live
<1>2. /\ listed' \subseteq FileNames /\ pc' = "refresh"
      /\ \E r \in FeedState :
           /\ r.wd = feed[self].wd /\ r.cancelled = feed[self].cancelled
           /\ feed' = [feed EXCEPT ![self] = r]
  <2>1. CASE Feed!List
    <3> DEFINE more == Feed!Cardinality(Feed!Present) > MaxItems
               kept == [n \in FileNames |->
                          IF n \in listed' THEN feed[self].items[n]
                          ELSE Nothing]
               r == [feed[self] EXCEPT !.overflowed = more, !.items = kept]
    <3>1. kept \in [FileNames -> Data \cup {Nothing}] /\ more \in BOOLEAN
      BY <1>1 DEF FeedState
    <3>2. feed' = [feed EXCEPT ![self].overflowed = more,
                               ![self].items = kept]
      BY <2>1
    <3>3. listed' \subseteq FileNames /\ pc' = "refresh"
      BY <2>1 DEF Feed!First, Feed!Present
    <3> HIDE DEF more, kept
    <3>4. r \in FeedState /\ r.wd = feed[self].wd
          /\ r.cancelled = feed[self].cancelled
      BY <1>1, <3>1 DEF FeedState
    <3>5. feed' = [feed EXCEPT ![self] = r]
      BY <1>1, <3>2 DEF FeedInv, FeedTyped
    <3> QED BY <3>3, <3>4, <3>5
  <2>2. CASE Feed!Refresh
    <3>1. listed \subseteq FileNames
      BY DEF FeedInv, FeedTyped
    <3> DEFINE n == Feed!Min(listed)
    <3>2. n \in listed
      <4>1. listed \in SUBSET Nat /\ listed # {}
        BY <2>2, <3>1 DEF Feed!DirectoryFeedConstants
      <4> QED BY <4>1, LeastNatural DEF Feed!Min
    <3> QED BY <1>1, <2>2, <3>1, <3>2, RefreshedTyped
  <2> QED BY <2>1, <2>2
<1>3. PICK r \in FeedState :
        /\ r.wd = feed[self].wd /\ r.cancelled = feed[self].cancelled
        /\ feed' = [feed EXCEPT ![self] = r]
  BY <1>2
<1>4. \A g \in Feed!Feeds : /\ feed'[g].wd = feed[g].wd
                            /\ feed'[g].cancelled = feed[g].cancelled
  BY <1>1, <1>3, OneFeedChanges
<1>5. FeedPlaces'
  BY <1>1, <1>2, <1>4 DEF FeedInv, FeedPlaces, Feed!Live, Activating,
                          Scanning
<1>6. pc' # "idle" /\ todo' = todo
      /\ UNCHANGED <<files, kernel, pathwd, queue, watches, config_watch,
                     current, event, back>>
  OBVIOUS
<1> QED BY <1>1, <1>2, <1>3, <1>5, <1>6, ItemsKeep

-----------------------------------------------------------------------------
(* Steps that take or give back watches.                                    *)
LEMMA ClosedKeeps ==
  ASSUME Feed!DirectoryFeedConstants, FeedInv, NEW f \in Feed!Feeds,
         Feed!CloseWatch(f), NEW r \in FeedState, r.wd = NoWd,
         r.cancelled => Feed!Shown(r) = {}, feed' = [feed EXCEPT ![f] = r],
         FeedPlaces',
         event.kind = "ignored" =>
           back' = "events" /\ pc' # "idle" /\ todo' = todo,
         UNCHANGED <<files, config_watch, event, listed>>
  PROVE  FeedInv'
<1>1. /\ feed' \in [Feed!Feeds -> FeedState] /\ CancelledEmpty'
      /\ feed'[f] = r
      /\ \A g \in Feed!Feeds \ {f} : feed'[g] = feed[g]
  BY OneFeedChanges
<1>2. /\ Balanced(Feed!registry', feed', config_watch)
      /\ pathwd' \in kernel' \cup {NoWd}
      /\ DOMAIN watches' \subseteq DOMAIN watches
      /\ \A g \in Feed!Feeds : feed'[g].wd \in DOMAIN watches =>
                                 feed'[g].wd \in DOMAIN watches'
  <2>1. feed'[f].wd = NoWd /\ OthersStay(f, feed, feed')
    BY <1>1 DEF OthersStay
  <2> QED BY <2>1, CloseWatchInv
<1>3. FeedTyped'
  BY <1>1, <1>2 DEF FeedInv, FeedTyped
<1>4. Balanced(Feed!registry', feed', config_watch')
  BY <1>2
<1>5. GoneForNow'
  BY <1>2 DEF FeedInv, GoneForNow
<1>6. Tracked'
  <2> SUFFICES ASSUME NEW g \in Feed!Feeds, feed'[g].wd # NoWd
               PROVE  \/ feed'[g].wd \in DOMAIN watches'
                      \/ /\ event'.kind = "ignored"
                         /\ feed'[g].wd = event'.wd /\ g \in todo'
    BY DEF Tracked
  <2>1. g # f /\ feed'[g] = feed[g]
    BY <1>1
  <2>2. \/ feed[g].wd \in DOMAIN watches
        \/ event.kind = "ignored" /\ feed[g].wd = event.wd /\ g \in todo
    BY <2>1 DEF FeedInv, Tracked
  <2> QED BY <1>2, <2>1, <2>2
<1> QED BY <1>1, <1>3, <1>4, <1>5, <1>6 DEF FeedInv

(* A feed loses its directory.                                              *)
LEMMA FeedLostInv ==
  ASSUME Feed!DirectoryFeedConstants, FeedInv, NEW f \in Feed!Feeds,
         Feed!FeedLost(f)
  PROVE  FeedInv'
<1> USE DEF Feed!FeedLost, Feed!Take, Feed!disk, Feed!history
<1> DEFINE r == Feed!Cleared(Feed!Closed(feed[f]))
<1>1. feed[f] \in FeedState
  BY DEF FeedInv, FeedTyped
<1>2. /\ r \in FeedState /\ r.wd = NoWd /\ r.cancelled = feed[f].cancelled
      /\ ~feed[f].cancelled /\ feed' = [feed EXCEPT ![f] = r]
  BY <1>1, NothingShown DEF Feed!Concerns
<1> HIDE DEF r
<1>3. /\ feed' \in [Feed!Feeds -> FeedState] /\ CancelledEmpty'
      /\ feed'[f] = r
      /\ \A g \in Feed!Feeds \ {f} : feed'[g] = feed[g]
  BY <1>2, OneFeedChanges
<1>4. FeedPlaces'
  <2>1. f \in Feed!Live /\ back = "events" /\ todo \subseteq Feed!Live
    BY DEF FeedInv, FeedPlaces
  <2>2. /\ Feed!Live' = Feed!Live
        /\ \A g \in Feed!Feeds \ (Feed!Live \cup todo) : feed[g].wd = NoWd
    BY <2>1 DEF FeedInv, FeedPlaces, Feed!Live
  <2>3. \A g \in Feed!Feeds \ (Feed!Live \cup todo') : feed'[g].wd = NoWd
    BY <1>2, <1>3, <2>1, <2>2
  <2>4. pc' = "mkdir" /\ self' = f /\ todo' = todo \ {f} /\ back' = back
    OBVIOUS
  <2> QED BY <1>2, <1>3, <2>1, <2>2, <2>3, <2>4
          DEF FeedPlaces, Activating, Scanning
<1>5. CASE event.kind = "self"
  <2>1. Feed!CloseWatch(f)
    BY <1>5
  <2>2. UNCHANGED <<files, config_watch, event, listed>>
    OBVIOUS
  <2>3. event.kind # "ignored"
    BY <1>5
  <2> QED BY <1>2, <1>4, <2>1, <2>2, <2>3, ClosedKeeps
<1>6. CASE event.kind = "ignored"
  <2>1. UNCHANGED <<kernel, pathwd, queue, watches>>
    BY <1>6 DEF Feed!inotify
  <2>2. feed[f].wd = event.wd
    BY <1>6 DEF Feed!Concerns, Feed!Overflow, Feed!Event
  <2>3. event.wd \notin DOMAIN watches
    BY <1>6 DEF FeedInv, GoneForNow
  <2>4. Balanced(Feed!registry', feed', config_watch')
    <3>1. Feed!registry' = Feed!registry /\ Feed!registry.watches = watches
      BY <2>1 DEF Feed!registry
    <3>2. /\ Balanced(Feed!registry, feed, config_watch)
          /\ NoWd \notin DOMAIN watches
      BY <3>1 DEF FeedInv, Balanced, Feed!DirectoryFeedConstants
    <3>3. \A g \in Feed!Feeds :
            \/ feed'[g].wd = feed[g].wd
            \/ /\ feed[g].wd \notin DOMAIN Feed!registry.watches
               /\ feed'[g].wd \notin DOMAIN Feed!registry.watches
      BY <1>2, <1>3, <2>2, <2>3, <3>1, <3>2
    <3>4. Balanced(Feed!registry, feed', config_watch)
      BY <3>2, <3>3, SameHolders
    <3> QED BY <3>1, <3>4
  <2>5. FeedTyped'
    BY <1>3, <2>1 DEF FeedInv, FeedTyped
  <2>6. GoneForNow'
    BY <2>1 DEF FeedInv, GoneForNow, FeedPlaces
  <2>7. Tracked'
    BY <1>2, <1>3, <2>1 DEF FeedInv, Tracked
  <2> QED BY <1>3, <1>4, <2>4, <2>5, <2>6, <2>7 DEF FeedInv
<1> QED BY <1>5, <1>6

(* A block of the current generation is faulted.                            *)
LEMMA FeedFaultInv ==
  ASSUME Feed!DirectoryFeedConstants, FeedInv, NEW f \in Feed!Feeds,
         Feed!Fault(f)
  PROVE  FeedInv'
<1> USE DEF Feed!Fault, Feed!disk, Feed!history, Feed!control
<1> DEFINE r == Feed!Cancelled(feed[f])
<1>1. feed[f] \in FeedState
  BY DEF FeedInv, FeedTyped
<1>2. /\ r \in FeedState /\ r.wd = NoWd /\ Feed!Shown(r) = {}
      /\ feed' = [feed EXCEPT ![f] = r]
  BY <1>1, NothingShown
<1> HIDE DEF r
<1>3. /\ feed'[f] = r
      /\ \A g \in Feed!Feeds \ {f} : feed'[g] = feed[g]
  BY <1>2, OneFeedChanges
<1>4. pc \in {"idle", "commit"} /\ todo = {}
  BY DEF FeedInv, FeedPlaces
<1>5. FeedPlaces'
  BY <1>2, <1>3, <1>4 DEF FeedInv, FeedPlaces, Feed!Live, Activating,
                          Scanning
<1>6. event.kind # "ignored"
  BY <1>4 DEF FeedInv, GoneForNow, FeedPlaces
<1>7. Feed!CloseWatch(f) /\ UNCHANGED <<files, config_watch, event, listed>>
  OBVIOUS
<1> QED BY <1>2, <1>5, <1>6, <1>7, ClosedKeeps

(* A feed of the old generation is destroyed.                               *)
LEMMA DestroyInv ==
  ASSUME Feed!DirectoryFeedConstants, FeedInv, NEW f \in Feed!Feeds,
         Feed!Destroy(f)
  PROVE  FeedInv'
<1> USE DEF Feed!Destroy, Feed!disk
<1> DEFINE r == Feed!NotAFeed
<1>1. /\ r \in FeedState /\ r.wd = NoWd /\ Feed!Shown(r) = {}
      /\ feed' = [feed EXCEPT ![f] = r]
  BY NothingShown
<1> HIDE DEF r
<1>2. /\ feed'[f] = r
      /\ \A g \in Feed!Feeds \ {f} : feed'[g] = feed[g]
  BY <1>1, OneFeedChanges
<1>3. FeedPlaces'
  BY <1>1, <1>2 DEF FeedInv, FeedPlaces, Feed!Live, Activating, Scanning
<1>4. event.kind # "ignored"
  BY DEF FeedInv, GoneForNow, FeedPlaces
<1>5. Feed!CloseWatch(f) /\ UNCHANGED <<files, config_watch, event, listed>>
  OBVIOUS
<1> QED BY <1>1, <1>3, <1>4, <1>5, ClosedKeeps

(* A feed takes the watch of its directory.                                 *)
LEMMA WatchPathInv ==
  ASSUME Feed!DirectoryFeedConstants, FeedInv, Feed!WatchPath
  PROVE  FeedInv'
<1> USE DEF Feed!WatchPath, Feed!disk
<1> DEFINE wd == Feed!PathWd
           r == [feed[self] EXCEPT !.wd = wd]
           k == Feed!registry
<1>1. /\ self \in Feed!Feeds /\ self \in Feed!Live /\ feed[self].wd = NoWd
      /\ self \notin todo /\ ~feed[self].cancelled
      /\ feed[self] \in FeedState /\ feed \in [Feed!Feeds -> FeedState]
  BY DEF FeedInv, FeedPlaces, FeedTyped, Activating, Feed!Live
<1>2. /\ wd \in Wds
      /\ event.kind = "ignored" => wd # event.wd
      /\ \A i \in DOMAIN queue :
           queue[i].kind = "ignored" => queue[i].wd # wd
      /\ wd \notin DOMAIN watches =>
           config_watch # wd /\ \A f \in Feed!Feeds : feed[f].wd # wd
  BY PathWdKnown
<1>3. wd \notin DOMAIN watches => Cardinality(DOMAIN watches) < MaxWatches
  <2> SUFFICES ASSUME wd \notin DOMAIN watches
               PROVE  Cardinality(DOMAIN watches) < MaxWatches
    OBVIOUS
  <2>1. Cardinality(DOMAIN watches) # MaxWatches
    BY FeedSizes DEF Feed!NoRoom, Feed!Full
  <2>2. /\ IsFiniteSet(DOMAIN watches)
        /\ Cardinality(DOMAIN watches) <= MaxWatches
    BY DEF FeedInv, Balanced, Feed!registry
  <2>3. Cardinality(DOMAIN watches) \in Nat /\ MaxWatches \in Nat
    BY <2>2, FS_CardinalityType DEF Feed!DirectoryFeedConstants
  <2> QED BY <2>1, <2>2, <2>3
<1>4. /\ pathwd' = wd /\ feed' = [feed EXCEPT ![self].wd = wd]
      /\ Feed!Become(Feed!Acquired(k, wd))
  OBVIOUS
<1> HIDE DEF wd
<1>5. /\ feed' = [feed EXCEPT ![self] = r] /\ r \in FeedState /\ r.wd = wd
      /\ r.cancelled = feed[self].cancelled
  BY <1>1, <1>2, <1>4 DEF FeedState
<1> HIDE DEF r
<1>6. /\ feed' \in [Feed!Feeds -> FeedState] /\ CancelledEmpty'
      /\ feed'[self] = r
      /\ \A g \in Feed!Feeds \ {self} : feed'[g] = feed[g]
  BY <1>1, <1>5, OneFeedChanges
<1>7. k.watches = watches /\ k.kernel = kernel /\ k.queue = queue
      /\ Balanced(k, feed, config_watch)
  BY DEF Feed!registry, FeedInv
<1> HIDE DEF k
<1>8. /\ Balanced(Feed!Acquired(k, wd), feed', config_watch)
      /\ Feed!Acquired(k, wd).kernel = kernel \cup {wd}
      /\ DOMAIN Feed!Acquired(k, wd).watches = DOMAIN watches \cup {wd}
  <2>1. feed'[self].wd = wd /\ OthersStay(self, feed, feed')
    BY <1>5, <1>6 DEF OthersStay
  <2>2. Grantable(k, feed, config_watch, wd)
    BY <1>2, <1>3, <1>7 DEF Grantable
  <2>3. /\ Balanced(Feed!Acquired(k, wd), feed', config_watch)
        /\ Feed!Acquired(k, wd).kernel = k.kernel \cup {wd}
        /\ DOMAIN Feed!Acquired(k, wd).watches = DOMAIN k.watches \cup {wd}
    <3> HIDE DEF Feed!WatchPath, Feed!disk
    <3>1. wd \in Wds /\ feed[self].wd = NoWd /\ self \in Feed!Feeds
      BY <1>1, <1>2
    <3>2. Balanced(k, feed, config_watch)
      BY <1>7
    <3>3. ASSUME NEW fd2, fd2[self].wd = wd, OthersStay(self, feed, fd2)
          PROVE  /\ Balanced(Feed!Acquired(k, wd), fd2, config_watch)
                 /\ Feed!Acquired(k, wd).kernel = k.kernel \cup {wd}
                 /\ DOMAIN Feed!Acquired(k, wd).watches =
                      DOMAIN k.watches \cup {wd}
      BY <2>2, <3>1, <3>2, <3>3, AcquiredBalanced
    <3> QED BY <2>1, <3>3
  <2> QED BY <1>7, <2>3
<1> DEFINE k2 == Feed!Acquired(k, wd)
<1>9. watches' = k2.watches /\ kernel' = k2.kernel /\ queue' = k2.queue
  BY <1>4 DEF Feed!Become
<1> HIDE DEF k2
<1>10. Balanced(Feed!registry', feed', config_watch')
  <2>1. Feed!registry' = k2
    BY <1>8, <1>9 DEF Feed!registry, Balanced, k2
  <2> QED BY <1>8, <2>1 DEF k2
<1>11. FeedTyped'
  BY <1>4, <1>6, <1>8, <1>9 DEF FeedInv, FeedTyped, k2
<1>12. FeedPlaces'
  <2>1. pc' = "check" /\ UNCHANGED <<todo, self, back, current>>
    OBVIOUS
  <2> QED BY <1>1, <1>5, <1>6, <2>1
          DEF FeedInv, FeedPlaces, Feed!Live, Activating, Scanning
<1>13. GoneForNow'
  BY <1>2, <1>8, <1>9 DEF FeedInv, GoneForNow, k2
<1>14. Tracked'
  BY <1>5, <1>6, <1>8, <1>9 DEF FeedInv, Tracked, k2
<1> QED BY <1>6, <1>10, <1>11, <1>12, <1>13, <1>14 DEF FeedInv

(* A feed cannot be activated.                                              *)
LEMMA ActivateFailsInv ==
  ASSUME Feed!DirectoryFeedConstants, FeedInv, Feed!ActivateFails
  PROVE  FeedInv'
<1> DEFINE r == IF back = "commit"
                THEN Feed!Cancelled(feed[self])
                ELSE Feed!Closed(feed[self])
<1>1. /\ pc \in Activating \cup Scanning
      /\ feed' = [feed EXCEPT ![self] = r]
      /\ pc' = back /\ self' = Feed!NoFeed
      /\ UNCHANGED <<files, config_watch, current, event, todo, back, listed>>
  BY DEF Feed!ActivateFails, Feed!disk, Activating, Scanning
<1>2. /\ self \in Feed!Feeds /\ self \in Feed!Live /\ self \notin todo
      /\ ~feed[self].cancelled /\ feed[self] \in FeedState
  BY <1>1 DEF FeedInv, FeedPlaces, FeedTyped, Feed!Live
<1>3. /\ r \in FeedState /\ r.wd = NoWd
      /\ r.cancelled => Feed!Shown(r) = {}
  BY <1>2, NothingShown
<1> HIDE DEF r
<1>4. /\ feed' \in [Feed!Feeds -> FeedState] /\ CancelledEmpty'
      /\ feed'[self] = r
      /\ \A g \in Feed!Feeds \ {self} : feed'[g] = feed[g]
  BY <1>1, <1>2, <1>3, OneFeedChanges
<1>5. FeedPlaces'
  <2>1. back \in {"events", "commit"} /\ todo \subseteq Feed!Live
    BY <1>1 DEF FeedInv, FeedPlaces, Activating, Scanning
  <2>2. \A g \in todo : feed'[g] = feed[g]
    BY <1>2, <1>4, <2>1 DEF Feed!Live
  <2>3. back = "events" =>
          \A g \in Feed!Feeds \ (Feed!Live \cup todo) : feed'[g].wd = NoWd
    BY <1>2, <1>4 DEF FeedInv, FeedPlaces
  <2>4. back = "commit" =>
          \A g \in todo : feed[g].wd = NoWd /\ ~feed[g].cancelled
    BY <1>1 DEF FeedInv, FeedPlaces, Activating, Scanning
  <2>5. Feed!Live' = Feed!Live
    BY <1>1 DEF Feed!Live
  <2> QED BY <1>1, <2>1, <2>2, <2>3, <2>4, <2>5
          DEF FeedPlaces, Activating, Scanning
<1>6. event.kind = "ignored" => back = "events" /\ pc' # "idle"
  BY <1>1 DEF FeedInv, GoneForNow
<1>7. CASE pc = "check"
  <2>1. Feed!CloseWatch(self)
    BY <1>7 DEF Feed!ActivateFails
  <2> QED BY <1>1, <1>2, <1>3, <1>5, <1>6, <2>1, ClosedKeeps
<1>8. CASE pc # "check"
  <2>1. feed[self].wd = NoWd
    BY <1>8 DEF FeedInv, FeedPlaces, Feed!ActivateFails, Activating
  <2>2. \A g \in Feed!Feeds : feed'[g].wd = feed[g].wd
    BY <1>2, <1>3, <1>4, <2>1
  <2>3. UNCHANGED <<watches, kernel, pathwd>>
    BY <1>8 DEF Feed!ActivateFails, Feed!inotify
  <2>4. Balanced(Feed!registry', feed, config_watch)
    <3>1. CASE queue' = queue
      BY <2>3, <3>1, SameInotify
    <3>2. CASE /\ Feed!NoRoom
               /\ queue' = Feed!Notified(queue, Feed!Event("ignored",
                                                     Feed!PathWd, Nothing))
      <4> DEFINE k == Feed!registry
                 e == Feed!Event("ignored", Feed!PathWd, Nothing)
      <4>1. /\ k.watches = watches /\ k.kernel = kernel /\ k.queue = queue
            /\ Balanced(k, feed, config_watch)
            /\ kernel \subseteq DOMAIN watches
        BY DEF Feed!registry, FeedInv, Balanced
      <4>2. e \in Events /\ e.wd = Feed!PathWd /\ Feed!PathWd \notin kernel
        BY <3>2, <4>1, PathWdKnown, EventsTyped DEF Feed!NoRoom
      <4> HIDE DEF k, e
      <4>3. Balanced([watches |-> k.watches, kernel |-> k.kernel,
                      queue |-> Feed!Notified(k.queue, e)],
                     feed, config_watch)
        <5>1. k.kernel \in SUBSET k.kernel
          OBVIOUS
        <5>2. e.wd \notin k.kernel
          BY <4>1, <4>2
        <5> QED BY <4>1, <4>2, <5>1, <5>2, ToldBalanced
      <4>4. Feed!registry' = [watches |-> k.watches, kernel |-> k.kernel,
                              queue |-> Feed!Notified(k.queue, e)]
        BY <2>3, <3>2, <4>1 DEF Feed!registry, e
      <4> QED BY <4>3, <4>4
    <3> QED BY <1>8, <3>1, <3>2 DEF Feed!ActivateFails, Feed!inotify
  <2>5. Balanced(Feed!registry', feed', config_watch')
    <3>1. Balanced(Feed!registry', feed', config_watch)
      BY <2>2, <2>4, SameHolders
    <3> QED BY <1>1, <3>1
  <2>6. FeedTyped'
    BY <1>1, <1>4, <2>3 DEF FeedInv, FeedTyped
  <2>7. GoneForNow'
    BY <1>1, <1>6, <2>3 DEF FeedInv, GoneForNow
  <2>8. Tracked'
    BY <1>1, <2>2, <2>3 DEF FeedInv, Tracked
  <2> QED BY <1>4, <1>5, <2>5, <2>6, <2>7, <2>8 DEF FeedInv
<1> QED BY <1>7, <1>8

(* The feeds of a new generation have no watches yet, and those of the one  *)
(* before the last none any more.                                           *)
LEMMA BeginCommitInv ==
  ASSUME FeedInv, NEW g \in Ids, Feed!BeginCommit(g)
  PROVE  FeedInv'
<1> USE DEF Feed!BeginCommit, Feed!disk, Feed!inotify, Feed!history
<1>1. /\ \A f \in Feed!Feeds : f[1] = g => feed[f].wd = NoWd
      /\ event.kind # "ignored"
  BY DEF FeedInv, FeedPlaces, GoneForNow, Feed!Live
<1>2. \A f \in Feed!Feeds :
        feed'[f] = IF f[1] = g THEN Feed!NewFeed ELSE feed[f]
  OBVIOUS
<1>3. /\ feed' \in [Feed!Feeds -> FeedState]
      /\ \A f \in Feed!Feeds : feed'[f].wd = feed[f].wd
  <2>1. feed \in [Feed!Feeds -> FeedState]
    BY DEF FeedInv, FeedTyped
  <2> QED BY <1>1, <1>2, <2>1, NothingShown
<1>4. CancelledEmpty'
  <2> SUFFICES ASSUME NEW f \in Feed!Feeds, feed'[f].cancelled
               PROVE  feed'[f].wd = NoWd /\ Feed!Shown(feed'[f]) = {}
    BY DEF CancelledEmpty, Feed!Shown
  <2>1. feed'[f] = feed[f]
    BY <1>2, NothingShown
  <2> QED BY <2>1 DEF FeedInv, CancelledEmpty
<1>5. Balanced(Feed!registry', feed', config_watch')
  <2>1. Balanced(Feed!registry', feed, config_watch)
    BY SameInotify
  <2>2. Balanced(Feed!registry', feed', config_watch)
    BY <1>3, <2>1, SameHolders
  <2> QED BY <2>2
<1>6. FeedTyped'
  BY <1>3 DEF FeedInv, FeedTyped
<1>7. FeedPlaces'
  <2>1. todo' = Feed!Live' /\ pc' = "commit" /\ back' = "commit"
    BY DEF Feed!Live
  <2>2. \A f \in todo' : feed'[f].wd = NoWd /\ ~feed'[f].cancelled
    BY <1>2, NothingShown
  <2> QED BY <2>1, <2>2 DEF FeedPlaces, Activating, Scanning
<1>8. GoneForNow'
  BY <1>1 DEF GoneForNow
<1>9. Tracked'
  BY <1>1, <1>3 DEF FeedInv, Tracked
<1> QED BY <1>4, <1>5, <1>6, <1>7, <1>8, <1>9 DEF FeedInv

-----------------------------------------------------------------------------
LEMMA FeedInit ==
  ASSUME Feed!DirectoryFeedConstants, Feed!Init
  PROVE  FeedInv
<1> USE DEF Feed!Init
<1>1. pathwd \in Wds
  <2>1. Wds # {}
    <3> SUFFICES ASSUME Wds = {} PROVE FALSE
      OBVIOUS
    <3>1. IsFiniteSet(Wds) /\ Cardinality(Wds) = 0
      BY FS_EmptySet
    <3> QED BY <3>1, FeedSizes DEF Feed!DirectoryFeedConstants
  <2> QED BY <2>1
<1>2. \A f \in Feed!Feeds : feed[f] = Feed!NotAFeed
  OBVIOUS
<1>3. feed \in [Feed!Feeds -> FeedState] /\ CancelledEmpty
  BY <1>2, NothingShown DEF CancelledEmpty
<1>4. FeedTyped
  BY <1>1, <1>3, EventsTyped DEF FeedTyped
<1>5. Balanced(Feed!registry, feed, config_watch)
  <2> DEFINE k == [watches |-> watches, kernel |-> kernel, queue |-> queue]
  <2>1. k.watches = watches /\ k.kernel = kernel /\ k.queue = queue
    OBVIOUS
  <2>2. /\ watches \in [DOMAIN watches -> Nat]
        /\ DOMAIN watches = {pathwd} /\ watches[pathwd] = 1
    OBVIOUS
  <2>3. IsFiniteSet({pathwd}) /\ Cardinality({pathwd}) = 1
    BY FS_Singleton
  <2>4. MaxWatches \in Nat \ {0} /\ QueueMax \in Nat /\ NoWd \notin Wds
    BY DEF Feed!DirectoryFeedConstants
  <2>5. QueueFits(queue)
    BY <2>4 DEF QueueFits
  <2>6. HoldersIn(feed, config_watch, pathwd) = 1
    <3>1. HoldersAt(feed, pathwd) = {}
      BY <1>1, <1>2, <2>4, NothingShown DEF HoldersAt
    <3>2. Cardinality(HoldersAt(feed, pathwd)) = 0
      BY <3>1, FS_EmptySet
    <3> QED BY <3>2 DEF HoldersIn
  <2>7. DOMAIN queue = {}
    OBVIOUS
  <2>8. k = [watches |-> k.watches, kernel |-> k.kernel, queue |-> k.queue]
    OBVIOUS
  <2>9. Feed!registry = k
    BY DEF Feed!registry
  <2>10. kernel = {pathwd} /\ config_watch = pathwd
    OBVIOUS
  <2> HIDE DEF k, Feed!Init
  <2>11. /\ IsFiniteSet(DOMAIN k.watches)
         /\ Cardinality(DOMAIN k.watches) <= MaxWatches
         /\ DOMAIN k.watches \subseteq Wds
         /\ k.kernel \subseteq DOMAIN k.watches
    BY <1>1, <2>1, <2>2, <2>3, <2>4, <2>10
  <2>12. \A wd \in DOMAIN k.watches :
           k.watches[wd] = HoldersIn(feed, config_watch, wd)
    BY <2>1, <2>2, <2>6
  <2>13. k.watches \in [DOMAIN k.watches -> Nat]
    BY <2>1, <2>2
  <2>14. Balanced(k, feed, config_watch)
    BY <2>1, <2>5, <2>7, <2>8, <2>11, <2>12, <2>13 DEF Balanced
  <2> QED BY <2>9, <2>14
<1>6. FeedPlaces
  BY <1>2, NothingShown DEF FeedPlaces, Activating, Scanning
<1>7. GoneForNow /\ Tracked
  BY <1>2, EventsTyped, NothingShown DEF GoneForNow, Tracked
<1> QED BY <1>3, <1>4, <1>5, <1>6, <1>7 DEF FeedInv

LEMMA FeedNext ==
  ASSUME Feed!DirectoryFeedConstants, FeedInv, Feed!Next
  PROVE  FeedInv'
<1>1. CASE Feed!Producers
  BY <1>1, ProducersInv
<1>2. ASSUME NEW f \in Feed!Feeds,
             \/ Feed!Skip(f) \/ Feed!FeedOverflow(f) \/ Feed!FeedLost(f)
             \/ Feed!FeedFile(f) \/ Feed!Fault(f) \/ Feed!Destroy(f)
      PROVE  FeedInv'
  BY <1>2, SkipInv, FeedOverflowInv, FeedLostInv, FeedFileInv, FeedFaultInv,
     DestroyInv
<1>3. CASE Feed!ReadEvent \/ Feed!EventDone
  BY <1>3, ReadEventInv, EventDoneInv
<1>4. CASE \/ Feed!MakePath \/ Feed!OpenPath \/ Feed!WatchPath
           \/ Feed!CheckPath \/ Feed!ActivateFails
  BY <1>4, ActivationInv, WatchPathInv, ActivateFailsInv
<1>5. CASE \/ Feed!List \/ Feed!ListFails \/ Feed!Refresh
           \/ Feed!RefreshDone
  BY <1>5, ScanInv, ScanEndsInv
<1>6. CASE \/ Feed!BeginDestroy \/ Feed!CommitDone
           \/ \E f \in Feed!Feeds : Feed!Activate(f)
  BY <1>6, CommitStepsInv
<1>7. CASE \E g \in Ids : Feed!BeginCommit(g)
  BY <1>7, BeginCommitInv
<1> QED BY <1>1, <1>2, <1>3, <1>4, <1>5, <1>6, <1>7
        DEF Feed!Next, Feed!Loop

LEMMA FeedStutter == ASSUME FeedInv, UNCHANGED feed_vars PROVE FeedInv'
<1>1. UNCHANGED <<config_watch, current, feed, pc, event, todo, self, back,
                  listed, watches, files, kernel, pathwd, queue>>
  BY DEF feed_vars
<1>2. files' \in [FileNames -> Data \cup {Nothing}]
  BY <1>1 DEF FeedInv, FeedTyped
<1> QED BY <1>1, <1>2, SameInotify, ProducerKeeps

LEMMA FeedShares == ASSUME FeedInv PROVE Feed!WatchesShared
<1>1. \A wd \in DOMAIN watches : watches[wd] = Feed!Holders(wd)
  <2>1. \A wd : Feed!Holders(wd) = HoldersIn(feed, config_watch, wd)
    BY FeedSizes DEF Feed!Holders, HoldersIn, HoldersAt
  <2> QED BY <2>1 DEF FeedInv, Balanced, Feed!registry
<1>2. kernel \subseteq DOMAIN watches
  BY DEF FeedInv, Balanced, Feed!registry
<1>3. pc = "idle" => \A f \in Feed!Feeds :
        feed[f].wd # NoWd => feed[f].wd \in DOMAIN watches
  BY DEF FeedInv, Tracked, GoneForNow
<1>4. \A f \in Feed!Feeds : feed[f].cancelled =>
        feed[f].wd = NoWd /\ Feed!Shown(feed[f]) = {}
  BY DEF FeedInv, CancelledEmpty
<1> QED BY <1>1, <1>2, <1>3, <1>4 DEF Feed!WatchesShared

(* The table of watches counts exactly its holders, and nobody takes a      *)
(* watch away from another (directory_feed.c, main.c): for any number of    *)
(* feeds, files, watches and queued events.                                 *)
THEOREM WatchesStayShared == Spec => []WatchesShared
<1> DEFINE Inv == kind = "directory" => FeedInv
<1> USE SourcesAssumption
<1>1. Init => Inv
  BY FeedInit DEF Init
<1>2. Inv /\ [Next]_vars => Inv'
  <2> SUFFICES ASSUME Inv, [Next]_vars, kind' = "directory" PROVE FeedInv'
    OBVIOUS
  <2>1. kind = "directory" /\ (Feed!Next \/ UNCHANGED feed_vars)
    BY DEF Next, SourceStep, FeedStep, ItemStep, ClickStep, vars
  <2> QED BY <2>1, FeedNext, FeedStutter
<1>3. Inv => WatchesShared
  BY FeedShares DEF WatchesShared
<1> QED BY <1>1, <1>2, <1>3, PTL DEF Spec

-----------------------------------------------------------------------------
(* Subscribers.                                                             *)

(* Subscriptions are those of Subs, and told has an entry for each.         *)
ToldEach ==
  /\ live \subseteq Subs
  /\ told = [s \in Subs |-> told[s]]

(* Connections to the managers are records with these fields.               *)
Bus(c) ==
  c = [open |-> c.open, waiting |-> c.waiting, valid |-> c.valid,
       count |-> c.count, query |-> c.query, subscribe |-> c.subscribe,
       refused |-> c.refused, out |-> c.out, in |-> c.in]

BusEach ==
  /\ source = [b \in Buses |-> source[b]]
  /\ \A b \in Buses : Bus(source[b])

(* Whom the notification under way, if any, need not visit any more was     *)
(* told what holds now.                                                     *)
CountsTold ==
  \A s \in live \ (cancelled \cup walk) :
    (\A b \in Scope[s] : source[b].valid) => told[s] = Systemd!Counts(s)

SystemdInv == ToldEach /\ BusEach /\ CountsTold

(* A connection whose count does not become another valid one.              *)
NoNews(c, d) == d.valid => c.valid /\ d.count = c.count

LEMMA NoNewsKeeps ==
  ASSUME Systemd!SystemdConstants, SystemdInv,
         UNCHANGED <<live, walk, told>>, cancelled \subseteq cancelled',
         NEW b \in Buses, source' = [source EXCEPT ![b] = source'[b]],
         Bus(source'[b]), NoNews(source[b], source'[b])
  PROVE  SystemdInv'
<1>1. BusEach' /\ \A a \in Buses : NoNews(source[a], source'[a])
  BY DEF SystemdInv, BusEach, NoNews
<1>2. ToldEach'
  BY DEF SystemdInv, ToldEach
<1>3. ASSUME NEW s \in live' \ (cancelled' \cup walk'),
             \A a \in Scope[s] : source'[a].valid
      PROVE  told'[s] = Systemd!Counts(s)'
  <2>1. s \in live \ (cancelled \cup walk) /\ s \in Subs
    BY DEF SystemdInv, ToldEach
  <2>2. Scope[s] \subseteq Buses
    BY <2>1 DEF Systemd!SystemdConstants
  <2>3. \A a \in Scope[s] :
          source[a].valid /\ source'[a].count = source[a].count
    BY <1>1, <1>3, <2>2 DEF NoNews
  <2>4. told[s] = Systemd!Counts(s)
    BY <2>1, <2>3 DEF SystemdInv, CountsTold
  <2> QED BY <2>3, <2>4 DEF Systemd!Counts
<1> QED BY <1>1, <1>2, <1>3 DEF SystemdInv, CountsTold

LEMMA ServiceInv ==
  ASSUME Systemd!SystemdConstants, SystemdInv, NEW b \in Buses,
         \/ Systemd!Serve(b) \/ Systemd!UnitsChange(b)
         \/ Systemd!Disconnect(b) \/ Systemd!RetryDue(b)
  PROVE  SystemdInv'
<1> DEFINE c == source[b]
<1>1. UNCHANGED <<live, walk, told, cancelled>>
  BY DEF Systemd!Serve, Systemd!UnitsChange, Systemd!Disconnect,
         Systemd!RetryDue, Systemd!subscriptions
<1>2. Bus(c) /\ source = [a \in Buses |-> source[a]]
  BY DEF SystemdInv, BusEach
<1>3. /\ source' = [source EXCEPT ![b] = source'[b]]
      /\ Bus(source'[b]) /\ NoNews(c, source'[b])
  <2> USE DEF Bus, NoNews
  <2>1. CASE Systemd!Serve(b)
    <3>1. PICK m : source' = [source EXCEPT ![b].out = Tail(@),
                                            ![b].in = Append(@, m)]
      BY <2>1 DEF Systemd!Serve
    <3> QED BY <1>2, <3>1
  <2>2. CASE Systemd!UnitsChange(b)
    BY <1>2, <2>2 DEF Systemd!UnitsChange
  <2>3. CASE Systemd!Disconnect(b)
    <3>1. PICK k : source' = [source EXCEPT ![b] = Systemd!Broken(@, k)]
      BY <2>3 DEF Systemd!Disconnect
    <3>2. PICK q : Systemd!Broken(c, k) = [c EXCEPT !.out = <<>>, !.in = q]
      BY DEF Systemd!Broken
    <3> QED BY <1>2, <3>1, <3>2
  <2>4. CASE Systemd!RetryDue(b)
    BY <1>2, <2>4 DEF Systemd!RetryDue
  <2> QED BY <2>1, <2>2, <2>3, <2>4
<1> QED BY <1>1, <1>3, NoNewsKeeps

(* The handlers of messages other than a count, and what opens or closes.   *)
LEMMA BusInv ==
  ASSUME Systemd!SystemdConstants, SystemdInv, NEW b \in Buses,
         \/ Systemd!MatchInstalled(b) \/ Systemd!SubscribeReply(b)
         \/ Systemd!PropertyChanged(b) \/ Systemd!Lost(b)
         \/ Systemd!Reconcile(b)
  PROVE  SystemdInv'
<1> DEFINE c == source[b]
<1>1. UNCHANGED <<live, walk, told, cancelled>>
  BY DEF Systemd!MatchInstalled, Systemd!SubscribeReply,
         Systemd!PropertyChanged, Systemd!Lost, Systemd!Reconcile,
         Systemd!CloseUnneeded, Systemd!OpenBus, Systemd!RegisterFails,
         Systemd!subscriptions
<1>2. Bus(c) /\ source = [a \in Buses |-> source[a]]
  BY DEF SystemdInv, BusEach
<1>3. /\ source' = [source EXCEPT ![b] = source'[b]]
      /\ Bus(source'[b]) /\ NoNews(c, source'[b])
  <2> USE DEF Bus, NoNews
  <2>1. CASE Systemd!MatchInstalled(b)
    BY <1>2, <2>1 DEF Systemd!MatchInstalled, Systemd!Handle,
                      Systemd!OnMatch, Systemd!RequestSubscribe
  <2>2. CASE Systemd!SubscribeReply(b)
    BY <1>2, <2>2 DEF Systemd!SubscribeReply, Systemd!Handle,
                      Systemd!OnSubscribed, Systemd!RequestSnapshot
  <2>3. CASE Systemd!PropertyChanged(b)
    BY <1>2, <2>3 DEF Systemd!PropertyChanged, Systemd!Handle,
                      Systemd!OnSignal, Systemd!RequestSnapshot
  <2>4. CASE Systemd!Lost(b) \/ Systemd!Reconcile(b)
    BY <1>2, <2>4
       DEF Systemd!Lost, Systemd!Reconcile, Systemd!CloseUnneeded,
           Systemd!OpenBus, Systemd!RegisterFails, Systemd!GiveUp,
           Systemd!Close, Systemd!Opened, Systemd!Unconnected
  <2> QED BY <2>1, <2>2, <2>3, <2>4
<1> QED BY <1>1, <1>3, NoNewsKeeps

(* An answer: either it is no news, or everyone is to be visited.           *)
LEMMA SnapshotInv ==
  ASSUME Systemd!SystemdConstants, SystemdInv, NEW b \in Buses,
         Systemd!SnapshotReply(b)
  PROVE  SystemdInv'
<1> DEFINE c == source[b]
           m == Head(c.in)
<1>1. UNCHANGED <<live, told, cancelled>> /\ walk = {}
      /\ walk' = IF Systemd!Changed(c, m) THEN live ELSE {}
  BY DEF Systemd!SnapshotReply, Systemd!Receive
<1>2. Bus(c) /\ source = [a \in Buses |-> source[a]]
  BY DEF SystemdInv, BusEach
<1>3. /\ source' = [source EXCEPT ![b] = source'[b]]
      /\ Bus(source'[b])
      /\ ~ Systemd!Changed(c, m) => NoNews(c, source'[b])
  BY <1>2 DEF Systemd!SnapshotReply, Systemd!Handle, Systemd!OnCount,
              Systemd!Changed, Bus, NoNews
<1>4. CASE ~ Systemd!Changed(c, m)
  BY <1>1, <1>3, <1>4, NoNewsKeeps
<1>5. CASE Systemd!Changed(c, m)
  BY <1>1, <1>2, <1>3, <1>5
     DEF SystemdInv, ToldEach, BusEach, CountsTold
<1> QED BY <1>4, <1>5

(* Visits, and what happens to subscriptions.                               *)
LEMMA CountsHeardInv ==
  ASSUME Systemd!SystemdConstants, SystemdInv,
         \/ \E s \in Subs : Systemd!Visit(s)
         \/ Systemd!Cancel \/ Systemd!Commit
  PROVE  SystemdInv'
<1> USE DEF SystemdInv, ToldEach, BusEach, CountsTold
<1>1. ASSUME NEW s \in Subs, Systemd!Visit(s) PROVE SystemdInv'
  <2>1. /\ UNCHANGED <<source, live>> /\ s \in walk /\ walk' = walk \ {s}
        /\ cancelled \subseteq cancelled'
    BY <1>1 DEF Systemd!Visit, Systemd!VisitWith
  <2>2. \A t : Systemd!Counts(t)' = Systemd!Counts(t)
    BY <2>1 DEF Systemd!Counts
  <2>3. IF s \in live \ cancelled /\ \A b \in Scope[s] : source[b].valid
          THEN told' = [told EXCEPT ![s] = Systemd!Counts(s)]
          ELSE UNCHANGED <<told, cancelled>>
    BY <1>1 DEF Systemd!Visit, Systemd!VisitWith, Systemd!Active
  <2>4. told' = [t \in Subs |-> told'[t]]
        /\ \A t \in Subs \ {s} : told'[t] = told[t]
    BY <2>3
  <2>5. ASSUME NEW t \in live' \ (cancelled' \cup walk'),
               \A b \in Scope[t] : source'[b].valid
        PROVE  told'[t] = Systemd!Counts(t)'
    <3>1. CASE t = s
      BY <2>1, <2>2, <2>3, <2>5, <3>1
    <3>2. CASE t # s
      BY <2>1, <2>2, <2>4, <2>5, <3>2
    <3> QED BY <3>1, <3>2
  <2> QED BY <2>1, <2>4, <2>5
<1>2. CASE Systemd!Cancel
  <2>1. /\ UNCHANGED <<source, live, walk, told>>
        /\ cancelled \subseteq cancelled'
    BY <1>2 DEF Systemd!Cancel, Systemd!CancelWith
  <2> QED BY <2>1 DEF Systemd!Counts
<1>3. CASE Systemd!Commit
  BY <1>3 DEF Systemd!Commit, Systemd!CommitWith
<1> QED BY <1>1, <1>2, <1>3

LEMMA SystemdInit ==
  ASSUME Systemd!SystemdConstants, Systemd!Init
  PROVE  SystemdInv
BY DEF Systemd!Init, Systemd!InitSubscriptions, Systemd!Unconnected,
       SystemdInv, ToldEach, BusEach, Bus, CountsTold

LEMMA SystemdNext ==
  ASSUME Systemd!SystemdConstants, SystemdInv, Systemd!Next
  PROVE  SystemdInv'
BY ServiceInv, BusInv, SnapshotInv, CountsHeardInv
   DEF Systemd!Next, Systemd!Process

LEMMA SystemdStutter ==
  ASSUME SystemdInv, UNCHANGED source_vars PROVE SystemdInv'
BY DEF SystemdInv, ToldEach, BusEach, CountsTold, Systemd!Counts, source_vars

LEMMA SystemdTold == ASSUME SystemdInv PROVE Systemd!SubscribersTold
BY DEF SystemdInv, CountsTold, Systemd!SubscribersTold, Systemd!Active

-----------------------------------------------------------------------------
(* Power profiles.                                                          *)

(* The connection to the service is a record with these fields, indexed by  *)
(* property where the code has a variable for each.                         *)
Client(c) ==
  /\ c = [open |-> c.open, waiting |-> c.waiting, valid |-> c.valid,
          inflight |-> c.inflight, value |-> c.value,
          refused |-> c.refused, out |-> c.out, in |-> c.in]
  /\ c.valid = [p \in Profiles!Properties |-> c.valid[p]]
  /\ c.value = [p \in Profiles!Properties |-> c.value[p]]

PairTold ==
  Profiles!AllValid(source) =>
    \A s \in live \ (cancelled \cup walk) : told[s] = source.value

ProfilesInv == ToldEach /\ Client(source) /\ PairTold

(* A pair that does not become another valid one.                           *)
SamePair(c, d) ==
  Profiles!AllValid(d) => Profiles!AllValid(c) /\ d.value = c.value

LEMMA SamePairKeeps ==
  ASSUME ProfilesInv, UNCHANGED <<live, walk, told>>,
         cancelled \subseteq cancelled', Client(source'),
         SamePair(source, source')
  PROVE  ProfilesInv'
BY DEF ProfilesInv, ToldEach, PairTold, SamePair, Profiles!AllValid

(* Whatever a connection asks for or closes, the values stay.               *)
LEMMA Asked ==
  ASSUME NEW c, Client(c)
  PROVE  LET d == Profiles!RequestSnapshots(c)
         IN  Client(d) /\ d.valid = c.valid /\ d.value = c.value
BY DEF Profiles!RequestSnapshots, Client

LEMMA RestOf ==
  ASSUME Client(source)
  PROVE  /\ Client(Profiles!Rest)
         /\ Profiles!Rest.valid = source.valid
         /\ Profiles!Rest.value = source.value
<1>1. \A q : [source EXCEPT !.in = q].valid = source.valid
             /\ [source EXCEPT !.in = q].value = source.value
             /\ Client([source EXCEPT !.in = q])
  BY DEF Client
<1> QED BY <1>1 DEF Profiles!Rest

LEMMA ClosedClient ==
  ASSUME NEW c, Client(c),
         NEW d \in {Profiles!Close(c), Profiles!GiveUp(c)}
  PROVE  Client(d) /\ ~ Profiles!AllValid(d)
BY DEF Profiles!Close, Profiles!GiveUp, Profiles!Unconnected, Profiles!None,
       Client, Profiles!AllValid, Profiles!Properties

LEMMA ProfilesServiceInv ==
  ASSUME ProfilesInv,
         \/ Profiles!Serve \/ Profiles!ServiceChanges \/ Profiles!Disconnect
         \/ Profiles!RetryDue
         \/ \E profile \in Ids : Profiles!SetProfile(profile)
  PROVE  ProfilesInv'
<1>1. UNCHANGED <<live, walk, told, cancelled>>
  BY DEF Profiles!Serve, Profiles!ServiceChanges, Profiles!Disconnect,
         Profiles!RetryDue, Profiles!SetProfile, Profiles!subscriptions
<1>2. Client(source)
  BY DEF ProfilesInv
<1>3. Client(source') /\ SamePair(source, source')
  <2> USE DEF Client, SamePair, Profiles!AllValid
  <2>1. CASE Profiles!Serve
    <3> DEFINE taken == [source EXCEPT !.out = Tail(@)]
    <3>1. PICK d \in {taken, Profiles!Signal(taken)} :
            \E m : source' = [d EXCEPT !.in = Append(@, m)]
      BY <2>1 DEF Profiles!Serve
    <3>2. PICK m : source' = [d EXCEPT !.in = Append(@, m)]
      BY <3>1
    <3> QED BY <1>2, <3>1, <3>2 DEF Profiles!Signal
  <2>2. CASE Profiles!ServiceChanges
    BY <1>2, <2>2 DEF Profiles!ServiceChanges, Profiles!Signal
  <2>3. CASE Profiles!Disconnect
    <3>1. PICK k : source' = Profiles!Broken(source, k)
      BY <2>3 DEF Profiles!Disconnect
    <3>2. PICK q : Profiles!Broken(source, k)
                     = [source EXCEPT !.out = <<>>, !.in = q]
      BY DEF Profiles!Broken
    <3> QED BY <1>2, <3>1, <3>2
  <2>4. CASE Profiles!RetryDue
    BY <1>2, <2>4 DEF Profiles!RetryDue
  <2>5. ASSUME NEW profile \in Ids, Profiles!SetProfile(profile)
        PROVE  Client(source') /\ SamePair(source, source')
    BY <1>2, <2>5 DEF Profiles!SetProfile
  <2> QED BY <2>1, <2>2, <2>3, <2>4, <2>5
<1> QED BY <1>1, <1>3, SamePairKeeps

LEMMA ClientInv ==
  ASSUME ProfilesInv,
         \/ Profiles!MatchInstalled \/ Profiles!PropertiesChanged
         \/ Profiles!SetReply \/ Profiles!Lost \/ Profiles!Reconcile
  PROVE  ProfilesInv'
<1>1. UNCHANGED <<live, walk, told, cancelled>>
  BY DEF Profiles!MatchInstalled, Profiles!PropertiesChanged,
         Profiles!SetReply, Profiles!Lost, Profiles!Reconcile,
         Profiles!CloseUnneeded, Profiles!OpenSource,
         Profiles!RegisterFails, Profiles!subscriptions
<1>2. /\ Client(source) /\ Client(Profiles!Rest)
      /\ Profiles!Rest.valid = source.valid
      /\ Profiles!Rest.value = source.value
  BY RestOf DEF ProfilesInv
<1>3. Client(source') /\ SamePair(source, source')
  <2>1. CASE Profiles!MatchInstalled \/ Profiles!PropertiesChanged
    <3>1. \/ source' = Profiles!RequestSnapshots(Profiles!Rest)
          \/ source' = [Profiles!Rest EXCEPT
                          !.refused = [p \in Profiles!Properties |-> TRUE]]
      BY <2>1 DEF Profiles!MatchInstalled, Profiles!PropertiesChanged
    <3>2. CASE source' = Profiles!RequestSnapshots(Profiles!Rest)
      BY <1>2, <3>2, Asked DEF SamePair, Profiles!AllValid
    <3>3. CASE source' = [Profiles!Rest EXCEPT
                            !.refused = [p \in Profiles!Properties |-> TRUE]]
      BY <1>2, <3>3 DEF Client, SamePair, Profiles!AllValid
    <3> QED BY <3>1, <3>2, <3>3
  <2>2. CASE Profiles!SetReply
    BY <1>2, <2>2 DEF Profiles!SetReply, SamePair, Profiles!AllValid
  <2>3. CASE /\ Profiles!Lost \/ Profiles!Reconcile
             /\ source' \in {Profiles!Close(source), Profiles!GiveUp(source)}
    BY <1>2, <2>3, ClosedClient DEF SamePair
  <2>4. CASE source' = Profiles!Opened(source)
    BY <1>2, <2>4 DEF Profiles!Opened, Client, SamePair, Profiles!AllValid
  <2> QED BY <2>1, <2>2, <2>3, <2>4
          DEF Profiles!Lost, Profiles!Reconcile, Profiles!CloseUnneeded,
              Profiles!OpenSource, Profiles!RegisterFails
<1> QED BY <1>1, <1>3, SamePairKeeps

(* An answer: either it is no news, or there is no valid pair yet, or       *)
(* everyone is to be visited.                                               *)
LEMMA PropertyReplyInv ==
  ASSUME ProfilesInv, NEW p \in Profiles!Properties,
         Profiles!PropertyReply(p)
  PROVE  ProfilesInv'
<1> DEFINE m == Head(source.in)
<1>1. /\ UNCHANGED <<live, told, cancelled>> /\ walk = {}
      /\ source' = Profiles!Answered(p, m)
      /\ walk' = IF Profiles!Changed(p, m) /\ Profiles!AllValid(source')
                   THEN live ELSE {}
  BY DEF Profiles!PropertyReply, Profiles!Receive
<1>2. /\ Client(source) /\ Client(Profiles!Rest)
      /\ Profiles!Rest.valid = source.valid
      /\ Profiles!Rest.value = source.value
  BY RestOf DEF ProfilesInv
<1> HIDE DEF m
<1>3. CASE m.ok
  <2> DEFINE c == Profiles!Rest
  <2>1. /\ source' = [c EXCEPT !.inflight[p] = FALSE, !.refused[p] = FALSE,
                               !.valid[p] = TRUE, !.value[p] = m.value]
    BY <1>1, <1>3 DEF Profiles!Answered
  <2>2. /\ source'.valid = [source.valid EXCEPT ![p] = TRUE]
        /\ source'.value = [source.value EXCEPT ![p] = m.value]
        /\ Client(source')
    BY <1>2, <2>1 DEF Client
  <2>3. CASE Profiles!Changed(p, m)
    BY <1>1, <2>2, <2>3 DEF ProfilesInv, ToldEach, PairTold
  <2>4. CASE ~ Profiles!Changed(p, m)
    <3>1. source.valid[p] /\ source.value[p] = m.value
      BY <1>3, <2>4 DEF Profiles!Changed
    <3>2. source'.value = source.value
      BY <1>2, <2>2, <3>1 DEF Client
    <3>3. \A q \in Profiles!Properties : source'.valid[q] => source.valid[q]
      BY <1>2, <2>2, <3>1 DEF Client
    <3>4. SamePair(source, source')
      BY <3>2, <3>3 DEF SamePair, Profiles!AllValid
    <3> QED BY <1>1, <2>2, <2>4, <3>4, SamePairKeeps
  <2> QED BY <2>3, <2>4
<1>4. CASE ~ m.ok
  <2> DEFINE c == Profiles!Rest
  <2>1. source' = [c EXCEPT !.inflight[p] = FALSE, !.refused[p] = TRUE,
                            !.valid[p] = FALSE]
    BY <1>1, <1>4 DEF Profiles!Answered
  <2>2. /\ source'.valid = [source.valid EXCEPT ![p] = FALSE]
        /\ Client(source')
    BY <1>2, <2>1 DEF Client
  <2>3. ~ source'.valid[p]
    BY <1>2, <2>2 DEF Client
  <2>4. SamePair(source, source')
    BY <2>3 DEF SamePair, Profiles!AllValid
  <2> QED BY <1>1, <1>4, <2>2, <2>4, SamePairKeeps DEF Profiles!Changed
<1> QED BY <1>3, <1>4

LEMMA PairHeardInv ==
  ASSUME ProfilesInv,
         \/ \E s \in Subs : Profiles!Visit(s)
         \/ Profiles!Cancel \/ Profiles!Commit
  PROVE  ProfilesInv'
<1> USE DEF ProfilesInv, ToldEach, PairTold
<1>1. ASSUME NEW s \in Subs, Profiles!Visit(s) PROVE ProfilesInv'
  <2>1. /\ UNCHANGED <<source, live>> /\ walk' = walk \ {s}
        /\ cancelled \subseteq cancelled'
    BY <1>1 DEF Profiles!Visit, Profiles!VisitWith
  <2>2. IF s \in live \ cancelled /\ Profiles!AllValid(source)
          THEN told' = [told EXCEPT ![s] = source.value]
          ELSE UNCHANGED <<told, cancelled>>
    BY <1>1 DEF Profiles!Visit, Profiles!VisitWith, Profiles!Active
  <2>3. told' = [t \in Subs |-> told'[t]]
        /\ \A t \in Subs \ {s} : told'[t] = told[t]
    BY <2>2
  <2>4. ASSUME Profiles!AllValid(source), Profiles!AllValid(source)',
               NEW t \in live' \ (cancelled' \cup walk')
        PROVE  told'[t] = source'.value
    BY <2>1, <2>2, <2>3, <2>4
  <2>5. Profiles!AllValid(source)' = Profiles!AllValid(source)
    BY <2>1 DEF Profiles!AllValid
  <2>6. Client(source)'
    BY <2>1
  <2> QED BY <2>1, <2>3, <2>4, <2>5, <2>6
<1>2. CASE Profiles!Cancel
  <2>1. /\ UNCHANGED <<source, live, walk, told>>
        /\ cancelled \subseteq cancelled'
    BY <1>2 DEF Profiles!Cancel, Profiles!CancelWith
  <2> QED BY <2>1 DEF Profiles!AllValid
<1>3. CASE Profiles!Commit
  BY <1>3 DEF Profiles!Commit, Profiles!CommitWith
<1> QED BY <1>1, <1>2, <1>3

LEMMA ProfilesInit == ASSUME Profiles!Init PROVE ProfilesInv
BY DEF Profiles!Init, Profiles!InitSubscriptions, Profiles!Unconnected,
       Profiles!None, ProfilesInv, ToldEach, Client, PairTold

LEMMA ProfilesNext == ASSUME ProfilesInv, Profiles!Next PROVE ProfilesInv'
BY ProfilesServiceInv, ClientInv, PropertyReplyInv, PairHeardInv
   DEF Profiles!Next, Profiles!Process

LEMMA ProfilesStutter ==
  ASSUME ProfilesInv, UNCHANGED source_vars PROVE ProfilesInv'
BY SamePairKeeps
   DEF ProfilesInv, SamePair, Client, Profiles!AllValid, source_vars

LEMMA ProfilesAreTold == ASSUME ProfilesInv PROVE Profiles!ProfilesTold
BY DEF ProfilesInv, PairTold, Profiles!ProfilesTold, Profiles!Active

-----------------------------------------------------------------------------
(* Power supply events.                                                     *)

Socket(c) ==
  /\ c = [open |-> c.open, waiting |-> c.waiting, queue |-> c.queue,
          overrun |-> c.overrun, reading |-> c.reading,
          changed |-> c.changed, left |-> c.left]
  /\ c.queue \in Seq(BOOLEAN)
  /\ ~ c.reading => ~ c.changed

(* Whoever is owed a call is on the walk, or what it is owed for was read   *)
(* in this burst or still waits in the socket.                              *)
Announced(c) == c.changed \/ \E i \in DOMAIN c.queue : c.queue[i]

HintsOwed ==
  \A s \in live \ (cancelled \cup walk) :
    told[s] = TRUE \/ Announced(source)

(* Nobody is visited while the socket is read.                              *)
OneByOne == source.reading => walk = {}

SupplyInv == ToldEach /\ Socket(source) /\ HintsOwed /\ OneByOne

LEMMA AnnouncedKeeps ==
  ASSUME SupplyInv, UNCHANGED <<live, walk, told>>,
         cancelled \subseteq cancelled', Socket(source'),
         Announced(source) => Announced(source'), OneByOne'
  PROVE  SupplyInv'
BY DEF SupplyInv, ToldEach, HintsOwed

LEMMA AllKnown ==
  ASSUME SupplyInv, live' \subseteq Subs, Socket(source'),
         told' = Supply!Known, OneByOne'
  PROVE  SupplyInv'
BY DEF SupplyInv, ToldEach, HintsOwed, Supply!Known

LEMMA ClosedSocket ==
  ASSUME NEW w \in BOOLEAN
  PROVE  LET c == [Supply!Closed EXCEPT !.waiting = w]
         IN  Socket(c) /\ Socket(Supply!Closed) /\ ~ c.reading
<1>1. Socket(Supply!Closed) /\ ~ Supply!Closed.reading
  BY DEF Socket, Supply!Closed
<1>2. \A c : Socket(c) => LET d == [c EXCEPT !.waiting = w]
                          IN  Socket(d) /\ d.reading = c.reading
  BY DEF Socket
<1> QED BY <1>1, <1>2

LEMMA UeventInv ==
  ASSUME SupplyInv, NEW ours \in BOOLEAN, Supply!Uevent(ours)
  PROVE  SupplyInv'
<1> USE DEF SupplyInv, Supply!Uevent
<1> DEFINE q == source.queue
<1>1. CASE Len(q) < QueueMax
  <2>1. source' = [source EXCEPT !.queue = Append(@, ours)]
    BY <1>1
  <2>2. /\ Append(q, ours) \in Seq(BOOLEAN)
        /\ Append(q, ours)[Len(q) + 1] = ours
        /\ \A i \in DOMAIN q : Append(q, ours)[i] = q[i]
        /\ DOMAIN Append(q, ours) = DOMAIN q \cup {Len(q) + 1}
    BY DEF Socket
  <2>3. source'.queue = Append(q, ours) /\ source'.changed = source.changed
    BY <2>1 DEF Socket
  <2>4. Socket(source') /\ OneByOne'
    BY <2>1, <2>2 DEF Socket, OneByOne
  <2>5. CASE ours
    <3>1. Announced(source')
      BY <2>2, <2>3, <2>5 DEF Announced
    <3>2. told' = [s \in Subs |-> NotTold] /\ live' = live
      BY <1>1, <2>5
    <3> QED BY <2>4, <3>1, <3>2 DEF ToldEach, HintsOwed
  <2>6. CASE ~ ours
    <3>1. Announced(source) => Announced(source')
      BY <2>2, <2>3 DEF Announced
    <3> QED BY <1>1, <2>4, <2>6, <3>1, AnnouncedKeeps
  <2> QED BY <2>5, <2>6
<1>2. CASE ~ (Len(q) < QueueMax)
  <2>1. source' = [source EXCEPT !.overrun = TRUE]
    BY <1>2
  <2>2. Socket(source') /\ Announced(source) => Announced(source')
    BY <2>1 DEF Socket, Announced
  <2>3. Socket(source') /\ OneByOne'
    BY <2>1 DEF Socket, OneByOne
  <2> QED BY <1>2, <2>2, <2>3, AnnouncedKeeps
<1> QED BY <1>1, <1>2

LEMMA SocketInv ==
  ASSUME SupplyInv,
         \/ Supply!BeginProcess \/ Supply!Interrupted \/ Supply!Open
         \/ Supply!RetryDue
  PROVE  SupplyInv'
<1> USE DEF Supply!BeginProcess, Supply!Interrupted, Supply!Open,
            Supply!RetryDue, Supply!subscriptions
<1>1. /\ Socket(source') /\ OneByOne'
      /\ Announced(source) => Announced(source')
  BY DEF SupplyInv, Socket, Announced, OneByOne
<1>2. UNCHANGED <<live, walk, told, cancelled>>
  OBVIOUS
<1> QED BY <1>1, <1>2, AnnouncedKeeps

LEMMA ReceiveInv ==
  ASSUME SupplyInv, Supply!Receive
  PROVE  SupplyInv'
<1> DEFINE q == source.queue
<1>1. /\ source.reading /\ q # <<>>
      /\ source' = [source EXCEPT !.queue = Tail(@), !.left = @ - 1,
                                  !.changed = Supply!Changed(Head(q))]
      /\ UNCHANGED <<live, walk, told, cancelled>>
  BY DEF Supply!Receive, Supply!subscriptions
<1>2. q \in Seq(BOOLEAN) /\ Socket(source)
  BY DEF SupplyInv, Socket
<1>3. /\ Tail(q) \in Seq(BOOLEAN) /\ Head(q) = q[1]
      /\ \A i \in DOMAIN q : i = 1 \/ (i - 1 \in DOMAIN Tail(q)
                                        /\ Tail(q)[i - 1] = q[i])
  <2>1. Len(q) \in Nat /\ DOMAIN q = 1..Len(q) /\ Len(q) > 0
    BY <1>1, <1>2
  <2>2. Tail(q) \in Seq(BOOLEAN) /\ Len(Tail(q)) = Len(q) - 1
    BY <1>1, <1>2, HeadTailProperties
  <2>4. DOMAIN Tail(q) = 1..Len(q) - 1
    BY <2>2
  <2>5. \A i \in 1..Len(q) - 1 : Tail(q)[i] = q[i + 1]
    BY <1>1, <1>2, <2>2, HeadTailProperties
  <2>3. Head(q) = q[1]
    BY <1>1, <1>2
  <2> QED BY <2>1, <2>2, <2>3, <2>4, <2>5
<1>4. /\ source'.queue = Tail(q)
      /\ source'.changed = (source.changed \/ Head(q))
      /\ Socket(source') /\ OneByOne'
  BY <1>1, <1>2, <1>3 DEF Socket, Supply!Changed, SupplyInv, OneByOne
<1>5. Announced(source) => Announced(source')
  BY <1>3, <1>4 DEF Announced
<1> QED BY <1>1, <1>4, <1>5, AnnouncedKeeps

LEMMA ReceivedInv ==
  ASSUME SupplyInv, Supply!Received
  PROVE  SupplyInv'
<1>1. /\ source' = [source EXCEPT !.reading = FALSE, !.changed = FALSE,
                                  !.left = 0]
      /\ walk' = IF source.changed THEN live ELSE {}
      /\ source.reading /\ UNCHANGED <<live, told, cancelled>>
  BY DEF Supply!Received
<1>2. /\ Socket(source') /\ source'.queue = source.queue /\ OneByOne'
      /\ walk = {}
  BY <1>1 DEF SupplyInv, Socket, OneByOne
<1>3. CASE source.changed
  BY <1>1, <1>2, <1>3 DEF SupplyInv, ToldEach, HintsOwed
<1>4. CASE ~ source.changed
  <2>1. Announced(source) => Announced(source')
    BY <1>2, <1>4 DEF Announced
  <2> QED BY <1>1, <1>2, <1>4, <2>1 DEF SupplyInv, ToldEach, HintsOwed
<1> QED BY <1>3, <1>4


(* Nothing is left to say once the socket is closed, or everyone replaced.  *)
LEMMA SupplyClosedInv ==
  ASSUME SupplyInv,
         \/ Supply!ReceiveFails \/ Supply!NotNeeded
         \/ \E new \in SUBSET Subs : Supply!Commit(new)
  PROVE  SupplyInv'
<1>1. CASE Supply!ReceiveFails \/ Supply!NotNeeded
  <2>1. /\ source' \in {Supply!Closed, [Supply!Closed EXCEPT !.waiting = TRUE]}
        /\ told' = Supply!Known /\ live' = live
    BY <1>1 DEF Supply!ReceiveFails, Supply!NotNeeded
  <2>2. ~ source'.reading
    BY <2>1, ClosedSocket DEF Supply!Closed
  <2> QED BY <2>1, <2>2, ClosedSocket, AllKnown
          DEF SupplyInv, ToldEach, OneByOne
<1>2. ASSUME NEW new \in SUBSET Subs, Supply!Commit(new) PROVE SupplyInv'
  BY <1>2, AllKnown DEF Supply!Commit, SupplyInv, OneByOne
<1> QED BY <1>1, <1>2

LEMMA HintsHeardInv ==
  ASSUME SupplyInv, NEW s \in Subs, Supply!Visit(s) \/ Supply!Cancel(s)
  PROVE  SupplyInv'
<1>1. CASE Supply!Visit(s)
  <2>1. /\ UNCHANGED <<source, live>> /\ s \in walk /\ walk' = walk \ {s}
        /\ cancelled \subseteq cancelled'
    BY <1>1 DEF Supply!Visit, Supply!VisitWith
  <2>2. IF s \in live \ cancelled
          THEN told' = [told EXCEPT ![s] = TRUE]
          ELSE UNCHANGED <<told, cancelled>>
    BY <1>1 DEF Supply!Visit, Supply!VisitWith, Supply!Active
  <2>3. /\ told' = [t \in Subs |-> told'[t]]
        /\ \A t \in Subs \ {s} : told'[t] = told[t]
        /\ s \in live \ cancelled => told'[s] = TRUE
    BY <2>2 DEF SupplyInv, ToldEach
  <2>4. OneByOne' /\ Socket(source')
    BY <2>1 DEF SupplyInv, OneByOne
  <2>5. ASSUME NEW t \in live' \ (cancelled' \cup walk')
        PROVE  told'[t] = TRUE \/ Announced(source')
    BY <2>1, <2>3 DEF SupplyInv, ToldEach, HintsOwed
  <2> QED BY <2>1, <2>3, <2>4, <2>5 DEF SupplyInv, ToldEach, HintsOwed
<1>2. CASE Supply!Cancel(s)
  <2>1. /\ UNCHANGED <<source, live, walk, told>>
        /\ cancelled \subseteq cancelled'
    BY <1>2 DEF Supply!Cancel, Supply!CancelWith
  <2> QED BY <2>1, AnnouncedKeeps DEF SupplyInv, OneByOne
<1> QED BY <1>1, <1>2

LEMMA SupplyInit == ASSUME Supply!Init PROVE SupplyInv
BY ClosedSocket
   DEF Supply!Init, Supply!InitSubscriptions, SupplyInv, ToldEach, HintsOwed,
       OneByOne

LEMMA SupplyNext == ASSUME SupplyInv, Supply!Next PROVE SupplyInv'
BY UeventInv, SocketInv, ReceiveInv, ReceivedInv, SupplyClosedInv,
   HintsHeardInv
   DEF Supply!Next

LEMMA SupplyStutter ==
  ASSUME SupplyInv, UNCHANGED source_vars PROVE SupplyInv'
BY AnnouncedKeeps DEF SupplyInv, OneByOne, source_vars

LEMMA SupplyTold == ASSUME SupplyInv PROVE Supply!HintsTold
<1> SUFFICES ASSUME Supply!Idle, source.queue = <<>>,
                    NEW s \in live \ cancelled
             PROVE  told[s] = TRUE
  BY DEF Supply!HintsTold, Supply!Active
<1>1. ~ Announced(source)
  BY DEF SupplyInv, Socket, Supply!Idle, Announced
<1> QED BY <1>1 DEF SupplyInv, HintsOwed, Supply!Idle

-----------------------------------------------------------------------------
(* PipeWire.                                                                *)

(* The source is a record with, at the least, the fields that matter here.  *)
Player(c) ==
  /\ c = [f \in DOMAIN c |-> c[f]]
  /\ {"waiting", "valid", "volume", "delivered"} \subseteq DOMAIN c

(* What a callback is told.                                                 *)
Heard(c) == IF c.valid THEN c.volume ELSE Unavailable

(* Everyone has seen the revision or is about to, and who has seen it was   *)
(* told what holds.                                                         *)
VolumesTold ==
  /\ live \ cancelled \subseteq source.delivered \cup walk
  /\ \A s \in (live \ cancelled) \cap source.delivered :
       told[s] = Heard(source)

SinkInv == ToldEach /\ Player(source) /\ VolumesTold

(* A change to what holds is a new revision.                                *)
Published(c, d) ==
  /\ Player(d)
  /\ \/ d.delivered = {}
     \/ d.delivered = c.delivered /\ Heard(d) = Heard(c)

LEMMA PublishedTwice ==
  ASSUME NEW c, NEW d, NEW e, Published(c, d), Published(d, e)
  PROVE  Published(c, e)
BY DEF Published

(* What binds, unbinds, opens and closes publishes nothing, and what        *)
(* publishes makes a revision.                                              *)
LEMMA Unpublished ==
  ASSUME NEW c, Player(c)
  PROVE  /\ Published(c, c)
         /\ \A q : Published(c, [c EXCEPT !.in = q])
         /\ \A w : Published(c, [c EXCEPT !.waiting = w])
         /\ \A k : Published(c, [c EXCEPT !.sinks = k])
         /\ \A n : Published(c, [c EXCEPT !.default = n])
BY DEF Published, Player, Heard

LEMMA Detached ==
  ASSUME NEW c, Player(c)
  PROVE  /\ Published(c, Sink!DetachNode(c))
         /\ Published(c, Sink!DetachMetadata(c))
BY DEF Published, Player, Heard, Sink!DetachNode, Sink!DetachMetadata

LEMMA Bound ==
  ASSUME NEW c, Player(c)
  PROVE  /\ Published(c, Sink!BindDefault(c))
         /\ Published(c, Sink!BindMetadata(c))
<1>1. ASSUME NEW n, NEW f, NEW q
      PROVE  Published(c, [c EXCEPT !.node = n, !.node_served = f, !.in = q])
  <2> DEFINE d == [c EXCEPT !.node = n, !.node_served = f, !.in = q]
  <2>1. DOMAIN d = DOMAIN c /\ d = [field \in DOMAIN d |-> d[field]]
    BY DEF Player
  <2>2. /\ d.waiting = c.waiting /\ d.delivered = c.delivered
        /\ d.valid = c.valid /\ d.volume = c.volume
    BY DEF Player
  <2> HIDE DEF d
  <2>3. Published(c, d)
    BY <2>1, <2>2 DEF Published, Player, Heard
  <2> QED BY <2>3 DEF d
<1>2. ASSUME NEW f, NEW q
      PROVE  Published(c, [c EXCEPT !.metadata = TRUE,
                                    !.metadata_served = f, !.in = q])
  <2> DEFINE d == [c EXCEPT !.metadata = TRUE, !.metadata_served = f,
                            !.in = q]
  <2>1. DOMAIN d = DOMAIN c /\ d = [field \in DOMAIN d |-> d[field]]
    BY DEF Player
  <2>2. /\ d.waiting = c.waiting /\ d.delivered = c.delivered
        /\ d.valid = c.valid /\ d.volume = c.volume
    BY DEF Player
  <2> HIDE DEF d
  <2>3. Published(c, d)
    BY <2>1, <2>2 DEF Published, Player, Heard
  <2> QED BY <2>3 DEF d
<1>3. Published(c, Sink!BindDefault(c))
  BY <1>1, Unpublished DEF Sink!BindDefault
<1>4. Published(c, Sink!BindMetadata(c))
  BY <1>2 DEF Sink!BindMetadata
<1> QED BY <1>3, <1>4

LEMMA ClosedNative ==
  ASSUME NEW c, Player(c)
  PROVE  Published(c, Sink!CloseNative(c))
BY DEF Published, Player, Heard, Sink!CloseNative, Sink!Created

LEMMA PublishedNews ==
  ASSUME NEW c, Player(c)
  PROVE  /\ Published(c, Sink!PublishUnavailable(c))
         /\ \A v : Published(c, Sink!PublishVolume(c, v))
BY DEF Published, Player, Heard, Sink!PublishUnavailable, Sink!PublishVolume

LEMMA GivenUp ==
  ASSUME NEW c, Player(c)
  PROVE  Published(c, Sink!GiveUp(c))
<1> DEFINE d == Sink!PublishUnavailable(c)
           e == Sink!CloseNative(d)
<1>1. Published(c, d)
  BY PublishedNews
<1>2. Published(d, e)
  BY <1>1, ClosedNative DEF Published
<1>3. Published(e, [e EXCEPT !.waiting = TRUE])
  BY <1>2, Unpublished DEF Published
<1> HIDE DEF d, e
<1>4. Published(c, [e EXCEPT !.waiting = TRUE])
  BY <1>1, <1>2, <1>3, PublishedTwice
<1> QED BY <1>4 DEF Sink!GiveUp, d, e

(* The handlers of events.                                                  *)
LEMMA Handled ==
  ASSUME NEW c, Player(c), NEW e,
         NEW d \in {Sink!OnSink(c, e), Sink!OnMetadata(c, e),
                    Sink!OnDefault(c, e), Sink!OnParam(c, e),
                    Sink!OnRemove(c, e), Sink!OnGone(c, e),
                    Sink!OnBroken(c, e)}
  PROVE  Published(c, d)
<1>1. Published(c, Sink!OnSink(c, e))
  <2> DEFINE k == [c EXCEPT !.sinks = @ \cup {[id |-> e.id, name |-> e.value]}]
  <2>1. Published(c, k)
    BY Unpublished
  <2>2. Published(k, Sink!BindDefault(k))
    BY <2>1, Bound DEF Published
  <2> HIDE DEF k
  <2>3. Published(c, Sink!BindDefault(k))
    BY <2>1, <2>2, PublishedTwice
  <2> QED BY <2>3, Unpublished DEF Sink!OnSink, k
<1>2. Published(c, Sink!OnMetadata(c, e))
  BY Unpublished, Bound DEF Sink!OnMetadata
<1>3. Published(c, Sink!OnDefault(c, e))
  <2> DEFINE d1 == Sink!DetachNode(c)
             d2 == Sink!PublishUnavailable(d1)
             d3 == [d2 EXCEPT !.default = e.value]
             d4 == Sink!BindDefault(d3)
  <2>1. Published(c, d1)
    BY Detached
  <2>2. Published(d1, d2)
    BY <2>1, PublishedNews DEF Published
  <2>3. Published(d2, d3)
    BY <2>2, Unpublished DEF Published
  <2>4. Published(d3, d4)
    BY <2>3, Bound DEF Published
  <2> HIDE DEF d1, d2, d3, d4
  <2>5. Published(c, d4)
    BY <2>1, <2>2, <2>3, <2>4, PublishedTwice
  <2> QED BY <2>5, Unpublished DEF Sink!OnDefault, d1, d2, d3, d4
<1>4. Published(c, Sink!OnParam(c, e))
  BY PublishedNews DEF Sink!OnParam
<1>5. Published(c, Sink!OnRemove(c, e))
  <2> DEFINE d1 == Sink!DetachNode(c)
             d2 == Sink!PublishUnavailable(d1)
             left == IF c.node = e.id THEN d2 ELSE c
             d3 == [left EXCEPT !.sinks = {k \in @ : k.id # e.id}]
  <2>1. Published(c, d1)
    BY Detached
  <2>2. Published(d1, d2)
    BY <2>1, PublishedNews DEF Published
  <2>3. Published(c, left)
    <3> HIDE DEF d1, d2
    <3> QED BY <2>1, <2>2, PublishedTwice, Unpublished
  <2>4. Published(left, d3)
    <3> HIDE DEF left
    <3> QED BY <2>3, Unpublished DEF Published
  <2>5. d3 = Sink!OnRemove(c, e)
    BY DEF Sink!OnRemove
  <2> HIDE DEF left, d3
  <2> QED BY <2>3, <2>4, <2>5, PublishedTwice
<1>6. Published(c, Sink!OnGone(c, e))
  <2> DEFINE d1 == Sink!DetachMetadata(c)
             d2 == [d1 EXCEPT !.default = NoName]
             d3 == Sink!PublishUnavailable(d2)
  <2>1. Published(c, d1)
    BY Detached
  <2>2. Published(d1, d2)
    BY <2>1, Unpublished DEF Published
  <2>3. Published(d2, d3)
    BY <2>2, PublishedNews DEF Published
  <2> HIDE DEF d1, d2, d3
  <2>4. Published(c, d3)
    BY <2>1, <2>2, <2>3, PublishedTwice
  <2> QED BY <2>4, Unpublished DEF Sink!OnGone, d1, d2, d3
<1>7. Published(c, Sink!OnBroken(c, e))
  BY GivenUp DEF Sink!OnBroken
<1> QED BY <1>1, <1>2, <1>3, <1>4, <1>5, <1>6, <1>7

(* Whoever has not seen a revision is visited; without one nobody need be.  *)
LEMMA NotifiedInv ==
  ASSUME SinkInv, UNCHANGED <<live, cancelled, told>>,
         Published(source, source'),
         walk' = (live \ cancelled) \ source'.delivered
  PROVE  SinkInv'
BY DEF SinkInv, ToldEach, Published, VolumesTold

LEMMA RevisionKeeps ==
  ASSUME SinkInv, UNCHANGED <<live, walk, told>>,
         cancelled \subseteq cancelled', Player(source'),
         source'.delivered = source.delivered,
         Heard(source') = Heard(source)
  PROVE  SinkInv'
BY DEF SinkInv, ToldEach, VolumesTold

LEMMA SinkProcessInv ==
  ASSUME SinkInv, Sink!Process
  PROVE  SinkInv'
<1> DEFINE c == [source EXCEPT !.in = Tail(@)]
           e == Head(source.in)
<1>1. source' \in {Sink!OnSink(c, e), Sink!OnMetadata(c, e),
                   Sink!OnDefault(c, e), Sink!OnParam(c, e),
                   Sink!OnRemove(c, e), Sink!OnGone(c, e),
                   Sink!OnBroken(c, e)}
  BY DEF Sink!Process, Sink!Receive
<1>2. /\ UNCHANGED <<live, cancelled, told>>
      /\ walk' = (live \ cancelled) \ source'.delivered
  BY DEF Sink!Process, Sink!Receive, Sink!Notify, Sink!Active
<1>3. Published(source, c)
  BY Unpublished DEF SinkInv
<1> HIDE DEF c
<1>4. Published(c, source')
  BY <1>1, <1>3, Handled DEF Published
<1>5. Published(source, source')
  BY <1>3, <1>4, PublishedTwice
<1> QED BY <1>2, <1>5, NotifiedInv


(* What the server does leaves state and revision alone.                    *)
LEMMA ServerInv ==
  ASSUME SinkInv,
         \/ \E id \in Ids : \/ \E name \in Names : Sink!AddSink(id, name)
                            \/ Sink!RemoveSink(id) \/ Sink!SetVolume(id)
         \/ \E name \in Names \cup {NoName} : Sink!SetDefault(name)
         \/ Sink!RemoveMetadata \/ Sink!AddMetadata \/ Sink!Disconnect
         \/ Sink!RetryDue
  PROVE  SinkInv'
<1>1. UNCHANGED <<live, walk, told, cancelled>>
  BY DEF Sink!AddSink, Sink!RemoveSink, Sink!SetVolume, Sink!SetDefault,
         Sink!RemoveMetadata, Sink!AddMetadata, Sink!Disconnect,
         Sink!RetryDue, Sink!subscriptions
<1> DEFINE Same(c) == /\ Player(c) /\ c.delivered = source.delivered
                      /\ Heard(c) = Heard(source)
<1>2. /\ \A f : Same([source EXCEPT !.node_served = f])
      /\ \A g : Same([source EXCEPT !.metadata_served = g])
  <2>1. Player(source)
    BY DEF SinkInv
  <2>2. \A f : Same([source EXCEPT !.node_served = f])
    BY <2>1 DEF Player, Heard
  <2>3. \A g : Same([source EXCEPT !.metadata_served = g])
    BY <2>1 DEF Player, Heard
  <2> QED BY <2>2, <2>3
<1>3. \A c, k, i, v : Same(c) => Same(Sink!Said(c, k, i, v))
  <2>1. \A c, q : Same(c) => Same([c EXCEPT !.in = q])
    BY DEF Player, Heard
  <2> HIDE DEF Same
  <2> QED BY <2>1 DEF Sink!Said
<1>4. Same(source)
  BY DEF SinkInv
<1> HIDE DEF Same
<1>5. Same(source')
  <2>1. ASSUME NEW id \in Ids, NEW name \in Names, Sink!AddSink(id, name)
        PROVE  Same(source')
    BY <1>3, <1>4, <2>1 DEF Sink!AddSink
  <2>2. ASSUME NEW id \in Ids, Sink!RemoveSink(id)
        PROVE  Same(source')
    <3>1. PICK f : source' = Sink!Said([source EXCEPT !.node_served = f],
                                       "remove", id, NoName)
      BY <2>2 DEF Sink!RemoveSink
    <3> QED BY <1>2, <1>3, <3>1
  <2>3. ASSUME NEW id \in Ids, Sink!SetVolume(id)
        PROVE  Same(source')
    BY <1>3, <1>4, <2>3 DEF Sink!SetVolume
  <2>4. ASSUME NEW name \in Names \cup {NoName}, Sink!SetDefault(name)
        PROVE  Same(source')
    BY <1>3, <1>4, <2>4 DEF Sink!SetDefault
  <2>5. CASE Sink!RemoveMetadata
    <3>1. Same([source EXCEPT !.metadata_served = FALSE])
      BY <1>2
    <3> QED BY <1>3, <2>5, <3>1 DEF Sink!RemoveMetadata
  <2>6. CASE Sink!AddMetadata
    BY <1>3, <1>4, <2>6 DEF Sink!AddMetadata
  <2>7. CASE Sink!Disconnect
    <3>1. PICK q : source' = [source EXCEPT !.metadata_served = FALSE,
                                            !.node_served = FALSE,
                                            !.in = q]
      BY <2>7 DEF Sink!Disconnect
    <3>2. Player(source)
      BY DEF SinkInv
    <3> QED BY <3>1, <3>2 DEF Same, Player, Heard
  <2>8. CASE Sink!RetryDue
    <3>1. source' = [source EXCEPT !.waiting = FALSE]
      BY <2>8 DEF Sink!RetryDue
    <3>2. Player(source)
      BY DEF SinkInv
    <3> QED BY <3>1, <3>2 DEF Same, Player, Heard
  <2> QED BY <2>1, <2>2, <2>3, <2>4, <2>5, <2>6, <2>7, <2>8
<1> QED BY <1>1, <1>5, RevisionKeeps DEF Same

LEMMA SinkReconcileInv ==
  ASSUME SinkInv, Sink!Reconcile
  PROVE  SinkInv'
<1>1. Player(source)
  BY DEF SinkInv
<1>2. CASE Sink!OpenNative \/ Sink!OpenFails
  <2>1. /\ UNCHANGED <<live, cancelled, told>>
        /\ walk' = (live \ cancelled) \ source'.delivered
    BY <1>2 DEF Sink!OpenNative, Sink!OpenFails, Sink!Notify, Sink!Active
  <2>2. \A q : Published(source, [source EXCEPT !.open = TRUE, !.in = q])
    BY <1>1 DEF Published, Player, Heard
  <2>3. CASE Sink!OpenNative
    <3>1. PICK q : source' = [source EXCEPT !.open = TRUE, !.in = q]
      BY <2>3 DEF Sink!OpenNative
    <3> QED BY <2>1, <2>2, <3>1, NotifiedInv
  <2>4. CASE Sink!OpenFails
    <3>1. Published(source, source')
      BY <1>1, <2>4, Unpublished, GivenUp DEF Sink!OpenFails
    <3> QED BY <2>1, <3>1, NotifiedInv
  <2> QED BY <1>2, <2>3, <2>4
<1>3. CASE Sink!CloseUnneeded
  <2>1. /\ UNCHANGED <<live, cancelled, told, walk>>
        /\ live \ cancelled = {}
        /\ source' = [Sink!CloseNative(source) EXCEPT !.waiting = FALSE]
    BY <1>3 DEF Sink!CloseUnneeded, Sink!subscriptions, Sink!Needed,
                Sink!Active
  <2>2. Player(source')
    BY <1>1, <2>1, ClosedNative, Unpublished DEF Published
  <2> QED BY <2>1, <2>2 DEF SinkInv, ToldEach, VolumesTold
<1> QED BY <1>2, <1>3 DEF Sink!Reconcile

LEMMA VolumeHeardInv ==
  ASSUME SinkInv,
         \/ \E s \in Subs : Sink!Visit(s)
         \/ Sink!Cancel \/ Sink!Commit
  PROVE  SinkInv'
<1> DEFINE active == live \ cancelled
<1>1. ASSUME NEW s \in Subs, Sink!Visit(s) PROVE SinkInv'
  <2>1. /\ live' = live /\ walk' = walk \ {s}
        /\ cancelled \subseteq cancelled'
        /\ source' = [source EXCEPT !.delivered = @ \cup ({s} \cap active)]
    BY <1>1 DEF Sink!Visit, Sink!VisitWith, Sink!Active
  <2>2. IF s \in active /\ s \notin source.delivered
          THEN told' = [told EXCEPT ![s] = Heard(source)]
          ELSE UNCHANGED <<told, cancelled>>
    BY <1>1 DEF Sink!Visit, Sink!VisitWith, Sink!Active, Sink!Snapshot, Heard
  <2>3. /\ told' = [t \in Subs |-> told'[t]]
        /\ \A t \in Subs \ {s} : told'[t] = told[t]
        /\ s \in active =>
             told'[s] = IF s \in source.delivered THEN told[s]
                        ELSE Heard(source)
    BY <2>2 DEF SinkInv, ToldEach
  <2>4. /\ Player(source') /\ Heard(source') = Heard(source)
        /\ source'.delivered = source.delivered \cup ({s} \cap active)
    BY <2>1 DEF SinkInv, Player, Heard
  <2> HIDE DEF active
  <2>5. live' \ cancelled' \subseteq active
    BY <2>1 DEF active
  <2>6. active \subseteq source.delivered \cup walk
        /\ \A t \in active \cap source.delivered : told[t] = Heard(source)
        /\ active \subseteq Subs
    BY DEF SinkInv, VolumesTold, ToldEach, active
  <2>7. VolumesTold'
    BY <2>1, <2>3, <2>4, <2>5, <2>6 DEF VolumesTold
  <2> QED BY <2>1, <2>3, <2>4, <2>7 DEF SinkInv, ToldEach
<1>2. CASE Sink!Cancel
  <2>1. /\ UNCHANGED <<source, live, walk, told>>
        /\ cancelled \subseteq cancelled'
    BY <1>2 DEF Sink!Cancel, Sink!CancelWith
  <2> QED BY <2>1, RevisionKeeps DEF SinkInv, Heard
<1>3. CASE Sink!Commit
  <2>1. /\ live' \subseteq Subs /\ walk' = live'
        /\ told' = [s \in Subs |-> NotTold]
        /\ source' = [source EXCEPT !.delivered = {}]
    BY <1>3 DEF Sink!Commit, Sink!CommitWith
  <2>2. Player(source') /\ source'.delivered = {}
    BY <2>1 DEF SinkInv, Player
  <2> QED BY <2>1, <2>2 DEF SinkInv, ToldEach, VolumesTold
<1> QED BY <1>1, <1>2, <1>3

LEMMA SinkInit == ASSUME Sink!Init PROVE SinkInv
BY DEF Sink!Init, Sink!InitSubscriptions, Sink!Created, SinkInv, ToldEach,
       Player, VolumesTold

LEMMA SinkNext == ASSUME SinkInv, Sink!Next PROVE SinkInv'
BY ServerInv, SinkProcessInv, SinkReconcileInv, VolumeHeardInv
   DEF Sink!Next

LEMMA SinkStutter ==
  ASSUME SinkInv, UNCHANGED source_vars PROVE SinkInv'
BY RevisionKeeps DEF SinkInv, Heard, source_vars

LEMMA SinkTold == ASSUME SinkInv PROVE Sink!VolumeTold
BY DEF SinkInv, VolumesTold, Heard, Sink!VolumeTold, Sink!Active,
       Sink!Snapshot

(* Whoever subscribed was told what the source holds (systemd.c,            *)
(* power_profiles.c, pipewire.c, power_supply_events.c): for any            *)
(* subscriptions, services, numbers of changes and lost connections, and    *)
(* whatever callbacks cancel and fail while the others are notified.        *)
THEOREM SubscribersStayTold == Spec => []SubscribersTold
<1> DEFINE Inv == /\ kind = "systemd" => SystemdInv
                  /\ kind = "power_profiles" => ProfilesInv
                  /\ kind = "pipewire" => SinkInv
                  /\ kind = "power_supply" => SupplyInv
<1> USE SourcesAssumption
<1>1. Init => Inv
  BY SystemdInit, ProfilesInit, SinkInit, SupplyInit DEF Init
<1>2. Inv /\ [Next]_vars => Inv'
  <2> SUFFICES ASSUME Inv, [Next]_vars PROVE Inv'
    OBVIOUS
  <2>1. kind' = kind
    BY DEF Next, SourceStep, FeedStep, ItemStep, ClickStep, vars
  <2>2. \/ UNCHANGED source_vars
        \/ kind = "systemd" /\ Systemd!Next
        \/ kind = "power_profiles" /\ Profiles!Next
        \/ kind = "pipewire" /\ Sink!Next
        \/ kind = "power_supply" /\ Supply!Next
    BY DEF Next, SourceStep, FeedStep, ItemStep, ClickStep, vars
  <2>3. CASE UNCHANGED source_vars
    BY <2>1, <2>3, SystemdStutter, ProfilesStutter, SinkStutter,
       SupplyStutter
  <2>4. CASE kind = "systemd" /\ Systemd!Next
    BY <2>1, <2>4, SystemdNext
  <2>5. CASE kind = "power_profiles" /\ Profiles!Next
    BY <2>1, <2>5, ProfilesNext
  <2>6. CASE kind = "pipewire" /\ Sink!Next
    BY <2>1, <2>6, SinkNext
  <2>7. CASE kind = "power_supply" /\ Supply!Next
    BY <2>1, <2>7, SupplyNext
  <2> QED BY <2>2, <2>3, <2>4, <2>5, <2>6, <2>7
<1>3. Inv => SubscribersTold
  BY SystemdTold, ProfilesAreTold, SinkTold, SupplyTold DEF SubscribersTold
<1> QED BY <1>1, <1>2, <1>3, PTL DEF Spec
==============================================================================
