------------------------------- MODULE Items -------------------------------
(***************************************************************************)
(* ctx:set and the clicks on what it shows (src/src/main.c): a block's new  *)
(* list of states is reconciled with its items, one state a step, so that   *)
(* what has not changed keeps its memory and its rendered fragment; any     *)
(* state may turn out to be bad, and then nothing must have changed.        *)
(*                                                                         *)
(* An item's fragment is its state and its wire instance, by which a click  *)
(* finds it again.  cell is the memory the item owns.                       *)
(***************************************************************************)
EXTENDS Integers, Sequences, FiniteSets, FiniteSetsExt, SequencesExt

CONSTANTS
  Ids,
  NoId,
  Values,    (* what a state can show                                       *)
  Hidden,    (* a state with an empty full_text                             *)
  MaxItems,  (* block->max_items                                            *)
  Cells      (* memory for items                                            *)

ItemsConstants ==
  /\ NoId \notin Ids
  /\ Hidden \notin Values
  /\ MaxItems \in Nat \ {0}
  /\ Cells \subseteq Nat
  /\ IsFiniteSet(Cells) => Cardinality(Cells) >= 2 * MaxItems

VARIABLES
  staging,     (* the block's generation has not been committed             *)
  faulted,     (* block->faulted                                            *)
  items,       (* block->items, item_count of them                          *)
  list_mode,   (* block->list_mode                                          *)
  memory,      (* cells that are allocated                                  *)
  render_dirty,
  set,         (* the locals of the lua_context_set that runs               *)
  given,       (* history: the states its caller has given it so far        *)
  shown        (* history: the last frame has what the block shows now      *)

block == <<staging, faulted, items, list_mode, memory, render_dirty>>
history == <<given, shown>>
vars == <<block, set, history>>

Free == Cells \ memory

-----------------------------------------------------------------------------
(* Instances and clicks.                                                    *)

Plain == <<"plain", 0>>

(* format_instance                                                          *)
Instance(list, id, index) ==
  IF ~list THEN Plain
  ELSE IF id # NoId THEN <<"id", id>>
  ELSE <<"place", index>>

Visible(item) == item.state # Hidden

(* find_clicked_item: the index of the item, if there is one.               *)
Found(instance) ==
  LET hits == {i \in DOMAIN items :
                 IF ~list_mode THEN instance = Plain /\ Len(items) = 1
                 ELSE \/ instance[1] = "id" /\ items[i].id = instance[2]
                      \/ instance = <<"place", i>> /\ items[i].id = NoId}
  IN  {i \in hits : Visible(items[i])}

Fragment(item) == <<item.instance, item.state>>

(* What render_frame copies of the block.                                   *)
FragmentsOf(list) ==
  LET visible == SelectSeq(list, Visible)
  IN  [i \in DOMAIN visible |-> Fragment(visible[i])]

Fragments == IF faulted THEN <<>> ELSE FragmentsOf(items)

Shows == shown' = (shown /\ Fragments' = Fragments)

-----------------------------------------------------------------------------
(* ctx:set.                                                                 *)

NoSet ==
  [running |-> FALSE, list |-> FALSE, count |-> 0, reuse |-> <<>>,
   next |-> <<>>, indexed |-> FALSE, new_ids |-> {}, changed |-> FALSE]

Unmade == [id |-> NoId, state |-> Hidden, instance |-> Plain, cell |-> -1]

(* classify_set_argument: one state, or a list of count.                    *)
BeginSet(list, count) ==
  /\ ~set.running
  /\ count <= MaxItems
  /\ list \/ count = 1
  /\ set' = [NoSet EXCEPT !.running = TRUE, !.list = list, !.count = count,
                          !.changed = count # Len(items)]
  /\ given' = <<>>
  /\ UNCHANGED <<block, shown>>

Reusable == set.list = list_mode

(* The index of the state that is read next.                                *)
Index == Len(set.next) + 1

(* An id in the place it had needs no look at the others.                   *)
InPlace(id) ==
  /\ Reusable /\ ~set.indexed
  /\ Index <= Len(items)
  /\ items[Index].id = id

(* The id of an item of the new list (item_id).                             *)
NewId(i) ==
  IF set.reuse[i] # 0 THEN items[set.reuse[i]].id ELSE set.next[i].id

(* Faulty variant: the ids that were in their places are not indexed.       *)
SeenIndexed == set.new_ids

(* The ids of the new list so far, from the first id out of place on.       *)
Seen ==
  IF set.indexed THEN set.new_ids
  ELSE {NewId(i) : i \in DOMAIN set.next} \ {NoId}

Duplicate(id) == id # NoId /\ ~InPlace(id) /\ id \in Seen

(* The old item a new state is compared with, or 0.                         *)
Match(id) ==
  LET old == IF ~Reusable THEN {}
             ELSE IF id = NoId THEN {Index} \cap DOMAIN items
             ELSE IF InPlace(id) THEN {Index}
             ELSE DOMAIN items
      same == {i \in old : items[i].id = id}
  IN  IF same = {} THEN 0 ELSE CHOOSE i \in same : TRUE

Kept(id, state) ==
  /\ Match(id) # 0
  /\ items[Match(id)].state = state

Moved(id) == Match(id) # Index

(* materialize_item                                                         *)
Made(id, state, cell) ==
  [id |-> id, state |-> state, cell |-> cell,
   instance |-> IF state = Hidden THEN Plain ELSE Instance(set.list, id, Index)]

(* One state of the list is reconciled.                                     *)
Reconcile(id, state) ==
  /\ set.running
  /\ Index <= set.count
  /\ id # NoId => set.list
  /\ ~Duplicate(id)
  /\ given' = Append(given, <<id, state>>)
  /\ LET kept == Kept(id, state)
         indexed == set.indexed \/ (id # NoId /\ ~InPlace(id))
         cell == CHOOSE c \in Free : TRUE
     IN  /\ set' = [set EXCEPT
                      !.reuse = Append(@, IF kept THEN Match(id) ELSE 0),
                      !.next = Append(@, IF kept THEN Unmade
                                         ELSE Made(id, state, cell)),
                      !.indexed = indexed,
                      !.new_ids = IF id # NoId /\ indexed THEN Seen \cup {id}
                                  ELSE @,
                      !.changed = @ \/ ~kept \/ Moved(id)]
         /\ memory' = IF kept THEN memory ELSE memory \cup {cell}
  /\ UNCHANGED <<staging, faulted, items, list_mode, render_dirty, shown>>

Owned(list) == {list[i].cell : i \in DOMAIN list} \ {Unmade.cell}

(* The items whose memory was not moved to the new list.                    *)
Retired == Owned([i \in DOMAIN items |->
                    IF i \in Range(set.reuse) THEN Unmade ELSE items[i]])

SetDone ==
  /\ set.running
  /\ Len(set.next) = set.count
  /\ items' = [i \in 1..set.count |->
                 IF set.reuse[i] # 0 THEN items[set.reuse[i]] ELSE set.next[i]]
  /\ memory' = memory \ Retired
  /\ list_mode' = set.list
  /\ render_dirty' = (render_dirty \/ (set.changed /\ ~staging))
  /\ set' = NoSet
  /\ given' = <<>>
  /\ UNCHANGED <<staging, faulted>>
  /\ Shows

(* A state or an id is bad or there twice, or memory or room in a fragment  *)
(* runs out: what was made is destroyed and an error raised.                *)
SetFails ==
  /\ set.running
  /\ Index <= set.count
  /\ memory' = memory \ Owned(set.next)
  /\ set' = NoSet
  /\ given' = <<>>
  /\ UNCHANGED <<staging, faulted, items, list_mode, render_dirty, shown>>

-----------------------------------------------------------------------------
(* The block around it.                                                     *)

Render ==
  /\ ~set.running /\ ~staging
  /\ render_dirty
  /\ shown' = TRUE
  /\ render_dirty' = FALSE
  /\ UNCHANGED <<staging, faulted, items, list_mode, memory, set, given>>

(* i3sd_fault_block: a callback failed, as the one of a click may.          *)
Fault ==
  /\ ~set.running
  /\ faulted' = TRUE
  /\ items' = <<>>
  /\ memory' = memory \ Owned(items)
  /\ render_dirty' = TRUE
  /\ UNCHANGED <<staging, list_mode, set, given>>
  /\ Shows

(* commit_generation clears what was set while staging.                     *)
Commit ==
  /\ ~set.running /\ staging
  /\ staging' = FALSE
  /\ items' = <<>>
  /\ memory' = memory \ Owned(items)
  /\ render_dirty' = TRUE
  /\ UNCHANGED <<faulted, list_mode, set, given>>
  /\ Shows

(* The block of the next generation, beside which this one goes.            *)
Reload ==
  /\ ~set.running /\ ~staging
  /\ staging' = TRUE
  /\ faulted' = FALSE
  /\ items' = <<>>
  /\ memory' = {}
  /\ list_mode' = FALSE
  /\ shown' = FALSE
  /\ UNCHANGED <<render_dirty, set, given>>

Init ==
  /\ staging = TRUE
  /\ faulted = FALSE
  /\ items = <<>>
  /\ list_mode = FALSE
  /\ memory = {}
  /\ render_dirty = FALSE
  /\ shown = FALSE
  /\ set = NoSet
  /\ given = <<>>

Next ==
  \/ \E list \in BOOLEAN, count \in 0..MaxItems : BeginSet(list, count)
  \/ \E id \in Ids \cup {NoId}, state \in Values \cup {Hidden} :
       Reconcile(id, state)
  \/ SetDone \/ SetFails
  \/ Render \/ Fault \/ Commit \/ Reload

Spec == Init /\ [][Next]_vars

-----------------------------------------------------------------------------
Item == [id : Ids \cup {NoId}, state : Values \cup {Hidden},
         instance : {Plain} \cup ({"id"} \X Ids) \cup ({"place"} \X (1..MaxItems)),
         cell : Cells]

TypeOK ==
  /\ {staging, faulted, list_mode, render_dirty} \subseteq BOOLEAN
  /\ items \in Seq(Item) /\ Len(items) <= MaxItems
  /\ memory \subseteq Cells
  /\ set.next \in Seq(Item \cup {Unmade})
  /\ Len(set.next) <= set.count /\ set.count <= MaxItems
  /\ Len(set.reuse) = Len(set.next) /\ Len(given) = Len(set.next)
  /\ shown \in BOOLEAN

(* Exactly the memory of the items, and of those being made, is allocated,  *)
(* and nothing has two owners: no item is left with memory that was freed.  *)
MemoryOwned ==
  /\ memory = Owned(items) \cup Owned(set.next)
  /\ Cardinality(memory) = Len(items) + Cardinality(Owned(set.next))

(* Every visible item is found by the instance in its own fragment, and no  *)
(* other is, however it got to its place.                                   *)
ClicksFind ==
  \A i \in DOMAIN items :
    Visible(items[i]) => Found(items[i].instance) = {i}

(* Unless it is marked dirty, the last frame is what the block shows now.   *)
FrameCurrent == staging \/ render_dirty \/ shown

(* A call that succeeds leaves the states its caller gave, as if all had    *)
(* been made anew.                                                          *)
SetExactly ==
  set.running /\ Len(given) = set.count =>
    \A i \in DOMAIN given : <<NewId(i), IF set.reuse[i] # 0
                                        THEN items[set.reuse[i]].state
                                        ELSE set.next[i].state>> = given[i]

(* ctx:set is all or nothing.                                               *)
SetAtomic == MemoryOwned /\ ClicksFind /\ FrameCurrent /\ SetExactly
=============================================================================
