---------------------------- MODULE TimersProofs ----------------------------
(***************************************************************************)
(* The three owners of a Lua timer agree, whatever is cancelled, collected, *)
(* faulted and reloaded, for any number of timers, handles, blocks and      *)
(* generations; and its deadlines keep their phase, with one call to make   *)
(* up for lost time, for any delays and intervals.                          *)
(***************************************************************************)
EXTENDS Timers, FiniteSetTheorems, TLAPS

Fields ==
  [gen : Gens \cup {NoGen}, block : Blocks \cup {NoBlock},
   kind : {"none", "after", "every", "realtime", "poll"}, delay : Nat,
   cancelled : BOOLEAN, handle : Handles \cup {NoHandle}]

(* TypeOK without the clocks.                                               *)
Types ==
  /\ pc \in {"events", "dispatch", "reload", "staging", "refresh"}
  /\ role \in [Gens -> {"none", "staging", "current", "old"}]
  /\ faulted \in [Gens -> SUBSET Blocks]
  /\ todo \subseteq Blocks
  /\ lua \in Gens \cup {NoGen}
  /\ on \in Blocks \cup {NoBlock}
  /\ run \in Timers \cup {NoTimer}
  /\ linked \subseteq Timers
  /\ tm \in [Timers -> Fields]
  /\ count \in [Gens -> Nat]
  /\ handle \in [Handles -> Timers \cup {NoTimer}]
  /\ owner \in [Handles -> Gens \cup {NoGen}]
  /\ mono \subseteq Timers
  /\ real \subseteq Timers

(* A generation has a role of its own; Lua runs in the current one, but for *)
(* the chunk of a configuration that is staged.                             *)
Roles ==
  /\ \A f, g \in Gens : role[f] = role[g] /\ role[f] # "none" => f = g
  /\ \A g \in Gens : role[g] = "staging" <=> pc = "staging" /\ lua = g
  /\ \A g \in Gens : role[g] = "old" => pc = "refresh"
  /\ pc = "staging" => lua # NoGen
  /\ pc = "reload" => lua = NoGen
  /\ pc # "staging" /\ lua # NoGen => role[lua] = "current"

(* Callbacks run in a block, a timer's in the timer's.                      *)
Running ==
  /\ pc # "staging" /\ lua # NoGen => on \in Blocks
  /\ run # NoTimer => /\ pc \in {"events", "dispatch"}
                      /\ lua # NoGen
                      /\ lua = tm[run].gen
                      /\ on = tm[run].block

(* A timer belongs to a generation that exists.                             *)
OnList ==
  \A t \in linked : /\ tm[t].gen \in Gens /\ role[tm[t].gen] # "none"
                    /\ tm[t].block \in Blocks

Memory == OnList /\ HeapsLive /\ OwnersAgree /\ ArmedUntilDone

(* The inductive invariant.                                                 *)
IInv == Types /\ Roles /\ Running /\ Memory

-----------------------------------------------------------------------------
(* Steps that free and cancel timers.                                       *)

(* The timers of C are cancelled, those of R freed, and those of D lose     *)
(* their handle.                                                            *)
Shrinks(C, R, D) ==
  /\ R \subseteq linked
  /\ linked' = linked \ R
  /\ mono' = mono \ (C \cup R)
  /\ real' = real \ (C \cup R)
  /\ \A t \in linked \ R :
       /\ tm'[t].gen = tm[t].gen
       /\ tm'[t].block = tm[t].block
       /\ tm'[t].cancelled <=> (tm[t].cancelled \/ t \in C)
       /\ tm'[t].handle = IF t \in D THEN NoHandle ELSE tm[t].handle
  /\ \A g \in Gens :
       count'[g] = count[g] - Cardinality({t \in R : tm[t].gen = g})

(* No pointer to a freed timer is left in a handle.                         *)
Detaches(R, D) ==
  \A h \in Handles :
    /\ handle'[h] = IF handle[h] \in R \cup D THEN NoTimer ELSE handle[h]
    /\ handle'[h] # NoTimer => owner'[h] = owner[h]

(* Nor is one on the stack, and the others' generations stay what they are. *)
LeavesOthers(R) ==
  /\ \A t \in linked \ R :
       /\ role'[tm[t].gen] = role[tm[t].gen]
       /\ faulted[tm[t].gen] \subseteq faulted'[tm[t].gen]
  /\ run' = run \/ (run' = NoTimer /\ run \in R \cup {NoTimer})
  /\ run \in R => run' = NoTimer

(* The count of a generation's timers.                                      *)
LEMMA CountShrinks ==
  ASSUME NEW C, NEW R, NEW D, Types, OnList, OwnersAgree, Shrinks(C, R, D),
         NEW g \in Gens
  PROVE  count'[g] = Cardinality({t \in linked' : tm'[t].gen = g})
<1> DEFINE A == OfGen(g)
           B == {t \in R : tm[t].gen = g}
<1>1. A \subseteq Timers /\ B \subseteq A
  BY DEF Types, Shrinks, OfGen
<1>2. IsFiniteSet(A)
  BY <1>1, TimersAssumption, FS_Subset
<1>3. {t \in linked' : tm'[t].gen = g} = A \ B
  BY DEF Shrinks, OfGen
<1>4. A \cap B = B
  BY <1>1
<1>5. Cardinality(A \ B) = Cardinality(A) - Cardinality(B)
  BY <1>2, <1>4, FS_Difference
<1>6. count[g] = Cardinality(A)
  BY DEF OwnersAgree
<1>7. count'[g] = count[g] - Cardinality(B)
  BY DEF Shrinks
<1> QED BY <1>3, <1>5, <1>6, <1>7

(* Freeing and cancelling keep the owners in agreement.                     *)
LEMMA ShrinkKeepsMemory ==
  ASSUME NEW C, NEW R, NEW D, Types, Memory, Shrinks(C, R, D), Detaches(R, D),
         LeavesOthers(R)
  PROVE  Memory'
<1>1. OnList'
  BY DEF Memory, OnList, Shrinks, LeavesOthers
<1>2. HeapsLive'
  <2>1. mono' \cup real' \cup ({run'} \ {NoTimer}) \subseteq linked'
    BY DEF Memory, HeapsLive, Shrinks, LeavesOthers
  <2>2. mono' \cap real' = {}
    BY DEF Memory, HeapsLive, Shrinks
  <2>3. ASSUME NEW t \in mono' \cup real'
        PROVE  t # run' /\ ~tm'[t].cancelled
               /\ role'[tm'[t].gen] \in {"current", "old"}
    <3>1. t \in mono \cup real /\ t \in linked \ R /\ t \notin C
      BY <2>3 DEF Memory, HeapsLive, Shrinks
    <3>2. t # run /\ ~tm[t].cancelled /\ role[tm[t].gen] \in {"current", "old"}
      BY <3>1 DEF Memory, HeapsLive
    <3>3. t # NoTimer
      BY <3>1, TimersAssumption DEF Types
    <3> QED BY <3>1, <3>2, <3>3 DEF Shrinks, LeavesOthers
  <2> QED BY <2>1, <2>2, <2>3 DEF HeapsLive
<1>3. OwnersAgree'
  <2>1. ASSUME NEW h \in Handles, handle'[h] # NoTimer
        PROVE  /\ handle'[h] \in linked'
               /\ tm'[handle'[h]].handle = h
               /\ tm'[handle'[h]].gen = owner'[h]
    <3>1. handle'[h] = handle[h] /\ handle[h] \notin R \cup D
          /\ owner'[h] = owner[h]
      BY <2>1 DEF Detaches
    <3>2. /\ handle[h] \in linked /\ tm[handle[h]].handle = h
          /\ tm[handle[h]].gen = owner[h]
      BY <2>1, <3>1 DEF Memory, OwnersAgree
    <3> QED BY <3>1, <3>2 DEF Shrinks
  <2>2. ASSUME NEW t \in linked', tm'[t].handle # NoHandle
        PROVE  handle'[tm'[t].handle] = t
    <3>1. t \in linked \ R /\ t \notin D /\ tm'[t].handle = tm[t].handle
      BY <2>2 DEF Shrinks
    <3>2. handle[tm[t].handle] = t
      BY <2>2, <3>1 DEF Memory, OwnersAgree
    <3>3. tm[t].handle \in Handles
      BY <2>2, <3>1 DEF Types, Fields
    <3> QED BY <3>1, <3>2, <3>3 DEF Detaches
  <2>3. \A g \in Gens :
          count'[g] = Cardinality({t \in linked' : tm'[t].gen = g})
    BY CountShrinks DEF Memory
  <2> QED BY <2>1, <2>2, <2>3 DEF OwnersAgree, OfGen
<1>4. ArmedUntilDone'
  <2> SUFFICES ASSUME NEW t \in linked', ~tm'[t].cancelled, t # run',
                      role'[tm'[t].gen] = "current",
                      tm'[t].block \notin faulted'[tm'[t].gen]
               PROVE  t \in mono' \cup real'
    BY DEF ArmedUntilDone
  <2>1. /\ t \in linked \ R /\ t \notin C /\ ~tm[t].cancelled
        /\ tm[t].gen = tm'[t].gen /\ tm[t].block = tm'[t].block
    BY DEF Shrinks
  <2>2. role[tm[t].gen] = "current" /\ tm[t].block \notin faulted[tm[t].gen]
    BY <2>1 DEF LeavesOthers
  <2>3. t # run
    BY <2>1, TimersAssumption DEF LeavesOthers, Types
  <2>4. t \in mono \cup real
    BY <2>1, <2>2, <2>3 DEF Memory, ArmedUntilDone
  <2> QED BY <2>1, <2>4 DEF Shrinks
<1> QED BY <1>1, <1>2, <1>3, <1>4 DEF Memory

MemoryTypes ==
  /\ linked \subseteq Timers
  /\ tm \in [Timers -> Fields]
  /\ count \in [Gens -> Nat]
  /\ mono \subseteq Timers
  /\ real \subseteq Timers

(* What i3sd_timer_cancel and i3sd_release_timer do shrinks the memory.     *)
LEMMA RetireShrinks ==
  ASSUME NEW C, NEW R, NEW D, Types, OnList, OwnersAgree, R \subseteq linked,
         Retire(C, R, D)
  PROVE  Shrinks(C, R, D) /\ MemoryTypes'
<1>1. Unused \in Fields
  BY DEF Unused, Fields
<1>2. ASSUME NEW t \in Timers
      PROVE  /\ [tm[t] EXCEPT !.cancelled = @ \/ t \in C,
                              !.handle = IF t \in D THEN NoHandle ELSE @]
                  \in Fields
             /\ t \notin R => /\ tm'[t].gen = tm[t].gen
                              /\ tm'[t].block = tm[t].block
                              /\ tm'[t].cancelled <=>
                                   (tm[t].cancelled \/ t \in C)
                              /\ tm'[t].handle = IF t \in D THEN NoHandle
                                                 ELSE tm[t].handle
  <2> DEFINE c == tm[t].cancelled \/ t \in C
             h == IF t \in D THEN NoHandle ELSE tm[t].handle
             f == [tm[t] EXCEPT !.cancelled = c, !.handle = h]
  <2>1. tm[t] \in Fields
    BY DEF Types
  <2>2. c \in BOOLEAN /\ h \in Handles \cup {NoHandle}
    BY <2>1 DEF Fields
  <2>3. t \notin R => tm'[t] = f
    BY DEF Retire
  <2> HIDE DEF c, h
  <2>4. /\ f \in Fields /\ f.gen = tm[t].gen /\ f.block = tm[t].block
        /\ f.cancelled = c /\ f.handle = h
    BY <2>1, <2>2 DEF Fields
  <2> HIDE DEF f
  <2>5. t \notin R => /\ tm'[t].gen = tm[t].gen
                      /\ tm'[t].block = tm[t].block
                      /\ tm'[t].cancelled = c
                      /\ tm'[t].handle = h
    BY <2>3, <2>4
  <2> QED BY <2>4, <2>5 DEF c, h, f
<1>3. tm' \in [Timers -> Fields]
  BY <1>1, <1>2 DEF Retire
<1>4. Shrinks(C, R, D)
  <2>1. \A t \in linked \ R : t \in Timers
    BY DEF Types
  <2> QED BY <1>2, <2>1 DEF Retire, Disarm, Shrinks
<1>5. /\ linked' \subseteq Timers /\ mono' \subseteq Timers
      /\ real' \subseteq Timers
  BY <1>4 DEF Shrinks, Types
<1>6. count' \in [Gens -> Nat]
  <2>1. ASSUME NEW g \in Gens PROVE count'[g] \in Nat
    <3>1. {t \in linked' : tm'[t].gen = g} \subseteq Timers
      BY <1>5
    <3>2. Cardinality({t \in linked' : tm'[t].gen = g}) \in Nat
      BY <3>1, TimersAssumption, FS_Subset, FS_CardinalityType
    <3> QED BY <1>4, <3>2, CountShrinks
  <2> QED BY <2>1 DEF Retire
<1> QED BY <1>3, <1>4, <1>5, <1>6 DEF MemoryTypes

(* So does generation_destroy.                                              *)
LEMMA DestroyShrinks ==
  ASSUME NEW g \in Gens, Types, Memory, Destroy(g)
  PROVE  /\ Shrinks({}, OfGen(g), {}) /\ Detaches(OfGen(g), {})
         /\ MemoryTypes'
<1>1. Unused \in Fields
  BY DEF Unused, Fields
<1>2. tm' \in [Timers -> Fields]
  BY <1>1 DEF Destroy, Types
<1>3. OfGen(g) \subseteq linked
  BY DEF OfGen
<1>4. ASSUME NEW f \in Gens
      PROVE  count'[f] =
               count[f] - Cardinality({t \in OfGen(g) : tm[t].gen = f})
  <2>1. CASE f = g
    <3>1. {t \in OfGen(g) : tm[t].gen = f} = OfGen(g)
      BY <2>1 DEF OfGen
    <3>2. count[g] = Cardinality(OfGen(g)) /\ count[g] \in Nat
      BY DEF Memory, OwnersAgree, Types
    <3>3. count'[g] = 0
      BY DEF Destroy, Types
    <3>4. \A n \in Nat : n - n = 0
      OBVIOUS
    <3> QED BY <2>1, <3>1, <3>2, <3>3, <3>4
  <2>2. CASE f # g
    <3>1. {t \in OfGen(g) : tm[t].gen = f} = {}
      BY <2>2 DEF OfGen
    <3>2. count[f] \in Nat /\ count'[f] = count[f]
      BY <2>2 DEF Destroy, Types
    <3>3. Cardinality({}) = 0
      BY FS_EmptySet
    <3>4. \A n \in Nat : n - 0 = n
      OBVIOUS
    <3> QED BY <3>1, <3>2, <3>3, <3>4
  <2> QED BY <2>1, <2>2
<1>5. Shrinks({}, OfGen(g), {})
  <2>1. \A t \in linked \ OfGen(g) : t \in Timers /\ tm'[t] = tm[t]
    BY DEF Destroy, Types
  <2> QED BY <1>3, <1>4, <2>1 DEF Destroy, Shrinks
<1>6. Detaches(OfGen(g), {})
  <2> SUFFICES ASSUME NEW h \in Handles
               PROVE  /\ handle'[h] = IF handle[h] \in OfGen(g) THEN NoTimer
                                      ELSE handle[h]
                      /\ handle'[h] # NoTimer => owner'[h] = owner[h]
    BY DEF Detaches
  <2>1. /\ handle'[h] = IF owner[h] = g THEN NoTimer ELSE handle[h]
        /\ owner'[h] = IF owner[h] = g THEN NoGen ELSE owner[h]
    BY DEF Destroy
  <2>2. handle[h] # NoTimer => (owner[h] = g <=> handle[h] \in OfGen(g))
    BY DEF Memory, OwnersAgree, OfGen
  <2>3. NoTimer \notin OfGen(g)
    BY TimersAssumption DEF OfGen, Types
  <2> QED BY <2>1, <2>2, <2>3
<1>7. /\ linked' \subseteq Timers /\ mono' \subseteq Timers
      /\ real' \subseteq Timers
  BY <1>5 DEF Shrinks, Types
<1>8. count' \in [Gens -> Nat]
  BY DEF Destroy, Types
<1> QED BY <1>2, <1>5, <1>6, <1>7, <1>8 DEF MemoryTypes

(* Nothing is freed.                                                        *)
LEMMA NothingFreed ==
  ASSUME Types, UNCHANGED <<memory, handles, mono, real>>
  PROVE  Shrinks({}, {}, {}) /\ Detaches({}, {}) /\ MemoryTypes'
<1>1. ASSUME NEW g \in Gens
      PROVE  count'[g] = count[g] - Cardinality({t \in {} : tm[t].gen = g})
  <2>1. {t \in {} : tm[t].gen = g} = {}
    OBVIOUS
  <2>2. Cardinality({}) = 0
    BY FS_EmptySet
  <2>3. count[g] \in Nat /\ count'[g] = count[g]
    BY DEF memory, Types
  <2>4. \A n \in Nat : n - 0 = n
    OBVIOUS
  <2> QED BY <2>1, <2>2, <2>3, <2>4
<1>2. Shrinks({}, {}, {})
  BY <1>1 DEF Shrinks, memory
<1>3. Detaches({}, {})
  BY DEF Detaches, handles
<1> QED BY <1>2, <1>3 DEF MemoryTypes, Types, memory

(* i3sd_release_timer clears the pointer of the handle it belongs to.       *)
LEMMA DetachDetaches ==
  ASSUME NEW R, Types, Memory, R \subseteq linked, handle' = Detach(R),
         owner' = owner
  PROVE  Detaches(R, {})
<1> SUFFICES ASSUME NEW h \in Handles
             PROVE  handle'[h] = IF handle[h] \in R THEN NoTimer
                                 ELSE handle[h]
  BY DEF Detaches
<1>1. handle'[h] = IF handle[h] \in R /\ tm[handle[h]].handle = h
                   THEN NoTimer ELSE handle[h]
  BY DEF Detach
<1>2. handle[h] \in R => handle[h] # NoTimer
  BY TimersAssumption DEF Types
<1>3. handle[h] \in R => tm[handle[h]].handle = h
  BY <1>2 DEF Memory, OwnersAgree
<1> QED BY <1>1, <1>3

-----------------------------------------------------------------------------
(* Steps that add a timer.                                                  *)

(* A timer t with the fields r joins the generation r.gen; it is armed if   *)
(* the generation is the current one.                                       *)
Grows(t, r) ==
  /\ t \in Timers \ linked
  /\ r \in Fields
  /\ ~ r.cancelled
  /\ r.gen \in Gens /\ r.block \in Blocks
  /\ role[r.gen] # "none"
  /\ linked' = linked \cup {t}
  /\ tm' = [tm EXCEPT ![t] = r]
  /\ count' = [count EXCEPT ![r.gen] = @ + 1]
  /\ \/ role[r.gen] = "current" /\ mono' = mono \cup {t} /\ real' = real
     \/ role[r.gen] = "current" /\ mono' = mono /\ real' = real \cup {t}
     \/ role[r.gen] # "current" /\ mono' = mono /\ real' = real

(* Its handle, if it has one, was unused.                                   *)
Attaches(t, r) ==
  \/ r.handle = NoHandle /\ handle' = handle /\ owner' = owner
  \/ /\ r.handle \in Handles
     /\ owner[r.handle] = NoGen
     /\ handle' = [handle EXCEPT ![r.handle] = t]
     /\ owner' = [owner EXCEPT ![r.handle] = r.gen]

(* The owners agree on the new timer.                                       *)
LEMMA GrowKeepsMemory ==
  ASSUME NEW t, NEW r, Types, Memory, Grows(t, r), Attaches(t, r),
         UNCHANGED <<role, faulted, run>>
  PROVE  Memory' /\ MemoryTypes'
<1>1. t \in Timers /\ t \notin linked /\ t # NoTimer /\ t # run
      /\ t \notin mono \cup real
  BY TimersAssumption DEF Grows, Memory, HeapsLive
<1>2. tm' \in [Timers -> Fields]
  BY DEF Grows, Types
<1>3. tm'[t] = r
  BY <1>1 DEF Grows, Types
<1>4. \A u \in linked : u # t /\ tm'[u] = tm[u]
  BY <1>1 DEF Grows, Types
<1>5. MemoryTypes'
  <2>1. count' \in [Gens -> Nat]
    <3>1. count \in [Gens -> Nat]
      BY DEF Types
    <3>2. count[r.gen] + 1 \in Nat
      BY <3>1 DEF Grows
    <3> QED BY <3>1, <3>2 DEF Grows
  <2>2. linked' \subseteq Timers /\ mono' \subseteq Timers
        /\ real' \subseteq Timers
    BY DEF Grows, Types
  <2> QED BY <1>2, <2>1, <2>2 DEF MemoryTypes
<1>6. OnList'
  BY <1>3, <1>4 DEF Memory, OnList, Grows
<1>7. HeapsLive'
  <2>1. mono' \cup real' \cup ({run'} \ {NoTimer}) \subseteq linked'
    BY DEF Memory, HeapsLive, Grows
  <2>2. mono' \cap real' = {}
    BY <1>1 DEF Memory, HeapsLive, Grows
  <2>3. ASSUME NEW u \in mono' \cup real'
        PROVE  u # run' /\ ~tm'[u].cancelled
               /\ role'[tm'[u].gen] \in {"current", "old"}
    <3>1. CASE u = t
      <4>1. role[r.gen] = "current"
        BY <3>1, <1>1, <2>3 DEF Grows
      <4> QED BY <3>1, <1>1, <1>3, <4>1 DEF Grows
    <3>2. CASE u # t
      <4>1. u \in mono \cup real /\ u \in linked
        BY <3>2, <2>3 DEF Grows, Memory, HeapsLive
      <4> QED BY <4>1, <1>4 DEF Memory, HeapsLive
    <3> QED BY <3>1, <3>2
  <2> QED BY <2>1, <2>2, <2>3 DEF HeapsLive
<1>8. ASSUME r.handle \in Handles, owner[r.handle] = NoGen
      PROVE  /\ handle[r.handle] = NoTimer
             /\ \A u \in linked : tm[u].handle # r.handle
  <2>1. handle[r.handle] = NoTimer
    BY <1>8, TimersAssumption DEF Memory, OwnersAgree, OnList
  <2>2. r.handle # NoHandle
    BY <1>8, TimersAssumption
  <2>3. NoTimer \notin linked
    BY TimersAssumption DEF Types
  <2> QED BY <2>1, <2>2, <2>3 DEF Memory, OwnersAgree
<1>9. OwnersAgree'
  <2>1. ASSUME NEW h \in Handles, handle'[h] # NoTimer
        PROVE  /\ handle'[h] \in linked'
               /\ tm'[handle'[h]].handle = h
               /\ tm'[handle'[h]].gen = owner'[h]
    <3>1. CASE h = r.handle
      <4>1. handle'[h] = t /\ owner'[h] = r.gen
        BY <3>1, TimersAssumption DEF Attaches, Types
      <4> QED BY <4>1, <3>1, <1>3 DEF Grows
    <3>2. CASE h # r.handle
      <4>1. handle'[h] = handle[h] /\ owner'[h] = owner[h]
        BY <3>2 DEF Attaches, Types
      <4>2. /\ handle[h] \in linked
            /\ tm[handle[h]].handle = h
            /\ tm[handle[h]].gen = owner[h]
        BY <2>1, <4>1 DEF Memory, OwnersAgree
      <4> QED BY <4>1, <4>2, <1>4 DEF Grows
    <3> QED BY <3>1, <3>2
  <2>2. ASSUME NEW u \in linked', tm'[u].handle # NoHandle
        PROVE  handle'[tm'[u].handle] = u
    <3>1. CASE u = t
      BY <3>1, <2>2, <1>3 DEF Attaches, Types
    <3>2. CASE u # t
      <4>1. u \in linked /\ tm'[u] = tm[u] /\ u \in Timers
        BY <3>2, <2>2, <1>4 DEF Grows, Types
      <4>2. handle[tm[u].handle] = u /\ tm[u].handle \in Handles
        BY <2>2, <4>1 DEF Memory, OwnersAgree, Types, Fields
      <4>3. handle'[tm[u].handle] = handle[tm[u].handle]
        BY <4>1, <4>2, <1>8 DEF Attaches, Types
      <4> QED BY <4>1, <4>2, <4>3
    <3> QED BY <3>1, <3>2
  <2>3. ASSUME NEW g \in Gens
        PROVE  count'[g] = Cardinality({u \in linked' : tm'[u].gen = g})
    <3>1. count[g] = Cardinality(OfGen(g)) /\ count[g] \in Nat
      BY DEF Memory, OwnersAgree, Types
    <3>2. CASE g = r.gen
      <4>1. {u \in linked' : tm'[u].gen = g} = OfGen(g) \cup {t}
        BY <3>2, <1>3, <1>4 DEF Grows, OfGen
      <4>2. IsFiniteSet(OfGen(g)) /\ t \notin OfGen(g)
        <5>1. OfGen(g) \subseteq Timers
          BY DEF OfGen, Types
        <5>2. t \notin OfGen(g)
          BY <1>1 DEF OfGen
        <5> QED BY <5>1, <5>2, TimersAssumption, FS_Subset
      <4>3. Cardinality(OfGen(g) \cup {t}) = Cardinality(OfGen(g)) + 1
        BY <4>2, FS_AddElement
      <4>4. count'[g] = count[g] + 1
        BY <3>2 DEF Grows, Types
      <4> QED BY <3>1, <4>1, <4>3, <4>4
    <3>3. CASE g # r.gen
      <4>1. {u \in linked' : tm'[u].gen = g} = OfGen(g)
        BY <3>3, <1>3, <1>4 DEF Grows, OfGen
      <4>2. count'[g] = count[g]
        BY <3>3 DEF Grows, Types
      <4> QED BY <3>1, <4>1, <4>2
    <3> QED BY <3>2, <3>3
  <2> QED BY <2>1, <2>2, <2>3 DEF OwnersAgree, OfGen
<1>10. ArmedUntilDone'
  <2> SUFFICES ASSUME NEW u \in linked', ~tm'[u].cancelled, u # run',
                      role'[tm'[u].gen] = "current",
                      tm'[u].block \notin faulted'[tm'[u].gen]
               PROVE  u \in mono' \cup real'
    BY DEF ArmedUntilDone
  <2>1. CASE u = t
    BY <2>1, <1>3 DEF Grows
  <2>2. CASE u # t
    <3>1. u \in linked /\ tm'[u] = tm[u]
      BY <2>2, <1>4 DEF Grows
    <3>2. u \in mono \cup real
      BY <3>1 DEF Memory, ArmedUntilDone
    <3> QED BY <3>2 DEF Grows
  <2> QED BY <2>1, <2>2
<1> QED BY <1>5, <1>6, <1>7, <1>9, <1>10 DEF Memory

-----------------------------------------------------------------------------
(* Each action keeps the invariant.                                         *)

(* The part of Types that is about the loop, its stack and the handles.     *)
LoopTypes ==
  /\ pc \in {"events", "dispatch", "reload", "staging", "refresh"}
  /\ role \in [Gens -> {"none", "staging", "current", "old"}]
  /\ faulted \in [Gens -> SUBSET Blocks]
  /\ todo \subseteq Blocks
  /\ lua \in Gens \cup {NoGen}
  /\ on \in Blocks \cup {NoBlock}
  /\ run \in Timers \cup {NoTimer}
  /\ handle \in [Handles -> Timers \cup {NoTimer}]
  /\ owner \in [Handles -> Gens \cup {NoGen}]

(* The two parts are all of Types.                                          *)
LEMMA TypesSplit ==
  /\ LoopTypes /\ MemoryTypes => Types
  /\ LoopTypes' /\ MemoryTypes' => Types'
BY DEF LoopTypes, MemoryTypes, Types

(* The timer on the stack is one of those the step leaves, or none.         *)
LEMMA RunningKept ==
  ASSUME NEW R, Running, Memory, Types,
         \A t \in linked \ R : /\ tm'[t].gen = tm[t].gen
                               /\ tm'[t].block = tm[t].block,
         run' = run /\ run \notin R /\ UNCHANGED <<pc, lua, on>>
  PROVE  Running'
BY DEF Running, Memory, HeapsLive

(* ctx:after, ctx:every and ctx:at_realtime.                                *)
LEMMA CreateKeeps == IInv /\ CreateAny => IInv'
<1> SUFFICES ASSUME IInv, CreateAny
             PROVE  IInv'
  OBVIOUS
<1> USE DEF IInv
<1>1. PICK t \in Timers, h \in Handles, b \in Blocks,
           kind \in {"after", "every", "realtime"}, delay \in Nat :
         Create(t, h, b, kind, delay)
  BY TimersAssumption DEF CreateAny
<1> DEFINE r == [gen |-> lua, block |-> b, kind |-> kind, delay |-> delay,
                 cancelled |-> FALSE, handle |-> h]
<1>2. UNCHANGED <<pc, role, faulted, todo, lua, on, run>>
  BY <1>1 DEF Create, loop, stack
<1>3. lua \in Gens /\ role[lua] \in {"staging", "current"}
  BY <1>1 DEF Create, Types, Roles
<1>4. /\ r \in Fields /\ r.gen = lua /\ r.block = b /\ ~ r.cancelled
      /\ r.handle = h
      /\ tm' = [tm EXCEPT ![t] = r]
  BY <1>1, <1>3 DEF Create, Fields
<1> HIDE DEF r
<1>5. Grows(t, r)
  BY <1>1, <1>3, <1>4 DEF Create, Grows
<1>6. Attaches(t, r)
  BY <1>1, <1>4 DEF Create, Attaches
<1>7. Memory' /\ MemoryTypes'
  BY <1>2, <1>5, <1>6, GrowKeepsMemory
<1>8. LoopTypes'
  BY <1>1, <1>2, <1>3 DEF Create, LoopTypes, Types
<1>9. Roles'
  BY <1>2 DEF Roles
<1>10. Running'
  <2>1. run # NoTimer => tm'[run] = tm[run]
    BY <1>1 DEF Create, Memory, HeapsLive, Types
  <2> QED BY <1>2, <2>1 DEF Running
<1> QED BY <1>7, <1>8, <1>9, <1>10, TypesSplit

(* handle:cancel().                                                         *)
LEMMA CancelKeeps ==
  ASSUME NEW h \in Handles
  PROVE  IInv /\ CancelHandle(h) => IInv'
<1> SUFFICES ASSUME IInv, CancelHandle(h)
             PROVE  IInv'
  OBVIOUS
<1> USE DEF IInv
<1> DEFINE t == handle[h]
           R == ReleasedNow(t)
<1>1. UNCHANGED <<pc, role, faulted, todo, lua, on, run, owner>>
  BY DEF CancelHandle, loop, stack
<1>2. R \subseteq linked /\ run \notin R
  BY DEF CancelHandle, ReleasedNow, Memory, OwnersAgree
<1>3. Retire({t}, R, {}) /\ handle' = Detach(R)
  BY DEF CancelHandle
<1> HIDE DEF t, R
<1>4. Shrinks({t}, R, {}) /\ MemoryTypes'
  BY <1>2, <1>3, RetireShrinks DEF Memory
<1>5. Detaches(R, {})
  BY <1>1, <1>2, <1>3, DetachDetaches
<1>6. LeavesOthers(R)
  BY <1>1, <1>2 DEF LeavesOthers
<1>7. Memory'
  BY <1>4, <1>5, <1>6, ShrinkKeepsMemory
<1>8. LoopTypes'
  BY <1>1, <1>3 DEF LoopTypes, Types, Detach
<1>9. Roles'
  BY <1>1 DEF Roles
<1>10. Running'
  BY <1>1, <1>2, <1>4, RunningKept DEF Shrinks
<1> QED BY <1>4, <1>7, <1>8, <1>9, <1>10, TypesSplit

(* A handle is collected.                                                   *)
LEMMA CollectKeeps ==
  ASSUME NEW h \in Handles
  PROVE  IInv /\ Collect(h) => IInv'
<1> SUFFICES ASSUME IInv, Collect(h)
             PROVE  IInv'
  OBVIOUS
<1> USE DEF IInv
<1> DEFINE D == {t \in linked : t = handle[h]}
           C == {t \in D : ~ tm[t].cancelled}
           R == C \ {run}
<1>1. UNCHANGED <<pc, role, faulted, todo, lua, on, run>>
  BY DEF Collect, loop, stack
<1>2. R \subseteq linked /\ run \notin R /\ R \subseteq D
  OBVIOUS
<1>3. Retire(C, R, D)
  BY DEF Collect
<1>4. Detaches(R, D)
  <2> SUFFICES ASSUME NEW k \in Handles
               PROVE  /\ handle'[k] = IF handle[k] \in R \cup D THEN NoTimer
                                      ELSE handle[k]
                      /\ handle'[k] # NoTimer => owner'[k] = owner[k]
    BY DEF Detaches
  <2>1. NoTimer \notin linked
    BY TimersAssumption DEF Types
  <2>2. CASE k = h
    <3>1. handle'[k] = NoTimer
      BY <2>2 DEF Collect, Types
    <3>2. handle[k] \in D \/ handle[k] = NoTimer
      BY <2>2 DEF Memory, OwnersAgree
    <3> QED BY <3>1, <3>2
  <2>3. CASE k # h
    <3>1. handle'[k] = handle[k] /\ owner'[k] = owner[k]
      BY <2>3 DEF Collect, Types
    <3>2. handle[k] \notin D
      BY <2>1, <2>3 DEF Memory, OwnersAgree
    <3> QED BY <3>1, <3>2, <1>2
  <2> QED BY <2>2, <2>3
<1>5. LoopTypes'
  BY <1>1 DEF Collect, LoopTypes, Types
<1> HIDE DEF D, C, R
<1>6. Shrinks(C, R, D) /\ MemoryTypes'
  BY <1>2, <1>3, RetireShrinks DEF Memory
<1>7. LeavesOthers(R)
  BY <1>1, <1>2 DEF LeavesOthers
<1>8. Memory'
  BY <1>4, <1>6, <1>7, ShrinkKeepsMemory
<1>9. Roles'
  BY <1>1 DEF Roles
<1>10. Running'
  BY <1>1, <1>2, <1>6, RunningKept DEF Shrinks
<1> QED BY <1>5, <1>6, <1>8, <1>9, <1>10, TypesSplit

(* Steps that leave the timers, the handles and the heaps alone.            *)
LEMMA QuietKeeps ==
  ASSUME IInv, UNCHANGED <<memory, handles, mono, real>>, LoopTypes', Roles',
         Running', LeavesOthers({})
  PROVE  IInv'
<1> USE DEF IInv
<1>1. Shrinks({}, {}, {}) /\ Detaches({}, {}) /\ MemoryTypes'
  BY NothingFreed
<1>2. Memory'
  BY <1>1, ShrinkKeepsMemory
<1> QED BY <1>1, <1>2, TypesSplit

(* What a quiet step leaves of the memory.                                  *)
LEMMA MemorySame ==
  ASSUME UNCHANGED <<memory, handles, mono, real>>
  PROVE  UNCHANGED <<linked, tm, count, handle, owner, mono, real>>
BY DEF memory, handles

(* The callbacks of the event handlers and of the live refresh.             *)
LEMMA CallbackKeeps ==
  ASSUME NEW g \in Gens, NEW b \in Blocks
  PROVE  IInv /\ (SourceCallback(g, b) \/ Refresh(g, b)) => IInv'
<1> SUFFICES ASSUME IInv, SourceCallback(g, b) \/ Refresh(g, b)
             PROVE  IInv'
  OBVIOUS
<1>1. /\ UNCHANGED <<pc, role, faulted, todo, run>>
      /\ UNCHANGED <<memory, handles, mono, real>>
      /\ pc # "staging" /\ pc # "reload" /\ lua = NoGen /\ role[g] = "current"
      /\ lua' = g /\ on' = b
  BY DEF SourceCallback, Refresh, loop
<1>2. g # NoGen
  BY TimersAssumption
<1>3. LoopTypes'
  BY <1>1, MemorySame DEF IInv, LoopTypes, Types
<1>4. Roles'
  BY <1>1, <1>2 DEF IInv, Roles
<1>5. Running'
  BY <1>1 DEF IInv, Running
<1>6. LeavesOthers({})
  BY <1>1 DEF LeavesOthers
<1> QED BY <1>1, <1>3, <1>4, <1>5, <1>6, QuietKeeps

(* The callback of an event handler returns.                                *)
LEMMA SourceReturnKeeps == IInv /\ SourceReturn => IInv'
<1> SUFFICES ASSUME IInv, SourceReturn
             PROVE  IInv'
  OBVIOUS
<1>1. /\ UNCHANGED <<pc, role, faulted, todo>>
      /\ UNCHANGED <<memory, handles, mono, real>>
      /\ pc = "events" /\ run = NoTimer
      /\ lua' = NoGen /\ on' = NoBlock /\ run' = NoTimer
  BY DEF SourceReturn, Return, loop
<1>2. NoGen \notin Gens
  BY TimersAssumption
<1>3. LoopTypes'
  BY <1>1, MemorySame DEF IInv, LoopTypes, Types
<1>4. Roles'
  BY <1>1, <1>2 DEF IInv, Roles
<1>5. Running'
  BY <1>1 DEF Running
<1>6. LeavesOthers({})
  BY <1>1 DEF LeavesOthers
<1> QED BY <1>1, <1>3, <1>4, <1>5, <1>6, QuietKeeps

(* The loop goes from one part of its turn to the next, or time passes.     *)
LEMMA TurnKeeps ==
  IInv /\ (BeginDispatch \/ DispatchDone \/ NoReload \/ Tick) => IInv'
<1> SUFFICES ASSUME IInv, BeginDispatch \/ DispatchDone \/ NoReload \/ Tick
             PROVE  IInv'
  OBVIOUS
<1>1. /\ UNCHANGED <<role, faulted, todo, lua, on, run>>
      /\ UNCHANGED <<memory, handles, mono, real>>
      /\ \/ pc' = pc
         \/ /\ lua = NoGen
            /\ pc \in {"events", "dispatch", "reload"}
            /\ pc' \in {"events", "dispatch", "reload"}
  BY DEF IInv, Roles, BeginDispatch, DispatchDone, NoReload, Tick, loop, stack
<1>2. LoopTypes'
  BY <1>1, MemorySame DEF IInv, LoopTypes, Types
<1>3. Roles'
  BY <1>1, TimersAssumption DEF IInv, Roles
<1>4. Running'
  BY <1>1, MemorySame DEF IInv, Running
<1>5. LeavesOthers({})
  BY <1>1 DEF LeavesOthers
<1> QED BY <1>1, <1>2, <1>3, <1>4, <1>5, QuietKeeps

(* A generation is staged.                                                  *)
LEMMA StageKeeps ==
  ASSUME NEW g \in Gens
  PROVE  IInv /\ Stage(g) => IInv'
<1> SUFFICES ASSUME IInv, Stage(g)
             PROVE  IInv'
  OBVIOUS
<1>1. /\ UNCHANGED <<faulted, todo, on, run>>
      /\ UNCHANGED <<memory, handles, mono, real>>
      /\ pc = "reload" /\ role[g] = "none"
      /\ pc' = "staging" /\ lua' = g
      /\ role' = [role EXCEPT ![g] = "staging"]
  BY DEF Stage
<1>2. g # NoGen
  BY TimersAssumption
<1>3. role \in [Gens -> {"none", "staging", "current", "old"}]
  BY DEF IInv, Types
<1>4. LoopTypes'
  BY <1>1, MemorySame DEF IInv, LoopTypes, Types
<1>5. \A f \in Gens : role'[f] = IF f = g THEN "staging" ELSE role[f]
  BY <1>1, <1>3
<1>6. \A f \in Gens : role[f] # "staging" /\ role[f] # "old"
  BY <1>1 DEF IInv, Roles
<1>7. Roles'
  BY <1>1, <1>2, <1>5, <1>6 DEF IInv, Roles
<1>8. run = NoTimer
  BY <1>1 DEF IInv, Running
<1>9. Running'
  BY <1>1, <1>8 DEF Running
<1>10. LeavesOthers({})
  BY <1>1, <1>5 DEF IInv, Memory, OnList, LeavesOthers
<1> QED BY <1>1, <1>4, <1>7, <1>9, <1>10, QuietKeeps

(* The set of a fault is on the generation's list.                          *)
LEMMA FaultTypes ==
  ASSUME Types, lua \in Gens, on \in Blocks \cup {NoBlock},
         faulted' = [faulted EXCEPT ![lua] = @ \cup {on}]
  PROVE  /\ on \in Blocks => faulted' \in [Gens -> SUBSET Blocks]
         /\ \A g \in Gens : faulted[g] \subseteq faulted'[g]
BY DEF Types

(* A callback that is not a timer's raises an error.                        *)
LEMMA FailsKeep == IInv /\ (SourceFails \/ RefreshFails) => IInv'
<1> SUFFICES ASSUME IInv, SourceFails \/ RefreshFails
             PROVE  IInv'
  OBVIOUS
<1> USE DEF IInv
<1> DEFINE C == FaultCancels(lua, on)
<1>1. /\ UNCHANGED <<pc, role, handle, owner>>
      /\ todo' \subseteq todo
      /\ pc # "staging" /\ lua # NoGen /\ run = NoTimer
      /\ lua' = NoGen /\ on' = NoBlock /\ run' = NoTimer
      /\ faulted' = [faulted EXCEPT ![lua] = @ \cup {on}]
      /\ Retire(C, {}, {})
  BY DEF SourceFails, RefreshFails, Return, handles, Running
<1> HIDE DEF C
<1>2. lua \in Gens /\ on \in Blocks /\ NoGen \notin Gens
  BY <1>1, TimersAssumption DEF Types, Running
<1>3. Shrinks(C, {}, {}) /\ MemoryTypes'
  BY <1>1, RetireShrinks DEF Memory
<1>4. Detaches({}, {})
  BY <1>1 DEF Detaches
<1>5. LeavesOthers({})
  BY <1>1, <1>2, FaultTypes DEF LeavesOthers, Memory, OnList
<1>6. Memory'
  BY <1>3, <1>4, <1>5, ShrinkKeepsMemory
<1>7. LoopTypes'
  BY <1>1, <1>2, FaultTypes DEF LoopTypes, Types
<1>8. Roles'
  BY <1>1, <1>2 DEF Roles
<1>9. Running'
  BY <1>1 DEF Running
<1> QED BY <1>3, <1>6, <1>7, <1>8, <1>9, TypesSplit

(* A timer's callback raises an error.                                      *)
LEMMA TimerFailsKeeps == IInv /\ TimerFails => IInv'
<1> SUFFICES ASSUME IInv, TimerFails
             PROVE  IInv'
  OBVIOUS
<1> USE DEF IInv
<1> DEFINE C == FaultCancels(lua, on)
<1>1. /\ UNCHANGED <<pc, role, todo, owner>>
      /\ run # NoTimer
      /\ lua' = NoGen /\ on' = NoBlock /\ run' = NoTimer
      /\ faulted' = [faulted EXCEPT ![lua] = @ \cup {on}]
      /\ Retire(C, {run}, {})
      /\ handle' = Detach({run})
  BY DEF TimerFails, Return
<1> HIDE DEF C
<1>2. lua \in Gens /\ on \in Blocks /\ NoGen \notin Gens
      /\ pc \in {"events", "dispatch"} /\ run \in linked
  BY <1>1, TimersAssumption DEF Types, Running, Memory, HeapsLive
<1>3. Shrinks(C, {run}, {}) /\ MemoryTypes'
  BY <1>1, <1>2, RetireShrinks DEF Memory
<1>4. Detaches({run}, {})
  BY <1>1, <1>2, DetachDetaches
<1>5. LeavesOthers({run})
  BY <1>1, <1>2, FaultTypes DEF LeavesOthers, Memory, OnList
<1>6. Memory'
  BY <1>3, <1>4, <1>5, ShrinkKeepsMemory
<1>7. LoopTypes'
  BY <1>1, <1>2, FaultTypes DEF LoopTypes, Types, Detach
<1>8. Roles'
  BY <1>1, <1>2 DEF Roles
<1>9. Running'
  BY <1>1 DEF Running
<1> QED BY <1>3, <1>6, <1>7, <1>8, <1>9, TypesSplit

(* A timer's callback returns: the timer is armed again or freed.           *)
LEMMA TimerReturnKeeps == IInv /\ TimerReturn => IInv'
<1> SUFFICES ASSUME IInv, TimerReturn
             PROVE  IInv'
  OBVIOUS
<1> USE DEF IInv
<1>1. /\ UNCHANGED <<pc, role, faulted, todo, owner>>
      /\ run # NoTimer
      /\ lua' = NoGen /\ on' = NoBlock /\ run' = NoTimer
  BY DEF TimerReturn, Return, loop
<1>2. lua \in Gens /\ NoGen \notin Gens /\ run \in linked
      /\ pc \in {"events", "dispatch"} /\ role[tm[run].gen] = "current"
  BY <1>1, TimersAssumption DEF Types, Running, Memory, HeapsLive, Roles
<1>3. Roles'
  BY <1>1, <1>2 DEF Roles
<1>4. Running'
  BY <1>1 DEF Running
<1>5. CASE Interval(run) # 0 /\ ~ tm[run].cancelled
  <2>1. /\ mono' = mono \cup {run}
        /\ UNCHANGED <<linked, tm, count, handle, real>>
    BY <1>5 DEF TimerReturn, memory
  <2>2. MemoryTypes' /\ LoopTypes'
    BY <1>1, <1>2, <2>1 DEF Types, MemoryTypes, LoopTypes
  <2>3. OnList' /\ OwnersAgree'
    BY <1>1, <2>1 DEF Memory, OnList, OwnersAgree, OfGen
  <2>4. HeapsLive'
    <3>1. mono' \cup real' \cup ({run'} \ {NoTimer}) \subseteq linked'
          /\ mono' \cap real' = {}
      BY <1>1, <1>2, <2>1 DEF Memory, HeapsLive
    <3>2. ASSUME NEW t \in mono' \cup real'
          PROVE  t # run' /\ ~tm'[t].cancelled
                 /\ role'[tm'[t].gen] \in {"current", "old"}
      <4>1. t # NoTimer
        BY <1>1, <2>1, TimersAssumption DEF Types
      <4>2. t = run \/ t \in mono \cup real
        BY <2>1
      <4> QED BY <1>1, <1>2, <1>5, <2>1, <4>1, <4>2 DEF Memory, HeapsLive
    <3> QED BY <3>1, <3>2 DEF HeapsLive
  <2>5. ArmedUntilDone'
    BY <1>1, <2>1 DEF Memory, ArmedUntilDone
  <2> QED BY <1>3, <1>4, <2>2, <2>3, <2>4, <2>5, TypesSplit DEF Memory
<1>6. CASE ~(Interval(run) # 0 /\ ~ tm[run].cancelled)
  <2>1. Retire({}, {run}, {}) /\ handle' = Detach({run})
    BY <1>6 DEF TimerReturn
  <2>2. Shrinks({}, {run}, {}) /\ MemoryTypes'
    BY <1>2, <2>1, RetireShrinks DEF Memory
  <2>3. Detaches({run}, {})
    BY <1>1, <1>2, <2>1, DetachDetaches
  <2>4. LeavesOthers({run})
    BY <1>1 DEF LeavesOthers
  <2>5. Memory'
    BY <2>2, <2>3, <2>4, ShrinkKeepsMemory
  <2>6. LoopTypes'
    BY <1>1, <2>1 DEF LoopTypes, Types, Detach
  <2> QED BY <1>3, <1>4, <2>2, <2>5, <2>6, TypesSplit
<1> QED BY <1>5, <1>6

(* A dispatcher pops a timer and calls it, unless it must not run.          *)
LEMMA PopKeeps ==
  ASSUME NEW t \in Timers
  PROVE  IInv /\ (PopDue(t) \/ PopRealtime(t)) => IInv'
<1> SUFFICES ASSUME IInv, PopDue(t) \/ PopRealtime(t)
             PROVE  IInv'
  OBVIOUS
<1> USE DEF IInv
<1>1. /\ UNCHANGED <<pc, role, faulted, todo>>
      /\ UNCHANGED <<linked, tm, count, handle, owner>>
      /\ pc \in {"events", "dispatch"} /\ lua = NoGen
      /\ t \in mono \cup real
      /\ mono' = mono \ {t} /\ real' = real \ {t}
      /\ Enter(t)
  BY DEF PopDue, PopRealtime, Memory, HeapsLive, loop, memory, handles
<1>2. /\ run = NoTimer /\ t # NoTimer /\ t \in linked /\ NoGen \notin Gens
      /\ tm[t].gen \in Gens /\ tm[t].block \in Blocks
  BY <1>1, TimersAssumption DEF Running, Memory, HeapsLive, OnList
<1>3. CASE Skipped(t)
  <2>1. UNCHANGED <<lua, on, run>>
    BY <1>1, <1>3 DEF Enter, stack
  <2>2. LoopTypes' /\ MemoryTypes'
    BY <1>1, <2>1 DEF LoopTypes, MemoryTypes, Types
  <2>3. Roles' /\ Running'
    BY <1>1, <1>2, <2>1 DEF Roles, Running
  <2>4. OnList' /\ OwnersAgree'
    BY <1>1 DEF Memory, OnList, OwnersAgree, OfGen
  <2>5. HeapsLive'
    BY <1>1, <2>1 DEF Memory, HeapsLive
  <2>6. ArmedUntilDone'
    BY <1>1, <1>3, <2>1 DEF Memory, ArmedUntilDone, Skipped
  <2> QED BY <2>2, <2>3, <2>4, <2>5, <2>6, TypesSplit DEF Memory
<1>4. CASE ~ Skipped(t)
  <2>1. lua' = tm[t].gen /\ on' = tm[t].block /\ run' = t
        /\ role[tm[t].gen] = "current"
    BY <1>1, <1>4 DEF Enter, Skipped
  <2>2. LoopTypes' /\ MemoryTypes'
    BY <1>1, <1>2, <2>1 DEF LoopTypes, MemoryTypes, Types
  <2>3. Roles'
    BY <1>1, <1>2, <2>1 DEF Roles
  <2>4. Running'
    BY <1>1, <1>2, <2>1 DEF Running
  <2>5. OnList' /\ OwnersAgree'
    BY <1>1 DEF Memory, OnList, OwnersAgree, OfGen
  <2>6. HeapsLive'
    BY <1>1, <1>2, <2>1 DEF Memory, HeapsLive
  <2>7. ArmedUntilDone'
    <3>1. \A u \in linked : u # run
      BY <1>2, TimersAssumption DEF Types
    <3> QED BY <1>1, <2>1, <3>1 DEF Memory, ArmedUntilDone
  <2> QED BY <2>2, <2>3, <2>4, <2>5, <2>6, <2>7, TypesSplit DEF Memory
<1> QED BY <1>3, <1>4

(* What generation_destroy leaves of the loop's view, and of its handles.   *)
LEMMA DestroyLoop ==
  ASSUME NEW g \in Gens, Types, Destroy(g)
  PROVE  /\ role' \in [Gens -> {"none", "staging", "current", "old"}]
         /\ faulted' \in [Gens -> SUBSET Blocks]
         /\ handle' \in [Handles -> Timers \cup {NoTimer}]
         /\ owner' \in [Handles -> Gens \cup {NoGen}]
         /\ \A f \in Gens : role'[f] = IF f = g THEN "none" ELSE role[f]
         /\ \A f \in Gens \ {g} : faulted'[f] = faulted[f]
BY DEF Destroy, Types

(* A generation is destroyed while no timer's callback runs.                *)
LEMMA DestroyKeepsMemory ==
  ASSUME NEW g \in Gens, Types, Memory, Destroy(g), run = NoTimer,
         run' = NoTimer
  PROVE  Memory' /\ MemoryTypes'
<1>1. /\ Shrinks({}, OfGen(g), {}) /\ Detaches(OfGen(g), {})
      /\ MemoryTypes'
  BY DestroyShrinks
<1>2. LeavesOthers(OfGen(g))
  <2>1. ASSUME NEW t \in linked \ OfGen(g)
        PROVE  /\ role'[tm[t].gen] = role[tm[t].gen]
               /\ faulted[tm[t].gen] \subseteq faulted'[tm[t].gen]
    <3>1. tm[t].gen \in Gens \ {g}
      BY DEF Memory, OnList, OfGen
    <3> QED BY <3>1, DestroyLoop
  <2> QED BY <2>1 DEF LeavesOthers
<1> QED BY <1>1, <1>2, ShrinkKeepsMemory

(* Staging fails, and the candidate is destroyed.                           *)
LEMMA StageFailsKeeps == IInv /\ StageFails => IInv'
<1> SUFFICES ASSUME IInv, StageFails
             PROVE  IInv'
  OBVIOUS
<1> USE DEF IInv
<1>1. /\ pc = "staging" /\ pc' = "events" /\ todo' = todo
      /\ lua' = NoGen /\ on' = NoBlock /\ run' = NoTimer
      /\ Destroy(lua)
  BY DEF StageFails, Return
<1>2. lua \in Gens /\ NoGen \notin Gens /\ run = NoTimer
  BY <1>1, TimersAssumption DEF Types, Roles, Running
<1>3. Memory' /\ MemoryTypes'
  BY <1>1, <1>2, DestroyKeepsMemory
<1>4. LoopTypes'
  BY <1>1, <1>2, DestroyLoop DEF LoopTypes, Types
<1>5. \A f \in Gens : role'[f] = IF f = lua THEN "none" ELSE role[f]
  BY <1>1, <1>2, DestroyLoop
<1>6. Roles'
  BY <1>1, <1>2, <1>5 DEF Roles
<1>7. Running'
  BY <1>1 DEF Running
<1> QED BY <1>3, <1>4, <1>6, <1>7, TypesSplit

(* The refresh is over, and the old generation is destroyed.                *)
LEMMA CommitDoneKeeps == IInv /\ CommitDone => IInv'
<1> SUFFICES ASSUME IInv, CommitDone
             PROVE  IInv'
  OBVIOUS
<1>1. /\ pc = "refresh" /\ pc' = "events" /\ lua = NoGen
      /\ UNCHANGED <<todo, lua, on, run>>
      /\ NoGen \notin Gens
  BY TimersAssumption DEF CommitDone, stack
<1>2. run = NoTimer
  BY <1>1 DEF IInv, Running
<1>3. Running'
  BY <1>1, <1>2 DEF Running
<1>4. CASE /\ \A g \in Gens : role[g] # "old"
           /\ UNCHANGED <<role, faulted, memory, handles, mono, real>>
  <2>1. LoopTypes'
    BY <1>1, <1>4, MemorySame DEF IInv, LoopTypes, Types
  <2>2. Roles'
    BY <1>1, <1>4 DEF IInv, Roles
  <2>3. LeavesOthers({})
    BY <1>1, <1>4 DEF LeavesOthers
  <2> QED BY <1>3, <1>4, <2>1, <2>2, <2>3, QuietKeeps
<1>5. ASSUME NEW g \in Gens, role[g] = "old", Destroy(g)
      PROVE  IInv'
  <2>1. Memory' /\ MemoryTypes'
    BY <1>1, <1>2, <1>5, DestroyKeepsMemory DEF IInv
  <2>2. LoopTypes'
    BY <1>1, <1>5, DestroyLoop DEF IInv, LoopTypes, Types
  <2>3. \A f \in Gens : role'[f] = IF f = g THEN "none" ELSE role[f]
    BY <1>5, DestroyLoop DEF IInv
  <2>4. Roles'
    BY <1>1, <1>5, <2>3 DEF IInv, Roles
  <2> QED BY <1>3, <2>1, <2>2, <2>4, TypesSplit DEF IInv
<1> QED BY <1>4, <1>5 DEF CommitDone

(* The staged timers are armed and the generations change roles.            *)
LEMMA CommitKeeps ==
  ASSUME NEW F \in SUBSET Blocks
  PROVE  IInv /\ Commit(F) => IInv'
<1> SUFFICES ASSUME IInv, Commit(F)
             PROVE  IInv'
  OBVIOUS
<1> USE DEF IInv
<1> DEFINE staged == {t \in OfGen(lua) : ~ tm[t].cancelled}
           M == {t \in Activated(F) : tm[t].kind # "realtime"}
           N == {t \in Activated(F) : tm[t].kind = "realtime"}
<1>1. /\ pc = "staging" /\ pc' = "refresh" /\ todo' = Blocks
      /\ role' = [g \in Gens |-> IF g = lua THEN "current"
                                 ELSE IF role[g] = "current" THEN "old"
                                 ELSE role[g]]
      /\ faulted' = [faulted EXCEPT ![lua] = F]
      /\ mono' = mono \cup M /\ real' = real \cup N
      /\ UNCHANGED <<linked, count, handle, owner>>
      /\ lua' = NoGen /\ on' = NoBlock /\ run' = NoTimer
  BY DEF Commit, Return, handles
<1>2. lua \in Gens /\ NoGen \notin Gens /\ role[lua] = "staging"
  BY <1>1, TimersAssumption DEF Types, Roles
<1>3. ASSUME NEW t \in Timers
      PROVE  /\ tm'[t] \in Fields
             /\ tm'[t].gen = tm[t].gen /\ tm'[t].block = tm[t].block
             /\ tm'[t].handle = tm[t].handle
             /\ tm'[t].cancelled <=>
                  (tm[t].cancelled \/ (t \in staged /\ tm[t].block \in F))
  <2> DEFINE c == tm[t].cancelled \/ (t \in staged /\ tm[t].block \in F)
             f == [tm[t] EXCEPT !.cancelled = c]
  <2>1. tm[t] \in Fields
    BY DEF Types
  <2>2. c \in BOOLEAN
    BY <2>1 DEF Fields
  <2>3. tm'[t] = f
    BY DEF Commit
  <2> HIDE DEF c
  <2>4. /\ f \in Fields /\ f.gen = tm[t].gen /\ f.block = tm[t].block
        /\ f.handle = tm[t].handle /\ f.cancelled = c
    BY <2>1, <2>2 DEF Fields
  <2> HIDE DEF f
  <2>5. /\ tm'[t] \in Fields /\ tm'[t].gen = tm[t].gen
        /\ tm'[t].block = tm[t].block /\ tm'[t].handle = tm[t].handle
        /\ tm'[t].cancelled = c
    BY <2>3, <2>4
  <2> QED BY <2>5 DEF c
<1>4. \A g \in Gens : role'[g] = IF g = lua THEN "current"
                                 ELSE IF role[g] = "current" THEN "old"
                                 ELSE role[g]
  BY <1>1
<1>5. /\ M \cup N \subseteq linked /\ linked \subseteq Timers
      /\ M \cap N = {}
      /\ \A t \in M \cup N : /\ tm[t].gen = lua /\ ~ tm[t].cancelled
                             /\ tm[t].block \notin F
      /\ \A t \in linked : /\ tm[t].gen = lua /\ ~ tm[t].cancelled
                           /\ tm[t].block \notin F
                           => t \in M \cup N
  BY DEF OfGen, Activated, Types
<1>6. staged \subseteq {t \in linked : tm[t].gen = lua}
  BY DEF OfGen
<1>7. tm' \in [Timers -> Fields]
  <2>1. tm' = [t \in Timers |-> tm'[t]]
    BY DEF Commit
  <2> QED BY <1>3, <2>1
<1>8. \A t \in linked : tm[t].gen = lua /\ ~ tm[t].cancelled => t \in staged
  BY DEF OfGen
<1> HIDE DEF staged, M, N
<1>9. LoopTypes' /\ MemoryTypes'
  <2>1. role' \in [Gens -> {"none", "staging", "current", "old"}]
    BY <1>1, <1>4 DEF Types
  <2>2. faulted' \in [Gens -> SUBSET Blocks]
    BY <1>1 DEF Types
  <2> QED BY <1>1, <1>5, <1>7, <2>1, <2>2 DEF LoopTypes, MemoryTypes, Types
<1>10. Roles'
  BY <1>1, <1>2, <1>4 DEF Roles
<1>11. Running'
  BY <1>1 DEF Running
<1>12. OnList'
  BY <1>1, <1>3, <1>4, <1>5 DEF Memory, OnList
<1>13. HeapsLive'
  <2>1. \A t \in mono \cup real :
          /\ t \in linked /\ tm[t].gen \in Gens /\ tm[t].gen # lua
          /\ role[tm[t].gen] \in {"current", "old"} /\ ~ tm[t].cancelled
    BY <1>2 DEF Memory, HeapsLive, OnList
  <2>2. mono' \cup real' \cup ({run'} \ {NoTimer}) \subseteq linked'
    BY <1>1, <1>5, <2>1
  <2>3. mono' \cap real' = {}
    BY <1>1, <1>5, <2>1 DEF Memory, HeapsLive
  <2>4. ASSUME NEW t \in mono' \cup real'
        PROVE  t # run' /\ ~tm'[t].cancelled
               /\ role'[tm'[t].gen] \in {"current", "old"}
    <3>1. t \in Timers /\ t # NoTimer
      BY <2>2, <1>1, <1>5, TimersAssumption
    <3>2. CASE t \in mono \cup real
      BY <1>1, <1>3, <1>4, <1>6, <2>1, <3>1, <3>2
    <3>3. CASE t \in M \cup N
      BY <1>1, <1>2, <1>3, <1>4, <1>5, <3>1, <3>3
    <3> QED BY <1>1, <3>2, <3>3
  <2> QED BY <2>2, <2>3, <2>4 DEF HeapsLive
<1>14. OwnersAgree'
  <2>1. \A t \in linked : /\ tm'[t].gen = tm[t].gen
                          /\ tm'[t].handle = tm[t].handle
    BY <1>3, <1>5
  <2>2. \A g \in Gens : {t \in linked' : tm'[t].gen = g} = OfGen(g)
    BY <1>1, <2>1 DEF OfGen
  <2>3. \A g \in Gens :
          count'[g] = Cardinality({t \in linked' : tm'[t].gen = g})
    BY <1>1, <2>2 DEF Memory, OwnersAgree
  <2>4. \A h \in Handles : handle'[h] # NoTimer =>
          /\ handle'[h] \in linked'
          /\ tm'[handle'[h]].handle = h
          /\ tm'[handle'[h]].gen = owner'[h]
    BY <1>1, <2>1 DEF Memory, OwnersAgree
  <2>5. \A t \in linked' :
          tm'[t].handle # NoHandle => handle'[tm'[t].handle] = t
    BY <1>1, <2>1 DEF Memory, OwnersAgree
  <2> QED BY <2>3, <2>4, <2>5 DEF OwnersAgree, OfGen
<1>15. ArmedUntilDone'
  <2> SUFFICES ASSUME NEW t \in linked', ~tm'[t].cancelled,
                      role'[tm'[t].gen] = "current",
                      tm'[t].block \notin faulted'[tm'[t].gen]
               PROVE  t \in mono' \cup real'
    BY DEF ArmedUntilDone
  <2>1. t \in linked /\ t \in Timers /\ tm[t].gen \in Gens
    BY <1>1, <1>5 DEF Memory, OnList
  <2>2. /\ ~tm[t].cancelled /\ tm[t].gen = tm'[t].gen
        /\ tm[t].block = tm'[t].block
    BY <1>3, <2>1
  <2>3. tm[t].gen = lua
    BY <1>4, <2>1, <2>2
  <2>4. faulted'[lua] = F
    BY <1>1, <1>2 DEF Types
  <2> QED BY <1>1, <1>5, <2>1, <2>2, <2>3, <2>4
<1> QED BY <1>9, <1>10, <1>11, <1>12, <1>13, <1>14, <1>15, TypesSplit
        DEF Memory

(* A polling timer is added, if the block has an interval.                  *)
LEMMA PollKeeps ==
  ASSUME NEW g \in Gens, NEW b \in Blocks, NEW t \in Timers, IInv,
         AddPollTimer(g, b, t), role[g] = "current", pc = "refresh",
         run = NoTimer, run' = NoTimer, lua' = NoGen,
         on' \in Blocks \cup {NoBlock}
  PROVE  IInv'
<1> USE DEF IInv
<1>1. /\ UNCHANGED <<pc, role, faulted, handle, owner, real>>
      /\ todo' \subseteq todo
  BY DEF AddPollTimer, handles
<1>2. LoopTypes'
  BY <1>1 DEF LoopTypes, Types
<1>3. Roles'
  BY <1>1, TimersAssumption DEF Roles
<1>4. Running'
  BY DEF Running
<1>5. Memory' /\ MemoryTypes'
  <2>1. CASE UNCHANGED <<memory, mono>>
    <3>1. UNCHANGED <<memory, handles, mono, real>>
      BY <1>1, <2>1 DEF handles
    <3>2. LeavesOthers({})
      BY <1>1 DEF LeavesOthers
    <3> QED BY <3>1, <3>2, NothingFreed, ShrinkKeepsMemory
  <2>2. CASE ~ UNCHANGED <<memory, mono>>
    <3> DEFINE r == [gen |-> g, block |-> b, kind |-> "poll",
                     delay |-> Poll[b], cancelled |-> FALSE,
                     handle |-> NoHandle]
    <3>1. /\ t \notin linked /\ linked' = linked \cup {t}
          /\ tm' = [tm EXCEPT ![t] = r]
          /\ count' = [count EXCEPT ![g] = @ + 1]
          /\ mono' = mono \cup {t}
      BY <2>2 DEF AddPollTimer
    <3>2. /\ r \in Fields /\ r.gen = g /\ r.block = b /\ ~ r.cancelled
          /\ r.handle = NoHandle
      BY TimersAssumption DEF Fields
    <3> HIDE DEF r
    <3>3. Grows(t, r)
      BY <1>1, <3>1, <3>2 DEF Grows
    <3>4. Attaches(t, r)
      BY <1>1, <3>2 DEF Attaches
    <3> QED BY <1>1, <3>3, <3>4, GrowKeepsMemory
  <2> QED BY <2>1, <2>2
<1> QED BY <1>2, <1>3, <1>4, <1>5, TypesSplit

(* The live refresh of a block.                                             *)
LEMMA RefreshReturnKeeps ==
  ASSUME NEW t \in Timers
  PROVE  IInv /\ RefreshReturn(t) => IInv'
<1> SUFFICES ASSUME IInv, RefreshReturn(t)
             PROVE  IInv'
  OBVIOUS
<1>1. /\ pc = "refresh" /\ lua # NoGen /\ AddPollTimer(lua, on, t)
      /\ lua' = NoGen /\ on' = NoBlock /\ run' = NoTimer
  BY DEF RefreshReturn, Return
<1>2. /\ lua \in Gens /\ on \in Blocks /\ run = NoTimer
      /\ role[lua] = "current"
  BY <1>1 DEF IInv, Types, Roles, Running
<1> QED BY <1>1, <1>2, PollKeeps

(* A block that is faulted already is not refreshed.                        *)
LEMMA RefreshSkippedKeeps ==
  ASSUME NEW g \in Gens, NEW b \in Blocks, NEW t \in Timers
  PROVE  IInv /\ RefreshSkipped(g, b, t) => IInv'
<1> SUFFICES ASSUME IInv, RefreshSkipped(g, b, t)
             PROVE  IInv'
  OBVIOUS
<1>1. /\ pc = "refresh" /\ lua = NoGen /\ role[g] = "current"
      /\ UNCHANGED <<lua, on, run>>
  BY DEF RefreshSkipped, stack
<1>2. run = NoTimer /\ on \in Blocks \cup {NoBlock}
  BY <1>1 DEF IInv, Types, Running
<1>3. CASE AddPollTimer(g, b, t)
  BY <1>1, <1>2, <1>3, PollKeeps
<1>4. CASE /\ todo' = todo \ {b}
           /\ UNCHANGED <<pc, role, faulted, memory, handles, mono, real>>
  <2>1. LoopTypes'
    BY <1>1, <1>4, MemorySame DEF IInv, LoopTypes, Types
  <2>2. Roles' /\ Running'
    BY <1>1, <1>2, <1>4, TimersAssumption DEF IInv, Roles, Running
  <2>3. LeavesOthers({})
    BY <1>1, <1>4 DEF LeavesOthers
  <2> QED BY <1>4, <2>1, <2>2, <2>3, QuietKeeps
<1> QED BY <1>3, <1>4 DEF RefreshSkipped

-----------------------------------------------------------------------------
(* The theorems.                                                            *)

(* The program starts with one generation, which is staged.                 *)
LEMMA InitEstablishes == Init => IInv
<1> SUFFICES ASSUME Init
             PROVE  IInv
  OBVIOUS
<1>1. PICK g \in Gens :
        /\ role = [f \in Gens |-> IF f = g THEN "staging" ELSE "none"]
        /\ lua = g
  BY DEF Init
<1>2. Unused \in Fields
  BY DEF Unused, Fields
<1>3. Types
  BY <1>1, <1>2 DEF Init, Types
<1>4. Roles
  BY <1>1, TimersAssumption DEF Init, Roles
<1>5. Running
  BY DEF Init, Running
<1>6. OnList /\ HeapsLive /\ ArmedUntilDone
  BY DEF Init, OnList, HeapsLive, ArmedUntilDone
<1>7. OwnersAgree
  <2>1. \A f \in Gens : OfGen(f) = {}
    BY DEF Init, OfGen
  <2>2. Cardinality({}) = 0
    BY FS_EmptySet
  <2> QED BY <2>1, <2>2 DEF Init, OwnersAgree
<1> QED BY <1>3, <1>4, <1>5, <1>6, <1>7 DEF IInv, Memory

(* A step that changes nothing keeps it.                                    *)
LEMMA StutterKeeps == IInv /\ UNCHANGED vars => IInv'
<1> SUFFICES ASSUME IInv, UNCHANGED vars
             PROVE  IInv'
  OBVIOUS
<1>1. /\ UNCHANGED <<pc, role, faulted, todo, lua, on, run>>
      /\ UNCHANGED <<memory, handles, mono, real>>
  BY DEF vars, loop, stack
<1>2. LoopTypes'
  BY <1>1, MemorySame DEF IInv, LoopTypes, Types
<1>3. Roles' /\ Running'
  BY <1>1, MemorySame DEF IInv, Roles, Running
<1>4. LeavesOthers({})
  BY <1>1 DEF LeavesOthers
<1> QED BY <1>1, <1>2, <1>3, <1>4, QuietKeeps

(* No step breaks the invariant, and it holds at the start.                 *)
THEOREM TimersInductive == Spec => []IInv
<1>1. Init => IInv
  BY InitEstablishes
<1>2. IInv /\ [Next]_vars => IInv'
  <2> SUFFICES ASSUME IInv, [Next]_vars
               PROVE  IInv'
    OBVIOUS
  <2>1. CASE LuaStep
    BY <2>1, CreateKeeps, CancelKeeps, CollectKeeps DEF LuaStep
  <2>2. CASE Events
    BY <2>2, CallbackKeeps, PopKeeps DEF Events
  <2>3. CASE BeginDispatch \/ Tick
    BY <2>3, TurnKeeps
  <2>4. CASE Turn
    BY <2>4, SourceReturnKeeps, FailsKeep, PopKeeps, TurnKeeps,
       TimerReturnKeeps, TimerFailsKeeps, StageKeeps, StageFailsKeeps,
       CommitKeeps, CallbackKeeps, RefreshReturnKeeps, RefreshSkippedKeeps,
       CommitDoneKeeps DEF Turn
  <2>5. CASE UNCHANGED vars
    BY <2>5, StutterKeeps
  <2> QED BY <2>1, <2>2, <2>3, <2>4, <2>5 DEF Next
<1> QED BY <1>1, <1>2, PTL DEF Spec

(* No heap and no dispatcher ever holds a freed timer, and what is armed    *)
(* was not cancelled.                                                       *)
THEOREM HeapsStayLive == Spec => []HeapsLive
<1>1. IInv => HeapsLive
  BY DEF IInv, Memory
<1> QED BY <1>1, TimersInductive, PTL

(* A handle never reaches a timer that is not its own, and the counters     *)
(* that enforce I3SD_MAX_TIMERS are exact.                                  *)
THEOREM OwnersStayAgreed == Spec => []OwnersAgree
<1>1. IInv => OwnersAgree
  BY DEF IInv, Memory
<1> QED BY <1>1, TimersInductive, PTL

(* No timer of a healthy block of the current generation is lost.           *)
THEOREM TimersStayArmed == Spec => []ArmedUntilDone
<1>1. IInv => ArmedUntilDone
  BY DEF IInv, Memory
<1> QED BY <1>1, TimersInductive, PTL

-----------------------------------------------------------------------------
(* The deadlines of the Lua timers: their types, the phase a repeating      *)
(* timer keeps, and the one call it makes up for lost time with, however    *)
(* late the loop runs.                                                      *)

(* The part of TypeOK that Types leaves out.                                *)
ClockTypes ==
  /\ due \in [Timers -> Int]
  /\ older \in [Timers -> SUBSET Timers]
  /\ phase \in [Timers -> Nat]
DispatchTypes == elapsed \in Nat /\ left \in 0..Budget

(* Settle keeps the types of what it is given.                              *)
LEMMA SettleTypes ==
  ASSUME NEW d \in [Timers -> Int], NEW p \in [Timers -> Nat],
         NEW o \in [Timers -> SUBSET Timers], Settle(d, p, o)
  PROVE  ClockTypes'
BY DEF Settle, ClockTypes

(* Rescheduling is arithmetic on integers.                                  *)
LEMMA NextDueType ==
  ASSUME NEW t \in Timers, IInv, ClockTypes, DispatchTypes, Interval(t) # 0
  PROVE  NextDue(t) \in Int
<1>1. Interval(t) \in Nat \ {0} /\ due[t] \in Int /\ elapsed \in Nat
  BY DEF Interval, IInv, Types, Fields, ClockTypes, DispatchTypes
<1> DEFINE n == (- elapsed) - due[t]
<1>2. n \in Int
  BY <1>1
<1> HIDE DEF n
<1>3. n \div Interval(t) \in Int
  BY <1>1, <1>2
<1>4. \A i, j, k \in Int : i + (j + 1) * k \in Int
  OBVIOUS
<1>5. NextDue(t) = due[t] + (n \div Interval(t) + 1) * Interval(t)
  BY DEF NextDue, n
<1> QED BY <1>1, <1>3, <1>4, <1>5

(* Every step keeps the clocks' types.                                      *)
LEMMA ClocksKept ==
  IInv /\ ClockTypes /\ DispatchTypes /\ [Next]_vars
    => ClockTypes' /\ DispatchTypes'
<1> SUFFICES ASSUME IInv, ClockTypes, DispatchTypes, [Next]_vars
             PROVE  ClockTypes' /\ DispatchTypes'
  OBVIOUS
<1>1. due \in [Timers -> Int] /\ phase \in [Timers -> Nat]
      /\ older \in [Timers -> SUBSET Timers]
      /\ mono \subseteq Timers
  BY DEF ClockTypes, IInv, Types
<1>2. ASSUME UNCHANGED clock PROVE ClockTypes'
  BY <1>2 DEF ClockTypes, clock
<1>3. ASSUME UNCHANGED dispatch PROVE DispatchTypes'
  BY <1>3 DEF DispatchTypes, dispatch
<1>4. ASSUME Settle(due, phase, older) PROVE ClockTypes'
  BY <1>1, <1>4, SettleTypes
<1>5. CASE CreateAny
  <2>1. PICK t \in Timers, h \in Handles, b \in Blocks,
             kind \in {"after", "every", "realtime"}, delay \in Nat :
           Create(t, h, b, kind, delay)
    BY <1>5, TimersAssumption DEF CreateAny
  <2>2. Settle([due EXCEPT ![t] = delay], phase, [older EXCEPT ![t] = mono])
    BY <2>1 DEF Create
  <2>3. [due EXCEPT ![t] = delay] \in [Timers -> Int]
        /\ [older EXCEPT ![t] = mono] \in [Timers -> SUBSET Timers]
    BY <1>1, <2>1
  <2> QED BY <1>1, <1>3, <2>1, <2>2, <2>3, SettleTypes DEF Create
<1>6. CASE \E h \in Handles : CancelHandle(h) \/ Collect(h)
  BY <1>3, <1>4, <1>6 DEF CancelHandle, Collect, Retire
<1>7. CASE \/ \E g \in Gens, b \in Blocks :
                SourceCallback(g, b) \/ Refresh(g, b)
           \/ SourceReturn \/ NoReload
           \/ \E g \in Gens : Stage(g)
  BY <1>2, <1>3, <1>7
     DEF SourceCallback, Refresh, SourceReturn, NoReload, Stage
<1>8. CASE SourceFails \/ RefreshFails \/ TimerFails
  BY <1>3, <1>4, <1>8 DEF SourceFails, RefreshFails, TimerFails, Retire
<1>9. CASE BeginDispatch \/ DispatchDone
  <2>1. elapsed' = 0 /\ left' \in {0, Budget} /\ UNCHANGED clock
    BY <1>9 DEF BeginDispatch, DispatchDone
  <2>2. Budget \in Nat
    BY TimersAssumption
  <2> QED BY <1>2, <2>1, <2>2 DEF DispatchTypes
<1>10. CASE \E t \in Timers : PopDue(t)
  <2>1. left > 0 /\ left' = left - 1 /\ elapsed' = elapsed
        /\ Settle(due, phase, older)
    BY <1>10 DEF PopDue, BudgetLeft
  <2>2. Budget \in Nat
    BY TimersAssumption
  <2> QED BY <1>4, <2>1, <2>2 DEF DispatchTypes
<1>11. CASE \E t \in Timers : PopRealtime(t)
  BY <1>3, <1>4, <1>11 DEF PopRealtime
<1>12. CASE TimerReturn
  <2>1. run \in Timers
    BY <1>12 DEF TimerReturn, IInv, Types
  <2>2. CASE Interval(run) # 0 /\ ~ tm[run].cancelled
    <3>1. NextDue(run) \in Int
      BY <2>1, <2>2, NextDueType
    <3>2. Settle([due EXCEPT ![run] = NextDue(run)], phase,
                 [older EXCEPT ![run] = mono])
      BY <1>12, <2>2 DEF TimerReturn
    <3>3. [due EXCEPT ![run] = NextDue(run)] \in [Timers -> Int]
          /\ [older EXCEPT ![run] = mono] \in [Timers -> SUBSET Timers]
      BY <1>1, <3>1
    <3> QED BY <1>1, <1>3, <1>12, <3>2, <3>3, SettleTypes DEF TimerReturn
  <2>3. CASE ~ (Interval(run) # 0 /\ ~ tm[run].cancelled)
    BY <1>3, <1>4, <1>12, <2>3 DEF TimerReturn, Retire
  <2> QED BY <2>2, <2>3
<1>13. CASE StageFails
  BY <1>3, <1>4, <1>13 DEF StageFails, Destroy
<1>14. CASE \E F \in SUBSET Blocks : Commit(F)
  <2> DEFINE S == {t \in OfGen(lua) : ~ tm[t].cancelled}
             d == [t \in Timers |-> IF t \in S THEN tm[t].delay ELSE due[t]]
             o == [t \in Timers |-> IF t \in S THEN mono ELSE older[t]]
  <2>1. Settle(d, phase, o) /\ UNCHANGED dispatch
    BY <1>14 DEF Commit
  <2>2. \A t \in Timers : tm[t].delay \in Int
    BY DEF IInv, Types, Fields
  <2>3. d \in [Timers -> Int] /\ o \in [Timers -> SUBSET Timers]
    BY <1>1, <2>2
  <2> HIDE DEF S, d, o
  <2> QED BY <1>1, <1>3, <2>1, <2>3, SettleTypes
<1>15. ASSUME NEW g \in Gens, NEW b \in Blocks, NEW t \in Timers,
              AddPollTimer(g, b, t)
       PROVE  ClockTypes' /\ DispatchTypes'
  <2>1. CASE UNCHANGED clock
    BY <1>2, <1>3, <1>15, <2>1 DEF AddPollTimer
  <2>2. CASE ~ UNCHANGED clock
    <3> DEFINE p == Poll[b]
    <3>1. /\ p # 0
          /\ Settle([due EXCEPT ![t] = p - elapsed],
                    [phase EXCEPT ![t] = (p - elapsed) % p],
                    [older EXCEPT ![t] = mono])
      BY <1>15, <2>2 DEF AddPollTimer
    <3>2. p \in Nat /\ elapsed \in Nat
      BY TimersAssumption DEF DispatchTypes
    <3> HIDE DEF p
    <3>3. p - elapsed \in Int /\ (p - elapsed) % p \in Nat
      BY <3>1, <3>2
    <3>4. /\ [due EXCEPT ![t] = p - elapsed] \in [Timers -> Int]
          /\ [phase EXCEPT ![t] = (p - elapsed) % p] \in [Timers -> Nat]
          /\ [older EXCEPT ![t] = mono] \in [Timers -> SUBSET Timers]
      BY <1>1, <3>3
    <3> QED BY <1>3, <1>15, <3>1, <3>4, SettleTypes DEF AddPollTimer
  <2> QED BY <2>1, <2>2
<1>16. CASE \E t \in Timers : RefreshReturn(t)
  <2>1. PICK t \in Timers : AddPollTimer(lua, on, t) /\ pc = "refresh"
                             /\ lua # NoGen
    BY <1>16 DEF RefreshReturn
  <2>2. lua \in Gens /\ on \in Blocks
    BY <2>1 DEF IInv, Types, Running
  <2> QED BY <1>15, <2>1, <2>2
<1>17. CASE \E g \in Gens, b \in Blocks, t \in Timers : RefreshSkipped(g, b, t)
  BY <1>2, <1>3, <1>15, <1>17 DEF RefreshSkipped
<1>18. CASE CommitDone
  <2>1. elapsed' = 0 /\ left' = left
    BY <1>18 DEF CommitDone
  <2>2. DispatchTypes'
    BY <2>1 DEF DispatchTypes
  <2> QED BY <1>2, <1>4, <1>18, <2>2 DEF CommitDone, Destroy
<1>19. CASE Tick
  <2>1. \A t \in Timers : Interval(t) \in Nat
    BY DEF Interval, IInv, Types, Fields
  <2>2. \A n, i \in Nat : i # 0 => (n - 1) % i \in Nat
    OBVIOUS
  <2>3. elapsed' \in Nat /\ left' = left /\ older' = older
    BY <1>19 DEF Tick, DispatchTypes
  <2>4. due' \in [Timers -> Int]
    BY <1>1, <1>19 DEF Tick
  <2>5. phase' \in [Timers -> Nat]
    BY <1>1, <1>19, <2>1, <2>2 DEF Tick
  <2> QED BY <1>1, <2>3, <2>4, <2>5 DEF ClockTypes, DispatchTypes
<1>20. CASE UNCHANGED vars
  BY <1>2, <1>3, <1>20 DEF vars
<1> QED BY <1>5, <1>6, <1>7, <1>8, <1>9, <1>10, <1>11, <1>12, <1>13, <1>14,
           <1>16, <1>17, <1>18, <1>19, <1>20
        DEF Next, LuaStep, Events, Turn

(* The state of the timers is of its type, with any constants.              *)
THEOREM TimersTyped == Spec => []TypeOK
<1>1. Init => ClockTypes /\ DispatchTypes
  BY TimersAssumption DEF Init, ClockTypes, DispatchTypes
<1>2. IInv /\ ClockTypes /\ DispatchTypes => TypeOK
  BY DEF IInv, Types, Fields, ClockTypes, DispatchTypes, TypeOK
<1> QED BY <1>1, <1>2, ClocksKept, TimersInductive, PTL DEF Spec

-----------------------------------------------------------------------------
(* Division and remainder.                                                  *)

(* A remainder is what its definition says.                                 *)
LEMMA DivMod ==
  ASSUME NEW x \in Int, NEW i \in Nat \ {0}
  PROVE  /\ x \div i \in Int /\ x % i \in 0..(i - 1)
         /\ x = (x \div i) * i + (x % i)
OBVIOUS

(* And there is only one.                                                   *)
LEMMA ModIs ==
  ASSUME NEW i \in Nat \ {0}, NEW q \in Int, NEW r \in 0..(i - 1)
  PROVE  (q * i + r) % i = r
OBVIOUS

(* Whole intervals do not change it.                                        *)
LEMMA ModPlus ==
  ASSUME NEW x \in Int, NEW k \in Int, NEW i \in Nat \ {0}
  PROVE  (x + k * i) % i = x % i
<1> DEFINE q == x \div i
           r == x % i
<1>1. q \in Int /\ r \in 0..(i - 1) /\ x = q * i + r
  BY DivMod
<1> HIDE DEF q, r
<1>2. x + k * i = (q + k) * i + r
  BY <1>1
<1>3. ((q + k) * i + r) % i = r
  BY <1>1, ModIs
<1> QED BY <1>1, <1>2, <1>3 DEF r

(* Nor does it matter when the remainder is taken.                          *)
LEMMA ModMinus ==
  ASSUME NEW x \in Int, NEW i \in Nat \ {0}
  PROVE  (x - 1) % i = ((x % i) - 1) % i
<1> DEFINE q == x \div i
           r == x % i
<1>1. q \in Int /\ r \in 0..(i - 1) /\ x = q * i + r
  BY DivMod
<1> HIDE DEF q, r
<1>2. x - 1 = (r - 1) + q * i
  BY <1>1
<1>3. \A y, k \in Int : (y + k * i) % i = y % i
  BY ModPlus
<1>4. r - 1 \in Int
  BY <1>1
<1>5. ((r - 1) + q * i) % i = (r - 1) % i
  BY <1>1, <1>3, <1>4
<1> QED BY <1>2, <1>5 DEF r

-----------------------------------------------------------------------------
(* The phase of a repeating timer.                                          *)

(* The inductive invariant: it is kept in the callback too, and a timer     *)
(* that is not in the heap has no phase.                                    *)
Phased ==
  /\ \A t \in Timers : Interval(t) # 0 => due[t] % Interval(t) = phase[t]
  /\ \A t \in Timers \ (mono \cup {run}) : due[t] = 0 /\ phase[t] = 0

AllTypes == IInv /\ ClockTypes /\ DispatchTypes

(* Intervals are natural numbers.                                           *)
LEMMA IntervalType ==
  /\ Types => \A t \in Timers : Interval(t) \in Nat
  /\ Types' => \A t \in Timers : Interval(t)' \in Nat
BY DEF Types, Fields, Interval

(* A step that settles the clocks keeps the phase of every timer if it      *)
(* keeps that of the timers it leaves in the heap or on the stack.          *)
LEMMA SettleKeepsPhase ==
  ASSUME NEW d, NEW p, NEW o, Types', Settle(d, p, o),
         \A t \in Timers \cap (mono' \cup {run'}) :
            Interval(t)' # 0 => d[t] % Interval(t)' = p[t]
  PROVE  Phased'
<1>1. \A i \in Nat : i # 0 => 0 % i = 0
  OBVIOUS
<1>2. \A t \in Timers : Interval(t)' # 0 => due'[t] % Interval(t)' = phase'[t]
  BY <1>1, IntervalType DEF Settle
<1>3. \A t \in Timers \ (mono' \cup {run'}) : due'[t] = 0 /\ phase'[t] = 0
  BY DEF Settle
<1> QED BY <1>2, <1>3 DEF Phased

(* Timers that are not touched keep their interval, and so their phase.     *)
LEMMA SameKeepsPhase ==
  ASSUME Types', Phased, Settle(due, phase, older),
         \A t \in Timers \cap (mono' \cup {run'}) :
            tm'[t].kind = tm[t].kind /\ tm'[t].delay = tm[t].delay
  PROVE  Phased'
<1>1. \A t \in Timers \cap (mono' \cup {run'}) : Interval(t)' = Interval(t)
  BY DEF Interval
<1> QED BY <1>1, SettleKeepsPhase DEF Phased

(* Cancelling and freeing touch no interval.                                *)
LEMMA RetireKeepsPhase ==
  ASSUME NEW C, NEW R, NEW D, IInv, IInv', Phased, Retire(C, R, D)
  PROVE  Phased'
<1>1. ASSUME NEW t \in Timers, t \notin R
      PROVE  tm'[t].kind = tm[t].kind /\ tm'[t].delay = tm[t].delay
  <2> DEFINE c == tm[t].cancelled \/ t \in C
             h == IF t \in D THEN NoHandle ELSE tm[t].handle
             f == [tm[t] EXCEPT !.cancelled = c, !.handle = h]
  <2>1. tm[t] \in Fields
    BY DEF IInv, Types
  <2>2. tm'[t] = f
    BY <1>1 DEF Retire
  <2> HIDE DEF c, h
  <2>3. f.kind = tm[t].kind /\ f.delay = tm[t].delay
    BY <2>1 DEF Fields
  <2> HIDE DEF f
  <2> QED BY <2>2, <2>3
<1>2. \A t \in Timers \cap (mono' \cup {run'}) : t \notin R
  BY TimersAssumption DEF Retire, IInv, Memory, HeapsLive
<1>3. Settle(due, phase, older)
  BY DEF Retire
<1> QED BY <1>1, <1>2, <1>3, SameKeepsPhase DEF IInv

(* Every step keeps it.                                                     *)
LEMMA PhasesKept == AllTypes /\ IInv' /\ Phased /\ [Next]_vars => Phased'
<1> SUFFICES ASSUME IInv, ClockTypes, DispatchTypes, IInv', Phased,
                    [Next]_vars
             PROVE  Phased'
  BY DEF AllTypes
<1>1. Types' /\ NoTimer \notin Timers /\ mono \subseteq linked
      /\ run \in linked \cup {NoTimer}
  BY TimersAssumption DEF IInv, Memory, HeapsLive, Types
<1>2. \A i \in Nat : i # 0 => i % i = 0
  OBVIOUS
<1>3. due \in [Timers -> Int] /\ phase \in [Timers -> Nat]
      /\ \A t \in Timers : Interval(t) \in Nat
  BY IntervalType DEF ClockTypes, IInv
<1>4. CASE CreateAny
  <2>1. PICK t \in Timers, h \in Handles, b \in Blocks,
             kind \in {"after", "every", "realtime"}, delay \in Nat :
           Create(t, h, b, kind, delay)
    BY <1>4, TimersAssumption DEF CreateAny
  <2>2. /\ t \notin mono \cup {run}
        /\ Settle([due EXCEPT ![t] = delay], phase, [older EXCEPT ![t] = mono])
    BY <1>1, <2>1 DEF Create
  <2>3. phase[t] = 0 /\ [due EXCEPT ![t] = delay][t] = delay
    BY <1>3, <2>2 DEF Phased
  <2>4. Interval(t)' = IF kind = "every" THEN delay ELSE 0
    BY <2>1 DEF Create, Interval, IInv, Types
  <2>5. \A u \in Timers \ {t} : /\ Interval(u)' = Interval(u)
                                /\ [due EXCEPT ![t] = delay][u] = due[u]
    BY <1>3, <2>1 DEF Create, Interval, IInv, Types
  <2>6. \A u \in Timers : Interval(u)' # 0 =>
           [due EXCEPT ![t] = delay][u] % Interval(u)' = phase[u]
    BY <1>2, <2>1, <2>3, <2>4, <2>5 DEF Phased
  <2> QED BY <1>1, <2>2, <2>6, SettleKeepsPhase
<1>5. CASE \E h \in Handles : CancelHandle(h) \/ Collect(h)
  BY <1>5, RetireKeepsPhase DEF CancelHandle, Collect
<1>6. ASSUME UNCHANGED <<tm, mono, run, due, phase>>
      PROVE  Phased'
  BY <1>6 DEF Phased, Interval
<1>7. CASE \/ \E g \in Gens, b \in Blocks :
                SourceCallback(g, b) \/ Refresh(g, b)
           \/ SourceReturn \/ NoReload \/ BeginDispatch \/ DispatchDone
           \/ \E g \in Gens : Stage(g)
           \/ UNCHANGED vars
  BY <1>6, <1>7 DEF SourceCallback, Refresh, SourceReturn, Return, NoReload,
     BeginDispatch, DispatchDone, Stage, vars, memory, clock, stack
<1>8. CASE SourceFails \/ RefreshFails \/ TimerFails
  BY <1>8, RetireKeepsPhase DEF SourceFails, RefreshFails, TimerFails
<1>9. CASE \E t \in Timers : PopDue(t) \/ PopRealtime(t)
  BY <1>1, <1>9, SameKeepsPhase DEF PopDue, PopRealtime, memory
<1>10. CASE TimerReturn
  <2>1. CASE Interval(run) # 0 /\ ~ tm[run].cancelled
    <3>1. /\ run \in Timers /\ tm' = tm
          /\ Settle([due EXCEPT ![run] = NextDue(run)], phase,
                    [older EXCEPT ![run] = mono])
      BY <1>10, <2>1 DEF TimerReturn, memory, IInv, Types
    <3> DEFINE i == Interval(run)
               k == ((- elapsed) - due[run]) \div i + 1
    <3>2. i \in Nat \ {0} /\ due[run] \in Int /\ due[run] % i = phase[run]
      BY <1>3, <2>1, <3>1 DEF Phased
    <3>3. k \in Int
      BY <3>2, DivMod DEF DispatchTypes
    <3>4. NextDue(run) = due[run] + k * i
      BY DEF NextDue
    <3> HIDE DEF i, k
    <3>5. NextDue(run) % i = phase[run]
      BY <3>2, <3>3, <3>4, ModPlus
    <3>6. \A t \in Timers : Interval(t)' # 0 =>
            [due EXCEPT ![run] = NextDue(run)][t] % Interval(t)' = phase[t]
      BY <1>3, <3>1, <3>5 DEF Phased, Interval, i
    <3> QED BY <1>1, <3>1, <3>6, SettleKeepsPhase
  <2>2. CASE ~ (Interval(run) # 0 /\ ~ tm[run].cancelled)
    BY <1>10, <2>2, RetireKeepsPhase DEF TimerReturn
  <2> QED BY <2>1, <2>2
<1>11. ASSUME NEW g \in Gens, Destroy(g), run' = NoTimer
       PROVE  Phased'
  BY <1>1, <1>11, SameKeepsPhase DEF Destroy
<1>12. CASE StageFails
  <2>1. lua \in Gens
    BY <1>12 DEF StageFails, IInv, Types, Roles
  <2> QED BY <1>11, <1>12, <2>1 DEF StageFails, Return
<1>13. CASE CommitDone
  <2>1. run = NoTimer /\ run' = run
    BY <1>13 DEF CommitDone, stack, IInv, Running
  <2>2. \/ UNCHANGED <<tm, mono, due, phase>>
        \/ \E g \in Gens : Destroy(g)
    BY <1>13 DEF CommitDone, memory, clock
  <2> QED BY <1>6, <1>11, <2>1, <2>2
<1>14. CASE \E F \in SUBSET Blocks : Commit(F)
  <2>1. PICK F \in SUBSET Blocks : Commit(F)
    BY <1>14
  <2> DEFINE S == {t \in OfGen(lua) : ~ tm[t].cancelled}
             d == [t \in Timers |-> IF t \in S THEN tm[t].delay ELSE due[t]]
             o == [t \in Timers |-> IF t \in S THEN mono ELSE older[t]]
  <2>2. Settle(d, phase, o) /\ run = NoTimer /\ role[lua] = "staging"
    BY <2>1 DEF Commit, IInv, Roles, Running, Types
  <2>3. ASSUME NEW t \in Timers PROVE Interval(t)' = Interval(t)
    <3> DEFINE c == tm[t].cancelled \/ (t \in S /\ tm[t].block \in F)
               f == [tm[t] EXCEPT !.cancelled = c]
    <3>1. tm'[t] = f
      BY <2>1 DEF Commit
    <3>2. tm[t] \in Fields
      BY DEF IInv, Types
    <3> HIDE DEF c
    <3>3. f.kind = tm[t].kind /\ f.delay = tm[t].delay
      BY <3>2 DEF Fields
    <3> HIDE DEF f
    <3>4. tm'[t].kind = tm[t].kind /\ tm'[t].delay = tm[t].delay
      BY <3>1, <3>3
    <3> QED BY <3>4 DEF Interval
  <2>4. \A t \in S : t \notin mono \cup {run}
    <3>1. \A t \in S : t \in linked /\ tm[t].gen = lua /\ t \in Timers
      BY DEF OfGen, IInv, Types
    <3> QED BY <1>1, <2>2, <3>1 DEF IInv, Memory, HeapsLive
  <2>5. \A t \in S : t \in Timers
    BY DEF OfGen, IInv, Types
  <2>6. \A t \in Timers : Interval(t) # 0 => Interval(t) = tm[t].delay
    BY DEF Interval
  <2>7. \A t \in Timers : d[t] = IF t \in S THEN tm[t].delay ELSE due[t]
    OBVIOUS
  <2> HIDE DEF S, d, o
  <2>8. ASSUME NEW t \in Timers, Interval(t)' # 0
        PROVE  d[t] % Interval(t)' = phase[t]
    <3>1. CASE t \in S
      <4>1. phase[t] = 0
        BY <2>4, <3>1 DEF Phased
      <4>2. d[t] = Interval(t) /\ Interval(t) # 0
        BY <2>3, <2>6, <2>7, <2>8, <3>1
      <4> QED BY <1>2, <1>3, <2>3, <4>1, <4>2
    <3>2. CASE t \notin S
      BY <2>3, <2>7, <2>8, <3>2 DEF Phased
    <3> QED BY <3>1, <3>2
  <2> QED BY <1>1, <2>2, <2>8, SettleKeepsPhase
<1>15. ASSUME NEW g \in Gens, NEW b \in Blocks, NEW t \in Timers,
              AddPollTimer(g, b, t), run' = run
       PROVE  Phased'
  <2>1. CASE UNCHANGED <<tm, mono, due, phase>>
    BY <1>6, <1>15, <2>1
  <2>2. CASE ~ UNCHANGED <<tm, mono, due, phase>>
    <3> DEFINE p == Poll[b]
               d == [due EXCEPT ![t] = p - elapsed]
               q == [phase EXCEPT ![t] = (p - elapsed) % p]
    <3>1. /\ p # 0 /\ Settle(d, q, [older EXCEPT ![t] = mono])
          /\ tm' = [tm EXCEPT ![t] =
                      [gen |-> g, block |-> b, kind |-> "poll", delay |-> p,
                       cancelled |-> FALSE, handle |-> NoHandle]]
      BY <1>15, <2>2 DEF AddPollTimer, memory, clock
    <3>2. d[t] = p - elapsed /\ q[t] = (p - elapsed) % p
      BY <1>3
    <3>3. \A u \in Timers \ {t} : d[u] = due[u] /\ q[u] = phase[u]
      BY <1>3
    <3> HIDE DEF p, d, q
    <3>4. Interval(t)' = p
      BY <3>1 DEF Interval, IInv, Types
    <3>5. \A u \in Timers \ {t} : Interval(u)' = Interval(u)
      BY <3>1 DEF Interval, IInv, Types
    <3>6. \A u \in Timers : Interval(u)' # 0 => d[u] % Interval(u)' = q[u]
      BY <3>2, <3>3, <3>4, <3>5 DEF Phased
    <3> QED BY <1>1, <3>1, <3>6, SettleKeepsPhase
  <2> QED BY <2>1, <2>2
<1>16. CASE \E t \in Timers : RefreshReturn(t)
  <2>1. PICK t \in Timers : /\ AddPollTimer(lua, on, t) /\ pc = "refresh"
                            /\ lua # NoGen /\ run' = NoTimer
    BY <1>16 DEF RefreshReturn, Return
  <2>2. lua \in Gens /\ on \in Blocks /\ run = NoTimer
    BY <2>1 DEF IInv, Types, Running
  <2> QED BY <1>15, <2>1, <2>2
<1>17. CASE \E g \in Gens, b \in Blocks, t \in Timers : RefreshSkipped(g, b, t)
  BY <1>6, <1>15, <1>17 DEF RefreshSkipped, stack, memory, clock
<1>18. CASE Tick
  <2> DEFINE ticking == mono \cup ({run} \ {NoTimer})
  <2>1. \A t \in Timers : Interval(t)' = Interval(t)
    BY <1>18 DEF Tick, memory, Interval
  <2>2. ASSUME NEW t \in Timers
        PROVE  /\ due'[t] = IF t \in ticking THEN due[t] - 1 ELSE due[t]
               /\ phase'[t] = IF t \in ticking /\ Interval(t) # 0
                              THEN (phase[t] - 1) % Interval(t) ELSE phase[t]
    BY <1>18 DEF Tick
  <2>3. ASSUME NEW t \in Timers, Interval(t) # 0
        PROVE  due'[t] % Interval(t) = phase'[t]
    <3>1. due[t] % Interval(t) = phase[t] /\ due[t] \in Int
          /\ Interval(t) \in Nat \ {0}
      BY <1>3, <2>3 DEF Phased
    <3>2. (due[t] - 1) % Interval(t) = (phase[t] - 1) % Interval(t)
      BY <3>1, ModMinus
    <3> QED BY <2>2, <2>3, <3>1, <3>2
  <2>4. mono' = mono /\ run' = run
    BY <1>18 DEF Tick, stack
  <2>5. \A t \in Timers \ (mono' \cup {run'}) : due'[t] = 0 /\ phase'[t] = 0
    BY <2>2, <2>4 DEF Phased
  <2> QED BY <2>1, <2>3, <2>5 DEF Phased
<1> QED BY <1>4, <1>5, <1>7, <1>8, <1>9, <1>10, <1>12, <1>13, <1>14, <1>16,
           <1>17, <1>18
        DEF Next, LuaStep, Events, Turn

(* Dispatched late or not, a repeating timer keeps the phase of its first   *)
(* deadline.                                                                *)
THEOREM PhaseStaysKept == Spec => []PhaseKept
<1>1. Init => Phased
  <2>1. \A t \in Timers : Init => Interval(t) = 0
    BY DEF Init, Interval, Unused
  <2> QED BY <2>1 DEF Init, Phased
<1>2. Init => ClockTypes /\ DispatchTypes
  BY TimersAssumption DEF Init, ClockTypes, DispatchTypes
<1>3. IInv /\ Phased => PhaseKept
  BY DEF IInv, Types, Phased, PhaseKept
<1> QED BY <1>1, <1>2, <1>3, ClocksKept, PhasesKept, TimersInductive, PTL
        DEF Spec, AllTypes

-----------------------------------------------------------------------------
(* One call makes up for all the intervals that were missed.                *)

(* The first deadline of the grid after now lies after now.                 *)
LEMMA NextDueLater ==
  ASSUME NEW t \in Timers, AllTypes, Interval(t) # 0
  PROVE  NextDue(t) > - elapsed
<1> DEFINE i == Interval(t)
           d == due[t]
           n == (- elapsed) - d
<1>1. i \in Nat \ {0} /\ d \in Int /\ elapsed \in Nat
  BY IntervalType DEF AllTypes, IInv, ClockTypes, DispatchTypes
<1>2. n \in Int
  BY <1>1
<1>3. NextDue(t) = d + (n \div i + 1) * i
  BY DEF NextDue
<1>4. - elapsed = d + n
  BY <1>1
<1> HIDE DEF i, d, n
<1>5. /\ n \div i \in Int /\ n % i \in 0..(i - 1)
      /\ n = (n \div i) * i + (n % i)
  BY <1>1, <1>2, DivMod
<1>6. (n \div i + 1) * i = (n \div i) * i + i
  BY <1>1, <1>5
<1>7. (n \div i) * i \in Int
  BY <1>1, <1>5
<1> QED BY <1>1, <1>2, <1>3, <1>4, <1>5, <1>6, <1>7

(* A repeating timer is never due again in the dispatch that ran it.        *)
THEOREM NeverBursts == Spec => NoBurst
<1>1. AllTypes /\ IInv' /\ [Next]_vars =>
        [\A t \in Timers : run = t /\ t \in mono' => due'[t] > - elapsed']_vars
  <2> SUFFICES ASSUME AllTypes, IInv', Next, NEW t \in Timers, run = t,
                      t \in mono'
               PROVE  due'[t] > - elapsed'
    BY DEF vars
  <2>1. t # NoTimer /\ t \notin mono /\ t # run' /\ run # NoTimer
        /\ pc \in {"events", "dispatch"} /\ lua # NoGen
    BY TimersAssumption DEF AllTypes, IInv, Memory, HeapsLive, Running
  <2>2. TimerReturn
    <3>1. ~ LuaStep /\ ~ Tick
      <4>1. \A u \in Timers, h \in Handles, b \in Blocks,
                 k \in {"after", "every", "realtime"}, d \in Nat :
              ~ Create(u, h, b, k, d)
        BY <2>1 DEF Create, stack
      <4>2. ~ CreateAny
        BY <4>1, TimersAssumption DEF CreateAny
      <4>3. \A h \in Handles : ~ CancelHandle(h)
        BY <2>1 DEF CancelHandle, stack
      <4>4. \A h \in Handles : ~ Collect(h)
        BY <2>1 DEF Collect, stack
      <4>5. ~ Tick
        BY <2>1 DEF Tick, stack
      <4> QED BY <4>2, <4>3, <4>4, <4>5 DEF LuaStep
    <3>2. ~ Events
      BY <2>1 DEF Events, SourceCallback, PopRealtime
    <3>3. ~ (BeginDispatch \/ SourceReturn \/ SourceFails \/ DispatchDone)
      BY <2>1 DEF BeginDispatch, SourceReturn, SourceFails, DispatchDone
    <3>4. ~ TimerFails
      BY <2>1 DEF TimerFails, Retire, Disarm
    <3>5. \A u \in Timers : ~ PopDue(u) /\ ~ RefreshReturn(u)
      BY <2>1 DEF PopDue, RefreshReturn
    <3>6. ~ (NoReload \/ StageFails \/ RefreshFails \/ CommitDone)
      BY <2>1 DEF NoReload, StageFails, RefreshFails, CommitDone
    <3>7. \A g \in Gens : ~ Stage(g)
      BY <2>1 DEF Stage
    <3>8. \A F \in SUBSET Blocks : ~ Commit(F)
      BY <2>1 DEF Commit
    <3>9. \A g \in Gens, b \in Blocks, u \in Timers :
            ~ Refresh(g, b) /\ ~ RefreshSkipped(g, b, u)
      BY <2>1 DEF Refresh, RefreshSkipped
    <3>10. Turn
      BY <3>1, <3>2, <3>3 DEF Next
    <3> QED BY <3>3, <3>4, <3>5, <3>6, <3>7, <3>8, <3>9, <3>10 DEF Turn
  <2>3. CASE Interval(run) # 0 /\ ~ tm[run].cancelled
    <3>1. /\ Settle([due EXCEPT ![run] = NextDue(run)], phase,
                    [older EXCEPT ![run] = mono])
          /\ elapsed' = elapsed
      BY <2>2, <2>3 DEF TimerReturn, dispatch
    <3>2. due'[t] = NextDue(t)
      BY <3>1 DEF Settle, AllTypes, ClockTypes
    <3> QED BY <2>3, <3>1, <3>2, NextDueLater
  <2>4. CASE ~ (Interval(run) # 0 /\ ~ tm[run].cancelled)
    BY <2>1, <2>2, <2>4 DEF TimerReturn, Retire, Disarm
  <2> QED BY <2>3, <2>4
<1>2. Init => ClockTypes /\ DispatchTypes
  BY TimersAssumption DEF Init, ClockTypes, DispatchTypes
<1> QED BY <1>1, <1>2, ClocksKept, TimersInductive, PTL
        DEF Spec, NoBurst, AllTypes
=============================================================================
