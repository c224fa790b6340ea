---------------------------- MODULE SystemdFailed ----------------------------
(***************************************************************************)
(* src/src/systemd.c: the number of failed units of the system and the     *)
(* user manager, kept up to date over one bus connection each.             *)
(*                                                                         *)
(* Opening installs a match, the answer to that subscribes, the answer to  *)
(* that asks for the count, and every PropertiesChanged signal asks again  *)
(* unless an answer is still awaited.  The connection delivers what one    *)
(* peer sent in the order it was sent; how sd-bus moves bytes, and its fd  *)
(* in epoll, are left out: a connection works or fails.  The five seconds  *)
(* before a reopening are a flag the clock clears.                         *)
(***************************************************************************)
EXTENDS Integers, Sequences, Subscriptions

CONSTANTS
  Buses,       (* the system and the user bus                               *)
  Scope,       (* the buses a subscription is about                         *)
  MaxCount,    (* bound on the number of failed units                       *)
  MaxChanges,  (* bound on how often the number changes                     *)
  MaxTroubles  (* bound on errors, lost connections and failed openings     *)

SystemdConstants ==
  /\ SubscriptionsConstants
  /\ Scope \in [Subs -> (SUBSET Buses) \ {{}}]
  /\ {MaxCount, MaxChanges, MaxTroubles} \subseteq Nat

VARIABLES
  source,      (* struct systemd_bus of each bus, with the queues of sd-bus *)
  server,      (* each manager and the bus daemon in front of it (external) *)
  changes,     (* how often a number has changed                            *)
  troubles     (* how often something has failed                            *)

vars == <<source, server, changes, troubles, subscriptions>>

-----------------------------------------------------------------------------
(* The connection.                                                          *)

(* No connection.  `refused` is a history: the last answer that mattered   *)
(* was an error, so nothing will ask again by itself.                       *)
Unconnected ==
  [open |-> FALSE, waiting |-> FALSE, valid |-> FALSE, count |-> 0,
   query |-> FALSE, subscribe |-> FALSE, refused |-> FALSE,
   out |-> <<>>, in |-> <<>>]

Message(kind, ok, value) == [kind |-> kind, ok |-> ok, value |-> value]

(* i3sd_systemd_close: the count stays, but is not valid.                   *)
Close(c) == [Unconnected EXCEPT !.count = c.count, !.waiting = c.waiting]

(* Every failure closes and sets retry_deadline_ns.                         *)
GiveUp(c) == [Close(c) EXCEPT !.waiting = TRUE]

(* Faulty variant: every signal sends another query.                        *)
RequestSnapshotAgain(c) ==
  [c EXCEPT !.query = TRUE, !.out = Append(@, "get")]

RequestSnapshot(c) ==
  IF c.query THEN c
  ELSE [c EXCEPT !.query = TRUE, !.out = Append(@, "get")]

RequestSubscribe(c) ==
  IF c.subscribe THEN c
  ELSE [c EXCEPT !.subscribe = TRUE, !.out = Append(@, "subscribe")]

Opened(c) ==
  [c EXCEPT !.open = TRUE, !.waiting = FALSE, !.out = <<"match">>]

(* What becomes of the calls when the connection breaks after k messages:  *)
(* sd-bus answers each of them with an error and then reports the end.      *)
Reply(request) == CASE request = "match"     -> "match"
                    [] request = "subscribe" -> "subscribe"
                    [] request = "get"       -> "count"

Broken(c, k) ==
  LET lost == SelectSeq(SubSeq(c.in, k + 1, Len(c.in)),
                        LAMBDA m : m.kind # "signal")
      answered == [i \in DOMAIN lost |-> Message(lost[i].kind, FALSE, 0)]
      unsent == [i \in DOMAIN c.out |-> Message(Reply(c.out[i]), FALSE, 0)]
  IN [c EXCEPT !.out = <<>>,
               !.in = SubSeq(@, 1, k) \o answered \o unsent
                        \o <<Message("end", FALSE, 0)>>]

Needed(b) == \E s \in Active : b \in Scope[s]

Init ==
  /\ source = [b \in Buses |-> Unconnected]
  /\ server \in [Buses -> [count : 0..MaxCount, matched : {FALSE},
                           subscribed : {FALSE}]]
  /\ changes = 0
  /\ troubles = 0
  /\ InitSubscriptions

-----------------------------------------------------------------------------
(* The service and the connection to it (external).                         *)

Trouble == troubles < MaxTroubles /\ troubles' = troubles + 1

Ended(c) == \E i \in DOMAIN c.in : c.in[i].kind = "end"

(* The first request in the queue is answered.                              *)
Serve(b) ==
  LET request == Head(source[b].out)
      answer(ok, value) ==
        source' = [source EXCEPT
                     ![b].out = Tail(@),
                     ![b].in = Append(@, Message(Reply(request), ok, value))]
  IN /\ source[b].out # <<>>
     /\ ~Ended(source[b])
     /\ \/ /\ request = "match"
           /\ server' = [server EXCEPT ![b].matched = TRUE]
           /\ answer(TRUE, 0)
           /\ UNCHANGED troubles
        \/ /\ request = "subscribe"
           /\ server' = [server EXCEPT ![b].subscribed = TRUE]
           /\ answer(TRUE, 0)
           /\ UNCHANGED troubles
        \/ /\ request = "get"
           /\ answer(TRUE, server[b].count)
           /\ UNCHANGED <<server, troubles>>
        \/ /\ Trouble
           /\ answer(FALSE, 0)
           /\ UNCHANGED server
     /\ UNCHANGED <<changes, subscriptions>>

(* Units fail or recover; a client that subscribed and matches hears of it. *)
UnitsChange(b) ==
  /\ changes < MaxChanges
  /\ changes' = changes + 1
  /\ \E n \in (0..MaxCount) \ {server[b].count} :
       server' = [server EXCEPT ![b].count = n]
  /\ source' = IF server[b].matched /\ server[b].subscribed
                 THEN [source EXCEPT ![b].in =
                         Append(@, Message("signal", TRUE, 0))]
                 ELSE source
  /\ UNCHANGED <<troubles, subscriptions>>

Disconnect(b) ==
  /\ source[b].open
  /\ ~Ended(source[b])
  /\ Trouble
  /\ \E k \in 0..Len(source[b].in) :
       source' = [source EXCEPT ![b] = Broken(@, k)]
  /\ server' = [server EXCEPT ![b].matched = FALSE, ![b].subscribed = FALSE]
  /\ UNCHANGED <<changes, subscriptions>>

-----------------------------------------------------------------------------
(* The event loop: i3sd_systemd_process dispatches one message after the    *)
(* other, i3sd_systemd_reconcile runs before every wait and after every     *)
(* process.                                                                 *)

Receive(b, kind) ==
  /\ walk = {}
  /\ source[b].in # <<>>
  /\ Head(source[b].in).kind = kind

(* The handlers take the source without the message and the message.        *)
Handle(b, handler(_, _)) ==
  source' = [source EXCEPT
               ![b] = handler([@ EXCEPT !.in = Tail(@)], Head(@.in))]

OnMatch(c, m) ==
  IF m.ok THEN RequestSubscribe(c) ELSE [c EXCEPT !.refused = TRUE]

MatchInstalled(b) ==
  /\ Receive(b, "match")
  /\ Handle(b, OnMatch)
  /\ UNCHANGED <<server, changes, troubles, subscriptions>>

OnSubscribed(c, m) ==
  LET done == [c EXCEPT !.subscribe = FALSE]
  IN IF m.ok THEN RequestSnapshot(done)
     ELSE [done EXCEPT !.valid = FALSE, !.refused = TRUE]

SubscribeReply(b) ==
  /\ Receive(b, "subscribe")
  /\ Handle(b, OnSubscribed)
  /\ UNCHANGED <<server, changes, troubles, subscriptions>>

OnCount(c, m) ==
  LET done == [c EXCEPT !.query = FALSE, !.valid = m.ok, !.refused = ~m.ok]
  IN IF m.ok THEN [done EXCEPT !.count = m.value] ELSE done

(* Only an answer that is news starts a notification.                       *)
Changed(c, m) == m.ok /\ (~c.valid \/ c.count # m.value)

SnapshotReply(b) ==
  /\ Receive(b, "count")
  /\ Handle(b, OnCount)
  /\ walk' = IF Changed(source[b], Head(source[b].in)) THEN live ELSE {}
  /\ UNCHANGED <<server, changes, troubles, live, cancelled, told>>

OnSignal(c, m) == RequestSnapshot(c)

PropertyChanged(b) ==
  /\ Receive(b, "signal")
  /\ Handle(b, OnSignal)
  /\ UNCHANGED <<server, changes, troubles, subscriptions>>

(* sd_bus_process reports the lost connection.                              *)
Lost(b) ==
  /\ Receive(b, "end")
  /\ source' = [source EXCEPT ![b] = GiveUp(@)]
  /\ UNCHANGED <<server, changes, troubles, subscriptions>>

(* i3sd_systemd_notify: one subscription after the other, with the counts  *)
(* of the buses it is about if all of them are valid.                       *)
Counts(s) == [b \in Scope[s] |-> source[b].count]

Visit(s) ==
  /\ VisitWith(s, \A b \in Scope[s] : source[b].valid, Counts(s),
               Effects(s))
  /\ UNCHANGED <<source, server, changes, troubles>>

Closing(b) == server' = [server EXCEPT ![b].matched = FALSE,
                                       ![b].subscribed = FALSE]

CloseUnneeded(b) ==
  /\ walk = {}
  /\ ~Needed(b)
  /\ source[b].open
  /\ source' = [source EXCEPT ![b] = Close(@)]
  /\ Closing(b)
  /\ UNCHANGED <<changes, troubles, subscriptions>>

OpenBus(b) ==
  /\ walk = {}
  /\ Needed(b)
  /\ ~source[b].open
  /\ ~source[b].waiting
  /\ \/ /\ source' = [source EXCEPT ![b] = Opened(@)]
        /\ UNCHANGED troubles
     \/ /\ source' = [source EXCEPT ![b] = GiveUp(@)]
        /\ Trouble
  /\ UNCHANGED <<server, changes, subscriptions>>

(* No descriptor or events from sd-bus, or epoll_ctl fails.                 *)
RegisterFails(b) ==
  /\ walk = {}
  /\ Needed(b)
  /\ source[b].open
  /\ Trouble
  /\ source' = [source EXCEPT ![b] = GiveUp(@)]
  /\ Closing(b)
  /\ UNCHANGED <<changes, subscriptions>>

(* The retry deadline passes; epoll_timeout_ms wakes the loop for it.       *)
RetryDue(b) ==
  /\ source[b].waiting
  /\ source' = [source EXCEPT ![b].waiting = FALSE]
  /\ UNCHANGED <<server, changes, troubles, subscriptions>>

(* The rest of the program.                                                 *)
Cancel ==
  /\ \E s \in Subs : CancelWith(s, Effects(s))
  /\ UNCHANGED <<source, server, changes, troubles>>

Commit ==
  /\ \E new \in SUBSET Subs : CommitWith(new)
  /\ UNCHANGED <<source, server, changes, troubles>>

Process(b) ==
  \/ MatchInstalled(b)
  \/ SubscribeReply(b)
  \/ SnapshotReply(b)
  \/ PropertyChanged(b)
  \/ Lost(b)

Reconcile(b) == CloseUnneeded(b) \/ OpenBus(b) \/ RegisterFails(b)

Next ==
  \/ \E b \in Buses :
       \/ Serve(b)
       \/ UnitsChange(b)
       \/ Disconnect(b)
       \/ Process(b)
       \/ Reconcile(b)
       \/ RetryDue(b)
  \/ \E s \in Subs : Visit(s)
  \/ Cancel
  \/ Commit

Spec == Init /\ [][Next]_vars

-----------------------------------------------------------------------------
(* Properties.                                                              *)

Requests == {"match", "subscribe", "get"}
Kinds == {"match", "subscribe", "count", "signal", "end"}

(* Each field holds a value of its type; the queues hold only what the      *)
(* flags of the connection account for: one query and one subscription.     *)
TypeOK ==
  /\ TypeOKSubscriptions
  /\ \A b \in Buses :
       /\ source[b].count \in 0..MaxCount
       /\ \A i \in DOMAIN source[b].out : source[b].out[i] \in Requests
       /\ \A i \in DOMAIN source[b].in : source[b].in[i].kind \in Kinds
       /\ Len(SelectSeq(source[b].out, LAMBDA r : r = "get"))
            + Len(SelectSeq(source[b].in, LAMBDA m : m.kind = "count"))
              = (IF source[b].query THEN 1 ELSE 0)
       /\ ~source[b].open => source[b].in = <<>> /\ source[b].out = <<>>

(* On a connection with nothing left to send or to handle, and no call that *)
(* was refused, the count is valid and is the manager's: no change slips    *)
(* between the match, the subscription and the first query, and a signal    *)
(* that is dropped because a query is in flight is covered by its answer    *)
(* (systemd.c:105).                                                         *)
Settled(b) ==
  /\ source[b].open
  /\ source[b].in = <<>>
  /\ source[b].out = <<>>

CountsCurrent ==
  \A b \in Buses : Settled(b) /\ ~source[b].refused =>
    source[b].valid /\ source[b].count = server[b].count

(* Outside a notification every active subscription whose buses are valid   *)
(* has been told their present counts, also after a reload that takes the   *)
(* cached counts over and after a count that comes back unchanged           *)
(* (systemd.c:95, main.c:2681).                                             *)
SubscribersTold ==
  walk = {} =>
    \A s \in Active : (\A b \in Scope[s] : source[b].valid) =>
                        told[s] = Counts(s)
==============================================================================
