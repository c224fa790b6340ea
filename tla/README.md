# Models and proofs of i3sd

i3sd is a status-line daemon for i3bar: one process, one thread, one `epoll`
loop. A Lua configuration declares blocks; their callbacks run on timers, file
events, child processes, bus signals, clicks and clock changes, and the status
line is written to the bar over a pipe. This directory holds TLA+ modules of
the parts of the program whose behaviour depends on order, timing or failure,
the TLC configurations that check them on small instances, and proofs that TLAPS
checks for every instance: about the output path, timers, observers of the clock,
reloads, child processes, D-Bus operations, the table of watches, `ctx:set` and
the framing of clicks. Line numbers below refer to `src/src/` unless a path is given.

## 1. The system

The loop (`run_event_loop`, main.c:3330) does in each turn: reconcile the
sources, wait in `epoll_wait`, handle the harvested events, expire children,
run due timers within a budget, process the sources again, reload if asked,
render if the limiter allows, flush. Everything is called from there, so what
runs concurrently with i3sd is its environment: the bar, editors and producers
of files, child processes, the kernel's event queues, services behind D-Bus
and PipeWire, the clocks. Lua callbacks run inside the loop and may call back
into every component: cancel, create, spawn, fail.

A *generation* is one loaded configuration: its Lua state, blocks, timers,
subscriptions, feeds. A reload stages a new generation beside the current one,
validates it, commits it and destroys the old one. A *fault* (an error in a
callback) disables one block and cancels all it owns.

| component | state | operations | interacts with |
|---|---|---|---|
| status output (output.c, render_limiter.c) | two frame buffers, write offset, separator, render debt, EPOLLOUT registration | set_frame, flush, register, acquire a render | every component marks the status dirty; the bar |
| timer heap (timer.c) | array, slot index in each timer, sequence number | add, cancel, pop_due, reschedule | timers |
| timers and generations (main.c, realtime.c) | list per generation, two heaps, Lua handles | after, every, at_realtime, cancel, collect, dispatch, fault, stage, commit, destroy | Lua, the clocks |
| configuration reload (main.c) | current and candidate source, error line, inotify watch, reload flag | read, stage, compare, commit, events, SIGHUP | editors, all that a generation owns |
| child processes (spawn.c) | slots: pid, pipe, deadline, output, block | spawn, read, reap, expire, cancel, fault, retire | kernel, children, descendants |
| directory feeds (directory_feed.c) | shared table of watches, items of a block, overflow flag | activate, scan, event, lose, cancel, close | producers, kernel, reload |
| items and ctx:set (main.c, id_set.c) | items of a block with their fragments, the list under construction | set, reconcile by place or id, find a clicked item, fault, commit | output, clicks, feeds |
| systemd, power profiles (systemd.c, power_profiles.c) | connection, in-flight flags, cached values, retry deadline, subscriptions | reconcile, process, replies, signals, notify | service over D-Bus, blocks |
| PipeWire volume (pipewire.c) | registry of sinks, default's name, bound node, volume with a revision | registry, metadata and node events, reconnect, notify | PipeWire, blocks |
| power supply events (power_supply_events.c) | a netlink socket, retry deadline, subscriptions | reconcile, process, notify | the kernel's uevents; a hint beside a slow poll |
| D-Bus runtime (dbus.c) | lists of calls, matches and connect watches, a connection with an epoch, its callbacks (slots), retry deadline | create, start, reply, signal, disconnect, reap, cancel, fault, commit | any service, blocks |
| realtime clock (realtime.c) | timerfd, deadline armed, observers, a heap of timers | reconcile, process, notify, dispatch | wall clock, timers |
| click events (click.c) | framer: nesting, string, escape, event so far | feed | the bar, items |
| signals and suspend (main.c) | signalfd, offset between two clocks | SIGHUP, SIGCHLD, SIGTERM, resume | reload, children, timers |
| collectors, Lua modules, text helpers, settings, command line | next to none | read, parse, format | – |

What is hard in this code, and what makes each component correct:

* **Partial and refused writes.** The pipe may cut a write anywhere, and a
  newer status may arrive meanwhile. The byte stream must stay well formed, no
  change may be lost, and the loop must watch stdout exactly while it must.
* **Callbacks that change what is being walked.** A timer's callback cancels
  itself, its handle is collected, its block faults, a reload destroys its
  generation. No pointer may dangle, no armed timer may get lost.
* **Files that change while they are read.** What is committed must be one
  edit, and the last one must win.
* **Processes that outlive, pids that come back, stale epoll events.** No
  signal to a stranger, one answer per call, no leaked slot.
* **inotify**: events older than a scan, queue overflow, directories replaced
  between two system calls, watches shared by holders that come and go.
* **Answers and signals of a service that crosses them**, lost connections,
  cached values handed to subscribers of the next generation.
* **Lists of D-Bus operations that callbacks change while sd-bus walks them.** A
  slot that outlives its operation is a call into freed memory; a call that lost
  its slot waits forever; an operation nothing wakes the loop for never starts.
* **A wall clock that jumps** between any two system calls: observers must hear
  of it, and before the timers that the jump made due; a timerfd armed for the
  clock as it was must not be trusted.
* **All or nothing**: a list of states given to `ctx:set` may turn out to be bad
  at its last element, when the new items are half built beside the old.
* **A stream cut anywhere**: the framer of clicks meets brackets in strings,
  escaped quotes, and events over its limits, and must find its way back.

`PROJECT.json` lists the components with their status and every hazard at the
line where it bites, with the properties that cover it.

## 2. The modules

| module | models | lines of code |
|---|---|---|
| `StatusStream` | abstract: what the bar is promised | – |
| `Output` | the output path and the turn of the loop around it | output.c, render_limiter.c, main.c:2686-2830, 3330-3440 |
| `OutputProofs` | theorems about `Output` | – |
| `TimerQueue` | abstract: a stable priority queue | – |
| `TimerHeap` | the array heap | timer.c |
| `Timers` | Lua timers, dispatch, faults, generations | main.c, realtime.c |
| `TimersProofs` | theorems about `Timers` | – |
| `Realtime` | the timerfd, clock jumps, observers, realtime timers within a turn | realtime.c, main.c:1354-1428, 3333-3411 |
| `RealtimeProofs` | a theorem about `Realtime` | – |
| `Reload` | the configuration file and its reloads | main.c |
| `ReloadProofs` | theorems about `Reload` | – |
| `Spawn` | child processes | spawn.c, main.c |
| `SpawnProofs` | theorems about `Spawn` | – |
| `DirectoryFeed` | directory blocks, watches, inotify, a block's items | directory_feed.c, main.c |
| `Items` | `ctx:set`, instances, clicks on items | main.c, id_set.c |
| `Subscriptions` | what the four sources share: subscribers, notification walks, cancellation, commit | main.c, systemd.c |
| `SystemdFailed` | failed units of two managers | systemd.c |
| `PowerProfiles` | two properties of one service, and setting one | power_profiles.c |
| `PipeWire` | the default sink's volume | pipewire.c |
| `PowerSupply` | uevents of power supplies | power_supply_events.c |
| `Dbus` | calls, matches and connect watches of Lua on one bus | dbus.c, main.c |
| `DbusProofs` | theorems about `Dbus` | – |
| `Clicks` | the framer of click events, beside a bar that writes them | click.c |
| `ClicksProofs` | theorems about `Clicks` | – |
| `Sources` | the four sources, directory feeds, items and clicks, composed | – |
| `SourcesProofs` | theorems about `Sources` | – |
| `MC*` | instances for TLC; `MCClocks` holds several | – |

Conventions. An action is a whole handler; where the environment or a callback
can act between two system calls or two callbacks of a handler, the handler is
split there and `pc` (or the `walk` of a notification) says where it is, and
nothing else of the program runs meanwhile. Names are those of the code. A
definition under a comment "Faulty variant" is a plausible mistake in the
definition that follows; no specification uses it. It is there to show that
the properties notice: TLC finds the property violated when the definition is
replaced by it. Constants that bound a counter say so where they are declared.

`TimerHeap` and `TimerQueue` are below `Timers`, which uses the heaps as
ordered sets (`older` is what the sequence numbers record). `Output` leaves open
which source changes the status (`SourceEvent`); the other modules are those
sources, so their "mark dirty" is not modelled again. `Sources` and `MCClocks`
hold components side by side that share nothing but the loop (and the
generation, for the sources): one of them is chosen in the initial state, so
that a run covers them all without multiplying their states.

### Output

`pc` is the place in the turn: `wait`, `events`, `render`, `flush`. A frame is an
opaque value with a length. The bar is the position of its JSON reader in the
bytes written so far; the pipe only counts the bytes not drained. `debt` is the
limiter's debt in ticks. `recent[a]` is a history: frames rendered in the last
`a` ticks. `Close` is the bar going away (EPIPE).

The loop reads `now_ns` once, after the events (main.c:3401, `EventsDone`), then
runs the sources' deadlines, the timers and a reload, and then asks and charges
the limiter with that reading (main.c:3429, 3434). So at `render` sources still
change the status and ticks count as `late`, the age of the reading, while
`debt` stays as of the reading; a render adds its charge to that, and what has
lapsed since comes off (`Lapsed`). Elsewhere a tick lowers `debt` itself. `late`
stops at `MaxLate`, after which no debt is left.

### TimerHeap, Timers

`TimerHeap` has the array, `heap_index` in each timer, sifting, cancellation in
place, and rescheduling with the overflow test near the largest time. `Timers`
has addresses: a timer, handle or generation that was freed may be allocated
again, and a pointer that was not cleared then reaches the new one. Deadlines
are relative to now; `elapsed` is how far the clock is behind them. A callback
is a state (`run`, `lua`, `on`) in which `ctx:after`, `ctx:every`,
`ctx:at_realtime`, `cancel`, collection of any handle and an error are all
possible. Left out: the empty generation main falls back to when the first
configuration is bad; the wall clock's own jumps (a realtime deadline is due or
not; `Realtime` has them); out of memory, but where the code's answer to it is modelled. Ties among
timers armed by one commit are left open.

### Realtime

The kernel's timerfd is modelled with its cancel-on-set flag: `moved` is a jump
it has not reported, which a read or the next `settime` reports with ECANCELED,
and it arms the timer in both cases (`Reported`, `SetTime`). `wall` ticks
and jumps between any two steps of a turn; `pc` is the place in the turn, with
the processing of realtime.c both as an event and late in the turn. `unheard`,
`owed` and `early` are histories: who is to hear of a jump, who is to hear
before anything is dispatched, and which timers the jump made due.

### Reload

The file is two halves, each written by some edit, so that a read may be torn; a
write may leave the size and times as they were, as a coarse clock does.
Staging is: read, compare, execute, validate by reading again. An unusable file
is like an absent one; command-line overrides are left out; the configuration's
directory stays.

### Spawn

A child leads a process group with, at most, one descendant that holds the same
pipe. Ids are free again when the kernel may reuse them. SIGTERM is ignored by
children, SIGKILL is immediate, a setup that fails without a trace is no step.
The environment acts where the program can notice it: at the wait, between
events, between reaps. One callback runs per phase of a turn.

### DirectoryFeed

`files` and `exists` are the directory, `kernel` the descriptors it watches,
`queue` its events (equal neighbours merged, an overflow event when full),
`watches` the shared table with its counts. The steps of activation are
separate system calls (`mkdir`, `open`, `watch`, `check`, then the scan with its
list and one read per file); producers act between any two. All feeds and the
configuration use the same path, so every watch is shared as much as possible.
A directory that was moved away does not return; every regular file can be read
and rendered; a listing is atomic. After a commit the watches of the old
generation are given back one feed at a time (`Destroy`), as nothing else runs
between them. A directory the kernel has not seen gets a descriptor that nobody
remembers; there always is one (`DirectoryFeedConstants`), as inotify's
descriptors are not handed out again.

### Items

`ctx:set` is one step per state given (`set` are the locals of
`lua_context_set`), so that a bad state comes up with any number of new items
built. An item's memory is a cell, kept if its state and wire instance are what
they were; cells are freed and used again, a new item getting a free one. `given` and `shown` are histories:
what the caller gave, and whether the last frame has it. A click is looked up
by instance, as the bar sends it back. In `DirectoryFeed` a block's items are
names with the contents of their files, put in and taken out by the feed.

### Clicks

A step is one byte, written by the bar and fed to the framer; what is kept of an
event is its length. The bar's writer (`bar`) follows JSON's rules with a stack
of open brackets, which the framer does not have: it counts. Once the writer
leaves the rules between two events everything after it is `garbled`. Bytes are
named rather than quoted (`lbrace`, `quote`), and `x` is any other byte. Running
out of memory for an event is left out.

### Dbus

An operation is a member of `linked`, with flags as in dbus.c; `slot` is what
sd-bus holds a callback for, `stamped` what has been started on this connection.
The turn is split at every operation a walk visits (`walk`), because each visit
may run a callback, in which `lua` is the running block: it may create and cancel
any operation, return, or fail. `met`
and `heard` are histories. Operations may be created through another block's
bus object. The two buses share the lists and nothing else, so there is one
here. Values, their encoding and signatures are left out. What wakes the loop is
part of the model (`Due`): descriptors, timeouts of sent calls, the retry
deadline.

### Subscriptions, SystemdFailed, PowerProfiles, PipeWire, PowerSupply

A D-Bus connection is two queues: requests the service has not seen and messages
the program has not handled, in order, because the bus keeps the order of one
sender's messages. `Disconnect` cuts the incoming queue anywhere; sd-bus then
answers each open call with an error and reports the end. The registration of
the descriptor with epoll is part of "the connection works or fails"
(`RegisterFails`). The five seconds before a reopening are a flag that the clock
clears (`RetryDue`). PipeWire's requests are taken to reach the server at once,
its events are queued. `told` is the last snapshot each callback was given; a
notification is a `walk` during which a callback may cancel anyone (PipeWire:
itself) or fault its block. `Commit` replaces the subscribers; the live refresh
may have faulted some. PowerSupply's socket is a queue of datagrams; what does
not fit is lost and reported ahead of the rest (ENOBUFS), and the read loop has
a budget.

Subscriptions are registered in `init` only, as the shipped modules do. A failed
`pw_registry_bind` and the limit of sinks being exceeded are not in the checked
instance: a sink beyond the limit is never bound, also when room returns, until
a reconnect.

## 3. The runs

| run | question | states | time |
|---|---|---|---|
| `output` | stream well formed, nothing lost, watched iff pending, rate, `StatusStream`, eventually shown | 278,221 | 40 s |
| `clocks` | overflow, `TimerQueue`; a due timer is popped; observers first, realtime timers fire, jumps are heard | 180,072 | 170 s |
| `timers` | owners, heaps, arming, phase, bursts | 1,543,151 | 60 s |
| `timer_limit` | the documented limit | violated | 1 s |
| `reload` | torn and stale reads, staging, the last edit wins | 1,697,295 | 55 s |
| `spawn` | pids, slots, one answer | 4,318,547 | 72 s |
| `spawn_live` | honest success, every call is answered | 841,324 | 85 s |
| `spawn_timeout` | the documented group kill | violated | 1 s |
| `first_files` | the documented first files | violated | 1 s |
| `sources` | settled means current, everybody was told, watches counted, `ctx:set` atomic, clicks framed | 3,565,415 | 200 s |
| `dbus` | slots live, no call forgotten or retained, one answer; calls settle, operations start | 304,911 | 100 s |
| `dbus_wakeup` | an operation starts though nothing else wakes the loop | violated | 4 s |

Distinct states are after symmetry reduction; the times are of two workers.

Bounds, and why they are enough to meet the hard cases:

* `output`: frames of two and three bytes and one over the size limit, a
  prelude of two, a pipe of three, a flush budget of two. So the prelude, the
  separator and each frame are cut in the middle by the pipe and by the budget,
  a frame waits while two newer ones come, and a frame is refused. The limiter
  has two frames per two ticks and is looked at over three. The proofs lift all
  of these bounds.
* `clocks`: the heap has six timers with two deadlines, the smallest heap in
  which the timer moved into a cancelled slot may have to go *up*, and seven
  additions, which a timer left too low needs to be overtaken. Idle timers are
  alike; the action constraint adds the first of them. Two Lua timers, one of
  them polling, share a budget of one. Two realtime timers and an observer, of
  two blocks, see three times, one jump and one failing system call; safety was
  also checked with two jumps.
* `timers`: three timers, two handles, two blocks, two generations, a limit of
  two and a budget of one: memory is reused while a stale handle exists, the
  budget ends a dispatch with timers still due, and a reload meets all of it. A
  loop may be two ticks late, one interval.
* `reload`: two inodes and two edits on top of the first file: a read torn
  between two edits and a third version to validate against.
* `spawn`: two slots, two pids, two calls: a slot and a pid are used again while
  an event and a process of the former use are around. `spawn_live` has one
  slot, and a first call that may write two chunks against a limit of one, for
  overflow.
* `sources`: two blocks with one subscription each, one about the system manager
  and one about both; two profiles; two sinks, names and volumes; a socket of
  two datagrams read two at a time; two changes of the service and one trouble
  (error, lost connection, failed opening). Reloads, cancellations and faults
  are not bounded. Two changes are what an answer, a signal and a change between
  them need; ids and names are used again. The directory has two names for one
  item (one file does not fit and one evicts it), two contents, a table of two
  watches, a queue of two events, three changes by producers, two generations;
  descriptors are never used up. `ctx:set` has lists of two states with two
  ids, one value and a hidden state, and twice the cells a list needs. The bar
  writes events of up to twelve bytes and more, nested five deep, against a
  limit of three: too long, too deep, and both.
* `dbus`: two calls of different blocks, a match with an install callback and a
  watch; three operations at a time and one trouble. So memory is used again, a
  callback meets the limit, and a connection is lost and comes back.
  `dbus_wakeup` has no troubles and one operation less.

Deadlock is checked in every run. Symmetry is used only in runs without liveness
properties, over constants no definition orders.

Fairness. `Output`: the loop's turn is never left waiting for something ready
(weak fairness of `Turn`), time passes (`Tick`), and the bar reads (`Drain`);
nothing of the sources. `Timers`: Lua code returns and a turn handles at most
`I3SD_EPOLL_EVENTS` events before its dispatch, so the dispatch is reached again
and again (strong fairness of `BeginDispatch`, whose enabledness events
interrupt). `Spawn`: the loop goes round; each deadline passes (strong, since
the slot may be replaced). `Reload`: i3sd goes on and an editor that began a
write ends it. `Realtime`: the loop goes round and the clock ticks; what wakes
the loop is its timerfd or a jump already known (`WakeNeeded`), and what woke it
is handled in some turn (strong, as EPOLL may have other events first). `Dbus`:
callbacks return, the loop goes round, a call that was sent is answered or times
out (sd-bus does both), the retry deadline passes, and what is due wakes the
loop; `dbus` adds that something else wakes it now and then, as any clock block
does (`PolledSpec`), `dbus_wakeup` does not. `sources` has safety properties
only.

### What the runs found

* `timer_limit`: PLAN.rst:676 allows 4096 timers per generation, but polling
  timers are linked without a look at the limit, and the equality tested at
  creation never holds again once it is exceeded.
* `spawn_timeout`: PLAN.rst:439 has a timeout kill the process group; when the
  child itself has exited, a descendant that holds the pipe is left alone.
* `first_files`: README.rst:168 has the lexically first files shown; a file that
  disappears between a scan's listing and its read leaves its place empty.
* `dbus_wakeup`: a match that the callback of a connect watch creates, at the top
  of a turn, is started in the next turn; nothing makes the loop have one.

Not counted as findings: PLAN.rst:1871 allows bursts of eight frames. A frame
rendered a refill or more after `now_ns` was read (a callback of 50 ms, or a
reload) is charged as of the reading, so its credit is back at once, and
eight more may follow: nine at one time. `RateBound` states the bound that
holds, one frame more than a burst however often the loop is late; with a
burst as its bound, TLC finds the extra frame in the same instance. Further, an
edit between the first staging and the watch main
acquires after it is not noticed (main.c:3281; PLAN.rst:2016 asks for the watch
first only "where possible"; `LastEditLoaded` leaves this case out by `missed`).
In `PipeWire` a volume can be told without a default sink: the node stays bound
when the metadata goes away (pipewire.c:390), and the state stays valid when the
last subscription closes the connection (pipewire.c:608), so that a later
subscriber is told the old volume. `SinkFollowed` speaks of the states with a
default sink. A D-Bus value that turns invalid (an error, a lost connection) is
announced to nobody; the blocks keep what they were told. The code promises
nothing else, so `CountsCurrent`, `ProfilesCurrent` speak of connections whose
last answer was no error.

In `PowerSupply`, PLAN.rst:1310 has a loss on the uevent socket be a reason to
enumerate again; on ENOBUFS the code closes the socket and tells nobody, not even
of the datagrams it had read, and the reopened socket tells nobody either;
`HintsTold` leaves out both the lost datagrams and those already read, so
`SubscribersTold` says nothing about an overflow. In `Realtime`, a jump between the read of
the timerfd and the clock sample of `dispatch_due` runs the timers it made due
before the observers hear (PLAN.rst:808-812); `ObserversFirst` leaves it out by
`owed`. A `timerfd_create` that fails is tried again "next turn", which nothing
brings about; `WallDueFires` assumes no trouble, and that callbacks do not keep
adding timers with earlier deadlines (`Overtaken`). In `Dbus`, a failure to
register the bus's descriptor is a second lost wakeup (no retry deadline is
set); matches and watches that were cancelled count toward the limit of
operations until the generation ends, though PLAN.rst:679 limits pending ones
and calls are reaped; a call created through a faulted block's bus object is
sent, and its answer, which must not call back, never completes it. A match
callback that fails returns `-ECANCELED` to sd-bus (dbus.c:1364), which then
leaves out the other matches of that signal; no property is about who hears a
signal.

## 4. What is proved

`OutputProofs` proves, for every set of frames with positive lengths, every
prelude, pipe, flush budget, refill time, burst and window (the assumption
`OutputAssumption` and nothing else):

| theorem | property |
|---|---|
| `Invariance` | the inductive invariant `IInv` |
| `TypeCorrect` | `TypeOK` |
| `StreamIsWellFormed` | `StreamWellFormed` |
| `NoUpdateIsLost` | `NoLostUpdate` |
| `WatchedWhilePending` | `WatchedIffPending` |
| `RateIsBounded` | `RateBound` |
| `OutputImplementsStream` | `StreamSpec`, the safety refinement of `StatusStream` |

None of the properties but `NoLostUpdate` is inductive. The well-formed stream
needs to know *where* the bar's reader is: `BarInv` ties it to the writer's
bookkeeping (`prelude_offset`, `first_frame`, `prefix_written`, `offset`), and
`BufferInv` says what that bookkeeping can be. `WatchInv` follows the
registration through the turn: exact until the render, at least right until the
flush. `DebtInv` explains the rate: seen from the reading of the clock, the
debt covers all frames of an interval but one, `recent[a] * Refill <= debt +
Refill + (a - late)`; nothing was rendered since the reading (`recent[a] = 0`
for `a < late`); and the debt never exceeds the burst. The second part is why
late frames do not add up: when a frame is rendered, every interval that holds
an earlier one reaches back beyond the reading, to where the debt still counts
in full. The products are nonlinear and have lemmas of their own
(`CreditArithmetic`, `TickArithmetic`; `LapsedBounds` for what has lapsed). The
step proof has one lemma per part of the turn (`FlushFrameInv`,
`FlushOutputInv`, `FlushStepInv`, `RenderInv`, `RecordNothingInv`, `TickInv`,
`NextInv`). The refinement maps
`captured` to the frame in the buffer and `shown` to what the bar has read.

`ClicksProofs` proves `ClicksAreFramed`, that is `Clicks!ClicksFramed` of the run
`sources`, for every limit on length (of two at least) and depth and however
deep the bar nests; the assumptions are `ClicksConstants`. The property alone
is far from inductive: it compares an event that ends with one the bar ends. The
invariant `Follows` relates all that the framer keeps to what the bar's writer
has open: outside events the framer is clean (`BetweenEvents`), within one its
depth is the number of open brackets, it is in a string or after a backslash
exactly when the writer is, its count is the writer's until it discards, and it
discards exactly when the event is over a limit (`WithinEvent`). There is one
lemma per kind of byte.

`TimersProofs` proves every safety property of `Timers`, for any finite set of
timers, any handles, blocks and generations, and any limit, budget, delays and
intervals (`TimersAssumption`):

| theorem | property |
|---|---|
| `TimersInductive` | the inductive invariant `IInv` |
| `HeapsStayLive`, `OwnersStayAgreed`, `TimersStayArmed` | `HeapsLive`, `OwnersAgree`, `ArmedUntilDone` |
| `TimersTyped` | `TypeOK` |
| `PhaseStaysKept` | `PhaseKept` |
| `NeverBursts` | `NoBurst` |

`HeapsLive`, `OwnersAgree` and `ArmedUntilDone` need each other: a handle's
pointer is good because what it points to is on the list and points back, the
heaps are good because whoever frees a timer takes it out, and a new timer's
handle is known to be free because an owned pointer has an owner. What they lack
together is about the loop: `Roles` (one staged, one current and one old
generation at most, and Lua runs in the staged one only while it is staged),
`Running` (the callback on the stack is the timer's own block's, and none is
there while a generation is staged, refreshed or destroyed) and `OnList` (every
timer's generation exists). The argument has two lemmas that do most of the
work: a step that cancels, frees and detaches (`ShrinkKeepsMemory`, used by
cancel, collect, faults, return and `generation_destroy`) and a step that adds a
timer (`GrowKeepsMemory`, used by the three constructors and the polling
timers); each action then shows which of the two it is. Pops, re-arming and
`Commit` are proved directly. The phase is kept because a reschedule adds a
multiple of the interval (`ModPlus`), and a timer outside the heap has none
(`Phased`), so a created timer starts at its delay.

`RealtimeProofs` proves `ObserversHearFirst`, that is `Realtime!ObserversFirst`,
for any observers, timers, clock and budget (no assumption is needed). What is
owed to an observer must be *somewhere* at every place of the turn, which is what
the invariant says: before the processing, the jump is still in the kernel or
noted in `clock_changed` (`JumpKept`); while observers are notified, all who are
owed are still on the walk (`OnTheWalk`); when timers run, nothing is owed
(`NothingOwed`).

`ReloadProofs` proves, for any inodes, edits and blocks (`ReloadAssumption`):

| theorem | property |
|---|---|
| `ReloadInductive` | the inductive invariant `Core` |
| `StagedStaysHidden` | `StagedNeverShown` |
| `CommitsAreFresh` | `FreshCommit`, an action property |

The argument for `FreshCommit` is about two reads that may each be torn. An
editor writes the first half first, so a file's first half is never older than
its second (`Written`), and a read never runs ahead of the file (`Behind`). Of
what the validation read finds, only halves of which the second is *newer* could
have been in the file at no moment since it began (`Validated`); but the second
half of the candidate is not newer than the first half that the validation reads
from the same inode, so such a read cannot equal the candidate and is not
committed (`Fresh`).

`SpawnProofs` proves every safety property of `Spawn`, for any slots, calls,
process ids, blocks, sizes of output and limit (`SpawnAssumption`):

| theorem | property |
|---|---|
| `SpawnInductive` | the inductive invariant `Core` |
| `PidsStayOwned` | `PidsOwned` |
| `PendingCallsHaveSlots` | `PendingHasSlot` |
| `SuccessIsHonest` | `HonestSuccess` |
| `CallsAnsweredOnce` | `AnsweredOnce`, an action property |

A slot is found by process id when a child is reaped, and process ids come back:
so the invariant goes through the serial numbers, which do not. Serials are
handed out upwards and belong to one process (`Numbered`), a slot that saw its
child end keeps that child's status (`Tracked`), and what was kept plus what is
in the pipe is what was written, as long as nothing was thrown away (`Counted`);
that is what makes success honest. `Called` says that callbacks run for healthy
blocks only, which a slot's settling needs.

`DbusProofs` proves every safety property of `Dbus`, for any calls, matches,
watches, blocks and limit of operations (`DbusConstants`):

| theorem | property |
|---|---|
| `DbusInductive` | the inductive invariant `Core` and the limit |
| `DbusTyped` | `TypeOK`, the limit on operations included |
| `SlotsStayLive` | `SlotsLive` |
| `CallsRemembered` | `NoCallForgotten` |
| `CallsReaped` | `NothingRetained` |
| `CallsAnsweredProperly` | `AnsweredProperly`, an action property |

`SlotsLive` and `NoCallForgotten` pull in opposite directions: whoever unlinks an
operation must drop its slot, and whoever drops a slot must settle its call.
`Places` says where callbacks may run and what the walks may hold, above all that
the walk of a lost connection holds every slot there is, so none outlives the
bus; and that no settled call is linked once the lists have been reaped.

`SourcesProofs` proves about `Sources`, the composition that the run `sources`
checks (`SourcesAssumption`, the conjunction of the parts' assumptions):

| theorem | property |
|---|---|
| `SetStaysAtomic` | `SetAtomic` |
| `WatchesStayShared` | `WatchesShared` |
| `SubscribersStayTold` | `SubscribersTold` |
| `ClicksStayFramed` | `ClicksFramed`, by `ClicksProofs` |

`SetAtomic` speaks of finished calls, so its invariant (`ItemsInv`) follows a call
through its states: each state given so far is answered by an old item with that
id and state or by a new one in its own cell (`Answered`, `Separate`), ids were
given once although the index of ids is only built when the lists first differ
(`GivenOnce`), and a list that still counts as unchanged has every item in its
old place (`ChangeNoticed`). That a free cell exists is counted: the items and
those being made never exceed twice the limit, which is what `ItemsConstants`
asks of the cells.

`WatchesShared` needs `FeedInv`: the table counts its holders exactly, the kernel
watches nothing that is not in it, and an event that says a watch is gone is only
queued when it is (`Balanced`); at each place of the loop it is known which feeds
may hold watches (`FeedPlaces`); and a feed whose watch is not in the table is
about to be told of it by the event in hand (`Tracked`), during which the
descriptor does not come back (`GoneForNow`). Counts are cardinalities of sets of
feeds, so each step shows which holder comes or goes (`HolderMoves`). A scan
reads the lexically first file it has listed; that there is a first one is
`LeastNatural`, by the well-foundedness of the naturals.

`SubscribersTold` speaks of the moments at which nobody is to be visited any
more; its invariants (`SystemdInv`, `ProfilesInv`, `SinkInv`, `SupplyInv`) speak
of the whole walk. systemd and power profiles: whoever is off the walk was told
what holds, so an answer either is no news or puts everyone on the walk
(`NoNews`, `SamePair`). PipeWire skips by revision instead: everybody has seen
the revision or is on the walk, whoever has seen it was told what holds
(`VolumesTold`), and what changes the volume is a revision nobody has seen
(`Published`, shown once for every event and every way of closing). Power
supplies have no value to compare: whoever is owed a call is announced, by a
datagram in the socket or by the burst just read (`HintsOwed`), and no burst is
read while a notification is under way (`OneByOne`).

Each of these invariants was checked with TLC on the run's instance.

Only model-checked. All liveness (`StatusShown`, `DueFires`, `WallDueFires`,
`JumpsHeard`, `LastEditLoaded`, `Answered`, `CallsSettle`, `OperationsStart`) and
whatever rests on ENABLED: the prover has no rules for fairness. The refinement
of `TimerQueue` by `TimerHeap` and the types in `MCClocks`, because sifting is
recursive. The types in `Sources`, which count what is in flight with
`SelectSeq`, recursive in its own definition, and `SourcesCurrent`, for which one
must follow what is in flight between a source and its service.


## 5. Not modelled

Collectors and the NVML reader (reads of files and a library, no state worth a
property), the shipped Lua modules (formatting; read for how they use the core),
buffer.c and utf8.c (pure helpers with unit tests), parsing of settings and
options, the fields of a click's JSON object, the values and signatures of D-Bus
messages, vendored code and build files: input, output and conversions without
order or timing. The comparison of the boot and the monotonic clock
(`detect_suspend`) and SIGTERM are left out. The loop's turn is in every module
as far as its component sees it; no module composes all sources in one turn.

## 6. Plan

Done: output (everything passes through it), timers, reload, children, directory
feeds, the four sources, the realtime clock, D-Bus operations, items, clicks.
Next:

1. Proofs: what is in flight between the sources and their services
   (`SourcesCurrent`), and the types of `Sources`.
2. Abstract specifications and refinements: a set of calls that are each
   answered at most once, for `Dbus`; a map from identifiers to items in order,
   for `Items`.
3. `detect_suspend` with the timers it wakes, and SIGTERM with the children and
   the last frame.
