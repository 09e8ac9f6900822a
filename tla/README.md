# lua-epoll in TLA+

Specifications of [lua-epoll](../src/README.md), a Lua binding of epoll(7), with
TLC configurations that model-check them on small instances and TLAPS proofs of
their safety properties, from the registration tables and descriptors to the
delivery of events, for instances of every size.

Paths such as `common.c:239` are below `src/src/`.

## The system

lua-epoll is a C library that runs inside one Lua state. It has no threads; what
makes it hard is that a registration is kept in four places that no single step
updates together, that every system call in between can fail, and that reports
from the kernel are handed out long after they were made.

| part | source | state | operations |
|---|---|---|---|
| epoll instance (`poll_t`) | `epoll.c`, `lua_epoll.h:82` | epoll descriptor, `evset` (descriptor to event), five flag tables (one per kind, identifier to true), counter `nreg`, event list `evlist`/`evsize`, read position `cur`/`nevt` | `epoll.new`, `ep:renew`, `ep:new_event`, `ep:wait`, `ep:consume`, `#ep`, `__gc` |
| event (`poll_event_t`) | `common.c`, `lua_epoll.h:98` | instance, `enabled`, `ident`, `filter`, registered and occurred `epoll_event`, references to user data and to the instance | `renew`, `revert`, `watch`, `unwatch`, `as_level`, `as_edge`, `as_oneshot`, `udata`, getters, `__gc` |
| untyped event | `event.c` | the metatable `epoll.event` | `as_read`, `as_write`, `as_signal`, `as_timer`, `as_trigger` |
| read, write | `read.c`, `write.c` | a duplicate descriptor when the other direction is registered | the method table |
| signal, timer | `signal.c`, `timer.c` | a signalfd, a timerfd | the method table |
| trigger | `trigger.c` | an eventfd, in counter or semaphore mode | the method table and `trigger` |
| stub | `src/nosup/epoll.c` | none | `new` answers an error |

The parts call each other directly. The `as_` functions fill an event and call
`poll_watch_event`, which enters it in the evset, the counter and the flag table
of its instance and then calls `epoll_ctl(ADD)`. `poll_unwatch_event` goes the
other way. `wait` first drains what `consume` has left (`cleanup_unconsumed_events`),
then lets `epoll_wait` fill the event list; `consume` takes one slot, looks the
event up by the descriptor number in it, unregisters it when it is one-shot or
hung up, and otherwise reads the signalfd, timerfd or eventfd empty. The
metatable of an event decides which methods it has.

What is hard, and what makes each part correct:

* **Registration.** evset, flags, counter, `enabled` and the kernel's interest
  list must say the same after every call, including those that fail half way
  (`common.c:239`), that report an error although they went through
  (`common.c:281`), and that move an event between instances (`common.c:63`).
* **Descriptors.** The library duplicates, creates and closes descriptors. It
  must close each one once, and never one of somebody else, although numbers are
  reused at once.
* **Metatable, filter, mode.** The metatable is changed last, the fields first;
  a failed call leaves some of them set.
* **Delivery.** A slot of the event list is a number. Between `wait` and
  `consume` the application can unwatch, revert, move or collect the event and
  register the number again.
  What `wait` throws away must not silence an edge-triggered event.
* **Blocking.** `consume`, `wait` and `renew` read from descriptors that block.
* **Seconds.** Timeouts and intervals are Lua numbers and become an `int` of
  milliseconds and a `timespec`.
* **Fork.** A child has a copy of every event and refers to the parent's epoll
  object until it calls `ep:renew`.

`PROJECT.json` lists the hazards one by one, each at its line.

## Modules

| module | models |
|---|---|
| `EpollKernel` | descriptor table, interest lists, `epoll_ctl`, `close`. Not code of the repository |
| `PollEvent` | the registration half: every call that changes an event or a table, one action each |
| `WatchTable` | the abstract table of watched pairs that `PollEvent` implements (`TableSpec`) |
| `Seconds` | operators: seconds to milliseconds (`wait`) and to an interval (`as_timer`) |
| `PollLoop` | extends `PollEvent` and `Seconds`: `wait`, `consume`, `ep:renew`, `trigger`, the ready list and the counters behind the library's descriptors |
| `Notifier` | extends `WatchTable`: what `wait` and `consume` promise, which `PollLoop` implements (`PromiseSpec`) |
| `PollFork` | two processes that share an epoll object after `fork` |
| `PollEventProofs` | theorems about `PollEvent` without any discipline |
| `DisciplineProofs`, `TypingProofs` | extend it: pairs, descriptors and the kernel under the discipline; user data and modes |
| `TableProofs` | extends `DisciplineProofs`: `PollEvent` implements `WatchTable` |
| `SecondsProofs`, `PollForkProofs` | theorems about `Seconds` and `PollFork` |
| `LoopProofs` | extends `PollLoop`, `DisciplineProofs` and `SecondsProofs`: the tables of the loop fit together |
| `DeliveryProofs` | extends `LoopProofs` and `TableProofs`: what `wait` and `consume` deliver; `PollLoop` implements `Notifier` |
| `MCPollEvent`, `MCPollLoop`, `MCPollFork` | event symmetry and timeouts, for TLC |

### EpollKernel

`file` maps a descriptor number to what it refers to, `interest` maps an epoll
instance to its entries. An entry is the pair (number, open file) with its flags,
as in the kernel: closing a number does not remove an entry while a duplicate
keeps the file open, and `epoll_ctl(DEL)` of a number that has become another
file finds nothing. `owner` is a history variable, who opened each number. New
descriptors get the lowest free number. `CtlAddMayFail` lets `epoll_ctl(ADD)`
fail for want of memory, besides the failures that follow from the state.

### PollEvent

| code | model |
|---|---|
| `poll_event_t` | `ev[e]`: `mt` is the metatable, `fd` is `reg_evt.data.fd`, `events` is `reg_evt.events`, `udata` is `ref_udata` |
| `poll_t` | `poll[p]`: `flag` is the union of the five flag tables, as (kind, identifier) pairs |
| `poll_watch_event`, `evset_add`, `poll_evset_del` | `PollWatch`, `EvsetAdd`, `EvsetDel`, `RolledBack` |
| `poll_unwatch_event` | `Disabled`, `UnwatchedPoll`, `UnwatchedIntr` |
| `as_read` ... `as_trigger` | `AsRead` ... `AsTrigger` |
| the other methods | `Watch`, `Unwatch`, `RenewEvent`, `Revert`, `Gc`, `SetMode`, `SetUdata`, `NewEvent`, `NewPoll`, `RenewPoll`, `GcPoll` |
| the return values | `outcome`: `ok`, `false`, `error` (nil or false with errno) or `throw` (a Lua error) |

A call runs to its end before the application continues, so it is one action.
`lost` is a history variable: the enabled events whose kernel entry the
application itself has taken away with `ep:renew` or `close`.

Four constants state what the application and the system may do. `ClosesUsed`:
it closes descriptors that events still name. `Rewatches`: it watches or renews
an event whose pair or descriptor another watched event has taken meanwhile.
`Borrows`: it passes `as_read` and `as_write` numbers that the library has opened,
such as `trigger:ident()`. `CtlAddMayFail`: see above. The tables must be right with
all four `TRUE`; the pairs are unique only without `Rewatches`, what concerns
descriptors and the kernel holds only without the other three, and `NoThrow` only
without any of them.

The getters `is_level`, `is_edge` and `is_oneshot` are the operators of those
names.

Abstractions: descriptor numbers are `0 .. MaxFd`, the descriptors of the epoll
instances are not among them; arguments that are rejected before anything
happens (a signal number out of range, a negative interval, a value of the wrong
type) are not enumerated; an event in an evset is reachable through the
reference chain registry, evset, event, instance, and is never collected;
exhausted memory of Lua is not modelled.

### WatchTable

What README.md says of `watch`, `unwatch`, `renew` and `#ep`, without descriptors,
tables or system calls: each event has a pair (type, identifier) and an instance,
and is watched there or not; no two watched events of an instance have the same
pair; an event keeps its pair until it is reverted or collected and takes it along
to another instance; the size is the number of watched events. `PollEvent`
instantiates it with `pair` from metatable, filter and identifier, `home` from
`p`, `on` from `enabled` and `size` from `nreg`; a call that fails is a stutter,
except that a failed `renew` leaves the event in its new home, unwatched.

### Notifier

What README.md says of `consume` and `wait`, on top of `WatchTable` and without
batches, ready lists or descriptors: something occurs for a watched event, which is
then `due`; `consume` returns nil or an event that is watched and due, and says
truly whether it has unregistered it; `wait` and `renew` may discard what is due,
and unregister the event by it; no other call loses any. `PollLoop` instantiates it
with `due` from the counters: a watched timer or trigger is due while there is
something to read. Of the other kinds, which the abstract specification cannot
follow without the kernel's part, it takes every watched event to be due. What
`PromiseSpec` says is therefore: a slot, which is but an old number, is delivered
only to an event with something to read; draining or unregistering it, in
`consume` or a cleanup, touches no other event; and outside of these calls
nothing is drained.

### Seconds

A number of seconds is `t / Tick`; `Milli`, `Nano` and `IntMax` stand for 1000,
1000000000 and `INT_MAX`, so that TLC can use small ones. `Msec` is the
conversion of `epoll.c:154`, with its saturation at `INT_MAX / 1000` whole
seconds; `Interval` is that of `timer.c:143`, and `Runs` says whether
`timerfd_settime` arms the timer. Numbers are exact; the rounding of
floating-point arithmetic, infinities and NaN are left out.

### PollLoop

| code | model |
|---|---|
| `evlist`, `cur`, `nevt`, `evsize` | `batch[p]`; the slots carry, as history, the event whose registration the report is about, or none once that has ended |
| `check_event_status` | `CheckEventStatus` with `Drain` and `Unregister` (which is `Unwatch` of `PollEvent`) |
| `consume_lua` | `CallConsume`, then `ConsumeNothing` or one `ConsumeSlot` per round of `RECONSUME` |
| `cleanup_unconsumed_events` | one `CleanupSlot` per round |
| `wait_lua` | `CallWait`, cleanup, `BeginWait`, `Report` or `ReportNothing` |
| `renew_lua` | `CallRenew`, cleanup, `FinishRenew` |
| `trigger_lua` | `Trigger` |
| `occ_evt` | `hungup`: the events whose occurred flags have a hang-up or error bit, which is what `is_eof` answers |
| `as_timer`'s interval, `as_trigger`'s semaphore argument | `setting[fd]`: a timerfd is armed or not, an eventfd is a semaphore or not; chosen when the descriptor is opened, among `Intervals` and `Semaphores` |

`call` says which call is running. These calls take several steps because they
can block: peers, timers and signals go on meanwhile, other calls do not. A
`read` of a signalfd or timerfd with nothing to read is not enabled; of an
eventfd, which is non-blocking, it is an error. Reading behind the batch yields
any slot, since that memory may hold anything. `ReportNothing` is a timeout or
an interrupted wait. `HUP` stands for `EPOLLHUP`, `EPOLLRDHUP` and `EPOLLERR`.

The kernel side: a wake-up puts the entries of a file on the ready list, a
report takes edge-triggered and one-shot entries off and disarms the latter, a
level-triggered entry stays while it is ready. Timer expirations count as 0 or
1, the eventfd up to `MaxCount`. `Timeouts` says which timeouts the application
asks for, in ticks; the call in progress carries the milliseconds that `Msec`
makes of it, and, as history, what was asked.

`LoopAssumption` fixes the discipline (no `CtlAddMayFail`, `ClosesUsed`,
`Rewatches` or `Borrows`): otherwise the descriptor of a signal, timer or
trigger event need not be its own, and what it reads is anybody's. It also
excludes several instances with `EPOLLEXCLUSIVE`, which lets the kernel choose
whom to wake. `ReusesInBatch` says whether the application registers a number
that a slot not yet consumed names.

### PollFork

| code | model |
|---|---|
| the evset of each copy of the instance | `enabled[q]`, for the processes `parent` and `child` |
| `p->fd` | `epoll[q]`, the kernel's epoll object; after `fork` both processes have the same |
| `poll_unwatch_event`, `poll_watch_event`, `ev:renew` | `UnwatchedIn`, `Watch`, `RenewEvent` |
| `check_event_status` in `consume` and in the cleanups | `Deliver`, one slot; an error ends `ep:renew` |
| `wait_lua` | deliveries, then `Wait` |
| `renew_lua` | `CallRenew`, deliveries, `FinishRenew` |
| `poll_event_gc_lua`, `gc_lua`, or the end of a process | `Exit` |

The descriptor numbers and the files behind them are the same in both processes,
and so an entry of an interest list is just the event. Timers and triggers share
their counter: a delivery in one process empties it for the other. One-shot
disarming and ready lists are left out: a `Wait` reports any part of the interest
list that may be ready, which is more than the kernel does. Signals are left out,
since pending signals belong to a process, and so are `revert` and the `as_`
functions. `RenewsFirst` and `ForksDrained` are the discipline: the child calls
nothing before its `ep:renew` has succeeded (README.md:56), and the parent forks
with no one-shot or hung-up slot in its batch. Neither can be dropped (TLC finds
`ArmedInBoth` violated in 3 and 5 steps): the second is a fault of
`ep:renew`, whose cleanup (`epoll.c:238`) unregisters what it finds from the epoll
object that is still the parent's.

## Runs

Passing:

| run | instance | shows |
|---|---|---|
| `registry` | `Spec`: 2 events, 2 instances, read/write/signal/trigger, 2 numbers, socket and regular file, no discipline but `~Borrows`; 1,163,403 states | `EvsetExact`, `NregExact`, `FlagBacked` |
| `modes` | `Spec`: 2 events, read/timer, 3 numbers, all modes, user data, `Borrows`; 968,148 | `WatchedIsTyped`, `ModesExclusive`, `UdataReleased`, `ModeKept` |
| `disciplined` | `Spec`: 2 events, 2 instances, read/write/signal, 3 numbers, socket and regular file, edge mode; 900,644 | `UniquePair`, `WatchedIsFlagged`, `NoThrow`, `NoLeak`, `NoForeignClose`, `Armed`, `NoForgotten`, `TableSpec` |
| `loop_files` | `LoopSpec`: 2 events, read/write on one socket, 2 numbers, waits with a timeout; 1,366,738 | `EvlistFits`, `DisabledTruthful`, `EofTruthful` |
| `loop_timers` | `LoopSpec`: 2 events, timer/trigger, edge and one-shot, counter and semaphore, counter up to 2; 770,024 | `DisabledTruthful`, `EofTruthful`, `ReadsInBatch`, `NoBlockedDrain`, `WakeupPending`, `PromiseSpec` |
| `loop_returns` | `FairLoopSpec`: 2 events, timer/signal, edge and one-shot, three timeouts, two intervals; 1,179,204 | `WaitReturns`, `TimersFire` |
| `forked` | `PollFork!Spec`: a timer, a one-shot trigger, a file; 5,500,996 | `ArmedInBoth`, `NoneOfTheOther` |

`registry`, `loop_files` and `forked` also check the type invariants `TypeOK`,
`LoopTypeOK` and `TypeOK`. `TableSpec` and `PromiseSpec` are the specifications of
`WatchTable` and `Notifier`, seen through the mappings above. `registry` has
`~Borrows` because its instance is too large with it; the theorems about its
invariants hold either way.

`WakeupPending` is what delivery rests on: a signal, timer or trigger that has
occurred is on the ready list or in a slot still to be delivered, whatever
`wait` has thrown away and however full the counter. `TimersFire` follows it to
the end: an application that waits again and again, and consumes what a wait
found before the next one, gets a running timer again and again, whether it is
level- or edge-triggered.

Violated, each a disagreement of the code with a document or comment of the
repository (quoted in `PROJECT.json`, findings):

| run | property | what happens |
|---|---|---|
| `rewatch_throws` | `NoThrow` | watching an event again whose number another one has taken raises "[BUG] invalid implementation" instead of returning false |
| `double_close` | `NoForeignClose` | a failed `as_signal` closes its descriptor and `__gc` closes the number again |
| `stale_delivery` | `FreshDelivery` | an event is consumed for a report about another that had its number before |
| `read_past_batch` | `ReadsInBatch` | after a failed cleanup `consume` reads the slot behind the batch |
| `wait_blocks` | `WaitReturns` | two instances, one signal: the second drain blocks |

`NoThrow`, `NoForeignClose`, `ReadsInBatch` and `WaitReturns` also hold in a passing
run, whose instance lacks what it takes to fail: events re-watched in a taken
place, `epoll_ctl` running out of memory, numbers registered again inside a batch,
a signal watched in two instances. `FreshDelivery` is not checked elsewhere: where
no number is registered again inside a batch it cannot fail. `DisabledTruthful`,
`EofTruthful` and `PromiseSpec` would fail in `stale_delivery` as well.

Six more deviations were met while modelling and have no run of their own:

* Two signal events of one instance can be watched for the same number when they
  are watched again (`common.c:229` tests `enabled`, not the flag table), so
  `UniquePair` needs the discipline as well.
* `as_read` that epoll refuses leaves `EPOLLIN` set (`read.c:146`), and a later
  `as_write` of the same event registers both directions.
* `as_trigger` assigns the flags (`trigger.c:49`) and so drops a mode set before
  it. `ModeKept` is about the other four kinds, of which `modes`
  has read and timer.
* `consume` answers `disabled = true` and `eof = true` for every failed drain
  (`epoll.c:111-112`), also for a trigger that stays watched and has not hung up:
  `is_enabled` is then true and `is_eof` false, and README.md:121 says that eof is
  true if the event flag is set to EPOLLHUP, EPOLLRDHUP or EPOLLERR. It takes a
  stale slot, as in `stale_delivery`, or an eventfd that a forked process has
  drained. `DisabledTruthful` and `EofTruthful` make no exception for it; they hold
  because `ReusesInBatch` is `FALSE` and there is no second process.
* A trigger that is a semaphore and edge-triggered fires once for several
  `trigger()` calls: the drain takes one count, and nothing reports the rest until
  the next call. README.md:445 promises "one independent wake-up" for each.
  `WakeupPending` excepts this combination.
* In a forked child `ep:renew` can unregister events of the parent, see
  `PollFork`.

### Bounds

Two events are enough for every conflict the code tests: it compares an event
with the slot or flag of at most one other. Two instances are enough for `renew`,
which knows an old and a new one. Two numbers hold an original and its duplicate,
or the descriptors of two events, or a file and the number it was moved to after
a close; `disciplined` has a third, so that an original, its duplicate and a
signalfd are open together and a failing call still finds a free number. Two
slots in a batch make "not the last" and "the last" different cases, and a
counter up to 2 distinguishes the two trigger modes. A wait without a timeout
differs from one with a timeout only in fairness, so `loop_files` has only the
latter. With `Tick` 4, `Milli` 2 and `IntMax` 7 the timeouts of `loop_returns` are
one for ever, one below a millisecond and one that an `int` of milliseconds cannot
hold; with `Nano` 2 its intervals are one that truncates to zero and one that does
not. `forked` has one event of each sort that `Deliver` distinguishes; three epoll
objects leave one unused by either process. The proofs remove the bounds from all
of it but liveness.

Events are symmetric. Epoll instances are not permuted, because `Absent` names
one; `loop_returns` and `wait_blocks`, which check liveness, use no symmetry.
`loop_files` tells states apart by the view `NoOutcome`, which leaves out the one
variable that no action reads and none of its invariants mentions.

### Fairness

`FairLoopSpec` assumes that a call that can go on goes on (weak fairness of
`Library(p)`: the C code runs to its end unless a system call blocks) and that a
wait with a timeout does not wait for ever when nothing is ready. Nothing is
assumed of the application, of peers, timers or signals: a call that blocks in
`read` may block for ever.

What `TimersFire` needs of the outside is in its premise: that a timer that can
expire does, that the application calls `wait` again and again, and that from some
point on it consumes what a wait found before it waits or renews.

## Proofs

Every safety invariant and action property that a passing run checks is also a
theorem, for every set of events, instances, files, signals and timers, every
`MaxFd` and every width. The assumptions are those the modules state of their
constants: that they are sets of the right kind and that the special values are
not among them (`KernelAssumption`, `EventAssumption`, `SecondsAssumption`,
`PollFork`'s own), and in `PollLoop` the discipline, see above. What a theorem
assumes beyond that is in its statement:

| module | assumes | theorems |
|---|---|---|
| `PollEventProofs` | nothing | `TypeCorrect`, `EvsetIsExact`, `NregIsExact`, `FlagsAreBacked`, `WatchedAreTyped`, `ModesAreExclusive` |
| `TypingProofs` | no triggers | `UdataIsReleased`, `ModeIsKept` |
| `DisciplineProofs` | `~Rewatches` | `PairsAreUnique`, `WatchedAreFlagged` |
| | `~ClosesUsed`, `~CtlAddMayFail`, `~Borrows` | `NothingLeaks`, `NothingForeignCloses`, `EnabledAreArmed`, `NothingForgotten` |
| | all four | `NothingThrows` |
| `TableProofs` | `~Rewatches` | `Refinement`: `Spec => TableSpec` |
| `SecondsProofs` | nothing | `MsecInRange`, `MsecRoundsDown`, `IntervalInRange`, `RunsFromOneNanosecond` |
| `LoopProofs` | nothing | `ListIsLargeEnough` |
| `DeliveryProofs` | `~ReusesInBatch` | `LoopTyping`, `ConsumeReadsInBatch`, `DisabledIsTruthful`, `EofIsTruthful`, `WakeupsAreKept`; `PromiseIsKept`: `LoopSpec => PromiseSpec` |
| | and one instance, if signals are watched | `DrainsDoNotBlock` |
| `PollForkProofs` | `RenewsFirst`, `ForksDrained` | `BothStayArmed`, `NoneIsOfTheOther`, `NoObjectLeaks` |

The inductive invariants are theorems as well: `Invariance`, `KernelAgreement`,
`Agreement`, `LoopInvariance`, `DeliveryInvariance`. Each hypothesis excludes
something seen to go wrong: `Rewatches` fails in `rewatch_throws`, `CtlAddMayFail`
in `double_close`, `ReusesInBatch` in `stale_delivery` and `read_past_batch`, two
instances that watch one signal in `wait_blocks`. `ClosesUsed` is the application
closing what the library still uses, `Borrows` its registering what the library
will close. `as_trigger` stores the user data before it
can fail (`trigger.c:36`) and overwrites the flags (`trigger.c:49`).

### The tables

None of the properties of `PollEvent` is inductive. `NregExact` needs that
`evset[fd]` is occupied when an enabled event is unwatched, which is `EvsetExact`;
that needs that an event is not `enabled` when an `as_` call sets its fields,
which follows from the metatable; and that a new or collected instance has no
watched event, which follows from the reference each event keeps to its instance.
`IInv` puts these together:

* `Registry(ev, poll)`: types, `Exact`, `Counted`, `Backed`;
* `Fine(ev[e])`: an event with the metatable of a kind has its filter and
  direction, an enabled event has such a metatable, one-shot excludes edge and
  exclusive;
* `Homed(ev, poll)`: the instance of every event is open.

`Registry` takes the events and the tables as arguments, since `renew` needs it
in the middle of a call, between unwatching and watching; so do the invariants
below. The lemmas `RegistryAdd`, `RegistryBack`, `RegistryDel` and `RegistryKeep`
say what a successful watch, a failed watch, an unwatch and a change to an
unwatched event do to it; `PollWatchStep` puts the three ends of
`poll_watch_event` together; each action then has a lemma of its own, and
`NextIInv` collects them.

### User data and modes

`UdataReleased` and `ModeKept` follow from one fact about each step: it changes
one event at most, and `Settled` says how. An event that is left without a type
had its user data before, and one that gets a type, or fails to get one, keeps its
mode.

### Pairs and the kernel

`PInv` is `IInv` with `Paired`: watched events of an instance have different
pairs (`Unique`), the flag table has the pair of every watched event (`Flagged`,
the other half of `FlagBacked`, which `WatchedIsFlagged` states), and a trigger
is identified by its descriptor (`SelfNamed`). `Flagged` is why a call that
finds no flag may watch; `SelfNamed` stands in for the look-up that `as_trigger`
does not make.

`KInv` is `IInv` with `Tidy`, which relates events, descriptors, owners and
interest lists:

* `Holding`: a typed event names an open descriptor that epoll accepts, its own
  or, for the first of a read and a write event, the application's; an untyped
  event closes none;
* `Opening`: a number has an owner exactly if it is open;
* `Owned`: what an event owns, it will close;
* `Watched` and `Known`: the entries of an interest list are those of the enabled
  events that have not been `lost`, with their present file and flags.

`NoLeak`, `NoForeignClose`, `Armed` and `NoForgotten` are parts of it, or follow.
It is also what makes `epoll_ctl(DEL)` succeed when the tables expect it to.

The two are independent of one another. `NoThrow` needs both, and so the whole
discipline: `as_read` and `as_write` end in a free slot of the evset because the
number they use is either that of no watched event (`KInv`) or was duplicated,
and `watch` because the pair, and with it the number, is not taken (`PInv`). `DInv`
is the conjunction.

### The table of watched pairs

`Refinement` rests on `Changed`: a step changes one event at most; while that has a
type it keeps its pair; it gets a type only by being watched, and is watched only
where it is. Given that and `PInv` before and after, `StepTable` finds the step of
`WatchTable`, and its size follows from `NregExact` by counting (`WatchedCount`).
Failing calls need no case of their own.

### The loop

`LInv` is `DInv` with

* `Made`: the descriptor of a typed event refers to a file of the application, or
  to the signalfd, timerfd or eventfd made for it. Steps open and close
  descriptors but never put one file in the place of another (`Turned`), so it
  stays what it was made;
* `Fits`: slots up to `nevt` exist and name descriptors (`Held`), while `epoll_wait`
  blocks the event list has room for at least `nreg` slots (`Waits`), and what is
  queued or disarmed is in the interest list (`ReadyLists`);
* `Devices`: types of the counters and settings behind the descriptors.

`LoopIsNext` shows that each step of the loop is a step of `PollEvent` or leaves
its variables alone: a delivery that unregisters is `Unwatch`, `FinishRenew` is
`RenewPoll`. That is how the model is built and so no result, but with it
(`LoopCalls`) every theorem about `PollEvent` holds in the loop.

### Delivery

`EInv` is `LInv`, `Delivery` and, of the last result, `Answer`. `Delivery` is

* `Inside`: the index `cur` is in front of a slot, or a cleanup has just passed the
  last one;
* `Lively`: no two slots to come have the same number, and each is `Live`. If its
  number is watched, the slot is about that registration, what it reports has not
  been read yet, and a level-triggered entry is still queued;
* `Spent`: an entry that epoll has disarmed is one-shot and has a slot to come, so
  that it will be unregistered;
* `Signals`: a signalfd holds the signal of its event;
* `Woken`: what `WakeupPending` says.

These hold one another up. A drain answers no error because the slot is `Live`;
so `disabled` is true to the event, and a cleanup goes on to the last slot, which
`Inside` needs. `Woken` survives a delivery since the drain leaves nothing, or
leaves it to a level-triggered event that `Live` finds queued; and it survives an
expiry, where the kernel wakes nothing for a disarmed entry, by `Spent`. `Live`
survives a registration because no number that a slot to come names is registered
again, which is what `~ReusesInBatch` is for.

Two instances may watch the same signal, each with a signalfd of its own; one
drain takes it from both. That is why `Live` calls only that due which is `Steady`:
a signal only with one instance (`Alone`). Nothing but `DrainsDoNotBlock` needs it.

`PromiseIsKept` is the refinement of `Notifier`. Every step of the loop is a call
that registers (`OneStepPromise`, from `Changed` and `StepTable`), an occurrence
(`CounterGrows`), a delivery or a discarded slot (`CheckTakes`, `ConsumePromises`,
`CleanupPromises`), or changes neither registrations nor counters. That a slot is
`Live` gives that its event is due; that it drains no other event's counter follows
from the descriptors, which are each event's own.

`HeadDelivers` is the core of the invariant: what `check_event_status` does to
slots, ready lists and wake-ups, for `consume` and both cleanups. It rests on
`CheckFacts` (what the answer tells), `Spares` (what the step leaves alone) and
`Leaves` (what it leaves unread). `OneStepDelivers` is its counterpart for calls
that register, and `WakeDelivers` for peers, timers, signals and `trigger`.

### Seconds and fork

`SecondsProofs` proves, for every resolution and width: a timeout is for ever
exactly if it is negative and otherwise an int that has not overflowed
(`MsecInRange`); below the saturation it is rounded down by less than a
millisecond (`MsecRoundsDown`); the nanoseconds of an interval are less than a
second (`IntervalInRange`); a timer runs exactly from one nanosecond on
(`RunsFromOneNanosecond`). They rest on `SecondsAssumption` and on two facts about
division, `Division` and `Quotient`.

In `PollForkProofs`, `ArmedInBoth` and `NoneOfTheOther` are not inductive.
`IInv` adds `Apart`: two processes that have both renewed have different epoll
objects; and `Inherited`: a child that has not renewed has lost everything it
watches and has no slot that unregisters. A step then either changes no
registration (`QuietStep`) or is one of a process on an object of its own
(`OwnStep`); renewing, forking and ending have lemmas of their own.

### Only model-checked

`WaitReturns` and `TimersFire`, in `loop_returns`: liveness under fairness, and the
ENABLED it is made of, are beyond the prover. So are the counterexamples of the
violating runs, which are behaviours of one instance.

## Not modelled

* `tostring`, `type` and `getinfo`, which format what the state holds.
* The truncation of Lua numbers to C integers, and floating-point rounding.
* A signal that interrupts a blocked `read` (EINTR).
* After `fork`: signal events, `revert`, new events, and more than one child.
* References in the Lua registry, except that a watched event and its instance
  are not collected.
* `src/nosup/epoll.c`, which has no state, `configure.lua` and the rockspecs.

## Plan

Done: `EpollKernel`, `PollEvent`, `PollLoop` and the proofs about the registry,
what every other part relies on first; then `WatchTable`, `Seconds` and
`PollFork`, with the delivery properties of `PollLoop`; then the proofs about
descriptors and the kernel, the refinements of `WatchTable` and `Notifier`, the
loop and delivery.
Left:

1. What the theorems about the loop say without the discipline that
   `LoopAssumption` fixes: the descriptor of an event may then be anybody's.
2. More of `PollFork`: signals, `revert` and new events after the fork.
3. `ModeKept` for the four other kinds when triggers are in use as well.
