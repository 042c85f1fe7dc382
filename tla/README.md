# A TLA+ verification project for io-reactor

io-reactor runs a user-supplied service (a `Handler`) in a thread of its own,
around a blocking `poll`.  Other threads talk to the service through cloneable
`Controller` handles.  The project models the whole of the crate that keeps
state: the control path, the event loop, the popol-backed poller, the resource
ids and the timers.  Source paths below are relative to the crate's `src/`.

## Inventory

| part | source | state | operations |
|---|---|---|---|
| `Controller`, `Reactor` | `reactor.rs` 258-387 | the crossbeam channel, the waker's descriptor | `cmd`, `shutdown`, `wake`, the launch, `join` |
| `Runtime` | `reactor.rs` 396-714 | the two resource maps, the position in an iteration, `awoken`, `now` | `run`, `handle_events`, `handle_actions`, `handle_action`, `unregister_*` |
| `Timer`, `Timestamp` | `timeouts.rs` | a `BTreeSet` of absolute times | `set_timeout`, `next_expiring_from`, `remove_expired_by` |
| `poller::popol` | `poller/popol.rs`, `poller/mod.rs` | the polled sources, what they are armed for, the queue of events, the id generator | `register_waker`, `register`, `unregister`, `set_interest`, `poll`, the event iterator |
| `Resource`, `WriteAtomic`, ids | `resource.rs` | the resource's own | `interests`, `handle_io`, `write_atomic`, `ResourceIdGenerator::next` |
| the service (`Handler`) | the application's; the trait in `reactor.rs` 109-194 | a queue of actions, as a rule | the callbacks, the iterator |
| other pollers | `poller/mio.rs`, `polling.rs`, `epoll.rs` | none | licence headers without code |

How the parts interact.  A controller sends on the channel and then wakes the
waker, which is one of the sources the poller polls.  The runtime asks the timer
for a timeout, re-arms every resource, polls, fires timers, drains the poller's
queue of events, drains the channel if one of the events was the waker's, and
lets the service's iterator hand it actions.  Every arrow into the service is a
callback, and every callback may panic.

What is hard: the race of send-then-wake with reset-then-drain; one signal for
several messages; Shutdown among commands of several handles; failing wakes;
events that outlive the resource they concern; three places that record a
resource (map, poll set, service); interests that go stale; time that passes
between computing a timeout and using it; a system clock that is set while poll
waits; timestamps that are compared in one width and subtracted in another;
actions that a callback queues and somebody has to collect; an event that is two
calls of `handle_io`, the first of which may change what the second was for; a clock
before the epoch, which ends the thread.  `PROJECT.json` lists each hazard at its line.

What makes each part correct:

* control path: no wake-up lost, each handle's commands in order and once,
  Shutdown a barrier, everything accepted is handled or the loop has ended;
* resources: events only for resources the service has lent, the three records
  agree, ids never repeat, poll is armed for current interests, no event goes stale
  in the queue; what stays ready and wanted is served, a hang-up is noticed;
* timers: no deadline lost, none announced early, no poll that outlasts one;
* service: every action handled in the iteration that queued it, or the loop has
  ended;
* the thread: no panic without a cause outside the loop (`PanicCause`), and none that
  leaves a caller waiting.

## Modules

| module | models | notes |
|---|---|---|
| `Control` | `Controller`, the channel, the waker, the launch, the drain of `run` | a module on its own, with the reactor thread abstract: the specification the event loop implements |
| `Poller` | `poller/popol.rs` and the ids | operators over its four variables, composed by `Reactor` |
| `Timer` | `timeouts.rs` | operators on a set of deadlines; `% U64` is the truncation of `as_millis` |
| `Reactor` | `Runtime` | EXTENDS the three others; one action per phase of `run`, per call of `handle_io`, per failed event, per received message and per `Action` |
| `Mailbox` | | abstract: what the Controllers are promised (an accepted command delivered once and in its turn, a line drawn by the first shutdown) |
| `Alarms` | | abstract: what the timers promise (owed, rung, never early) |
| `Custody` | | abstract: what the reactor promises about a resource (lent once, back at most once, no event left behind) |
| `Service` | a `Handler` with a queue, under `handle_actions` | EXTENDS `Reactor`; each callback may queue an action, the iterator ends when the queue is empty |
| `Io` | poll(2) under `popol` | EXTENDS `Reactor`; a source stays ready until served, poll reports what is ready and armed |
| `ControlProofs`, `TimerProofs`, `ReactorProofs`, `PromiseProofs`, `LimitProofs`, `ServiceProofs`, `IoProofs` | | theorems |
| `MCControl`, `MCReactor`, `MCService`, `MCIo` | | constants for TLC |

How they fit.  `Reactor` leaves open what the service asks for and what poll
reports, so that its safety properties hold of any service and any engine;
`Service` and `Io` close one each, where a promise depends on it, and are shown to
be instances of `Reactor`.  Upward, `Reactor` implements `Control` under the
same names, and three abstract specifications by `INSTANCE ... WITH`: `Alarms` and
`Custody` (`A` and `C` at the end of `Reactor`), and `Mailbox` (`M` at the end of
`Control`), which `Control` implements already.

    Service, Io  --implement-->  Reactor  --implements-->  Control  --implements-->  Mailbox
                                 Reactor  --implements-->  Alarms, Custody

State and code.  `caller[c]` is the position of handle `c` inside `cmd` or `shutdown`:
a call is two steps, so that anything may happen between its send and its wake.
`status` and `pc` say where the reactor thread is; `launch` where the thread in
`Reactor::with` is.  `listeners`/`transports` are the keys of the maps,
`polled`/`armed`/`events`/`nextId` the poller.  `lent` records what the callbacks told
the service, `asked`, `alarm`, `slip`, `handled`, `shut` and `cut` are history
variables that no guard of the loop reads.  `clock` is `SystemTime` in milliseconds,
`now` and `timeout` the locals of `run`; `timeout` is set to 0 once poll has returned
and nobody reads it any more.  An event with both kinds of I/O is two calls of
`handle_io`: `ResourceEvent` is the first, the write if there is one, and `reading`
holds the resource while its read is still to come (`ReadAfterWrite`), which is made
whatever the write did to its interests.  A call that changes nothing (a `cmd` on a
closed channel, an action for an id that is not in a map) is a stuttering step.

Data is abstracted to what the properties tell apart.  A command is its number, a
resource its id and the interests it currently reports, an event a set of flags;
hangup, error and invalid are one flag, `"fail"`, because both kinds of `IoFail`
take the same path.  popol itself is external: a poll reports, for each source,
any of the events it is armed for and possibly a failure, and the waker exactly
when it is readable.  Which of the callbacks runs matters only for what the
reactor does next, so the service is free to yield any legal action and a
resource to change its interests whenever it has been called.  `clock` moves by
`Tick`, at any time, and by `SetClock`, which sets it anywhere up to `MaxSteps` times,
also to before the epoch, up to `PreEpoch`.  `run` reads it twice in an iteration
(`ComputeTimeout`, `Fire`), and `Timestamp::now` panics then if it is before the epoch;
`slip` is what the clock gained since the timeout was computed without
poll having waited for it.  `Faults` names the external failures an instance
allows; `DebugAsserts` and `OverflowChecks` are the two build options that change
what the code does.

Mutants.  A definition whose comment is "mutant" is a plausible mistake in the
operation that follows it, used to see that a property would notice.

## Runs

All passing runs finish within about two minutes.

| run | instance | asks |
|---|---|---|
| `control` | 3 handles, 2 commands each, symmetric; 0.7 M states | types, lost wake-ups, order, barrier, and the invariants the proofs use |
| `control_faulty` | 2 handles, failing wakes | a later successful wake recovers what a failed one left |
| `commands` | 2 handles, 2 commands each, callbacks that panic | `Reactor` implements `ControlSpec` and `Mailbox` with their fairness; launch, commands and shutdown take effect, join returns |
| `resources` | 2 registrations, 3 kinds of interests, every external failure, no debug assertions; 1.8 M states | types, the books, no event for what was given back and none gone stale, interests, ids |
| `timers` | durations 0 and 3, clock to 4 and set once anywhere or to before the epoch, integers of width 2 that wrap; 0.2 M states | kept, not early, not late, all fire; no panic but for the epoch; `Reactor` implements `Alarms` with its fairness |
| `service` | 3 actions, 1 resource, 1 command, a timer of 1 ms, integers of width 2 with overflow checks, all failures but the waker's; 0.4 M states | no panic without a cause, no action waits, every action done, every step of the thread brings the next poll nearer; the loop so used is `Reactor`, fairness included |
| `io` | 2 resources that want to read and write or nothing, polls and writes that fail; 0.3 M states | no poll misses what is ready and wanted, what is ready is served, hang-ups noticed, no panic; `Reactor` implements `Custody` with its fairness |

Why these bounds.  Two handles suffice for each interleaving of two calls, and three
let a third call fall between them; two commands per handle tell order from loss.  Two
ids give one resource that is disconnected while another has an event queued, and a
registration after an unregistration.  Durations 0 and 3 against a clock up to 4 give
timers that are due at once, at the same time as, before and after others, and in the
past when poll is entered; setting the clock once moves it past several deadlines,
back behind one that was about to fire, or to one millisecond before the epoch, where
each later reading panics until the clock has passed the epoch again. The width 2
makes every subtraction of two moments more than a millisecond apart wrap.  Three
actions let one be queued while another is handled, the first of them brought along at
the launch; a timer due at the width does not fit it, one due below it does.  In `io`
a resource wants both kinds of I/O or none, so that an event may be two calls, with
interests dropped between them.  `MaxTime`, `MaxSteps`, `PreEpoch`, `MaxCmds`,
`MaxIds` and `MaxActions` are bounds of the instances only: the theorems hold for
every value.

Deadlock checking is off because the system may stop: callers need not call
again, poll may block with nothing to report, and a dropped runtime does nothing.

Five runs show a disagreement between documentation and code; each stops with a
counterexample.

* `shutdown_lost`: `shutdown()` returns `res1.or(res2)`, so it consumes the handle
  and reports Ok when the send succeeded and the wake did not; the Shutdown then
  waits in a channel nobody will look at.
* `millis`: `next_expiring_from` compares the full timestamps and subtracts the
  truncated ones; a deadline beyond 2^64 ms (a `Duration::MAX`) panics a build
  with overflow checks.
* `wait_cap`: `WAIT_TIMEOUT` is the default without timers, not a maximum.
* `write_doc`: `write_atomic` catches a `write_or_buf` that returns `WouldBlock`
  with `debug_assert!`; a release build disconnects the transport instead of the
  documented panic.
* `set_timer_doc`: a timer counts from the return of poll, not from the moment its
  action is handled.

## Fairness

The reactor thread is scheduled (`WF(LoopStep)`), returns from poll when the
waker is readable or the time is over, calls in progress return, and the thread
that launches the reactor finishes `Reactor::with`.  Nothing obliges a caller to
call, a resource to become ready, a callback to panic or a wake to fail, and only
`TimedSpec`, used by the timer run, obliges time to pass.  `WF(LoopStep)` at
`pc = "actions"` says that the service's iterator returns `None` at last; the
comment at `reactor.rs` 582 states that the reactor cannot do without it.
`ServiceSpec` does not assume it: there the iterator ends when the queue is empty,
and the run shows that this implies the fairness of `Spec`.  `IoSpec` adds that
poll returns while a source is ready, strongly fair because a poll may fail: it
does not fail each time.  Nothing makes a source ready, and what becomes ready
need not stay so: `IoServed` speaks of what does.  The drain loop ends because the
commands of an instance are finite; a flood of commands that never ends would
starve the loop, and no property claims otherwise.  `IterationEnds` says that this
is the only way, once the service's queue ends: each step of the thread leads to a
later phase or leaves less to do in this one, and only callers that send during the
drain add to it.

## Proofs

Theorems hold for every number of handles, commands, registrations and timers,
every set of interests and every combination of faults, of the specifications'
safety parts (`Safety`, `ControlSafety`, `ServiceSafety`, `IoSafety`).  They assume only
`ControlAssumption`, `PollerAssumption`, `TimerAssumption` and
`ReactorAssumption`, which give the constants their types.

* `ControlProofs`.  Types; no lost wake-up, which is inductive as it stands;
  commands in order, by `QueueInOrder` (the unhandled commands of a handle are in
  the channel, increasing and without gap: only then does the head of the channel
  have to be the next number); Shutdown as a barrier, by `QueueIsCut` (the first
  Shutdown parts the channel, and nothing behind it has been handled).  Both together
  show that `Control` implements `Mailbox`: a received command is the next of its
  handle and below the line, and a received Shutdown finds all those below it
  handled; the waker, the calls in progress and the launch are invisible steps.
* `TimerProofs`.  The wrapped difference of two truncated moments never exceeds
  their real difference, whatever the width: so truncation can wake the loop too
  early, never too late.
* `ReactorProofs`.  `NextCases` gives the few forms a step can have, and each
  proof goes by them.  Every step of the loop is a step of the control path or leaves
  it alone, so that the theorems about `Control` hold of the loop.  `ResourceInv`
  is the inductive invariant of the resources: books in order, and the queue
  empty whenever actions are handled or poll blocks, because an unregistration
  does not purge the queue; from it follow `EventsOnlyForLent` and `IdsNotReused`.
  `PollsCurrentInterests` is inductive with the types; `EventsWanted` needs it and
  `ResourceInv`: a handler, or the read after a write, changes the interests of the one
  resource it is called on, and no other event of that resource is in the queue.  It
  speaks of events, not of calls: the read after a write is made though the write has
  dropped that interest.  `TimeInv` bounds what a poll still
  waits by every deadline and the slip, whoever moves the clock; `PollNotLate`
  follows from it.  `TimerKept` is inductive by itself.
* `PromiseProofs`.  The loop implements `Alarms`, for which the pending deadlines
  have to be exactly those owed (`OwedArePending`), and `Custody`, where
  `EventsInv` says that what is reported is lent and reported once.  `Mailbox` it
  implements because it implements `Control`.
* `LimitProofs`.  Under which conditions the loop does what its documentation says,
  against the runs that refute it without them.  `PanicsForCause` holds without
  conditions, in every build and under every clock: `PanicCause` lists, for each
  place, what can end the thread there, and `PanicsHaveCause` says there is nothing
  else; an event always finds its resource (`ResourceInv`), and a subtraction
  underflows only with a deadline that does not fit (`FittingComputes`).
  `MillisSuffice` holds while every deadline fits the truncated integer
  (`DurationsFit`: bound of the clock plus duration below `U64`; the inductive
  `DeadlinesFit`) and the clock is not before the epoch; `millis` refutes it for
  longer durations.  `WaitBounded` holds while no timer is set for more than
  `WAIT_TIMEOUT` and nobody sets the clock (`WaitInv`: no deadline is further ahead
  than that); `wait_cap` refutes it for a longer timer, and a clock set back puts even
  a short one further away.  `TransientPanics` holds in a debug build; `write_doc`
  refutes it in a release build.
* `ServiceProofs`.  A queue holds only actions the loop knows (`QueueTypeOK`), so that
  each step is one of `Reactor`; `NothingLeft`, the inductive form of `NothingWaits`,
  covers the whole way from the end of the actions to poll. `IterationEnds` is an
  argument by a variant: the queued events (two for each, one for a read still to
  come), messages in the channel, or actions queued and still to come, ordered after
  the phase.  That it is a natural number needs the queue of events to be finite,
  which it is because a poll reports each of finitely many sources once
  (`BoundedWork`).  That a number cannot fall for ever is the reader's step: the
  prover has no liveness.
* `IoProofs`.  What a level-triggered engine reports is among what `Reactor` lets
  poll report, by `ResourceInv` (what is polled) and `ReadyInv`.  `NothingMissed`,
  the safety half of `IoServed`, follows with `PollsCurrentInterests`: what a resource
  reports is what it is ready for and wants, no less.

The loop in `Service` and in `Io` being the one of `Reactor`, it keeps `Mailbox`,
`Alarms` and `Custody` as well (`ServiceKeepsPromises`, `IoKeepsPromises`).

Model-checked only: all liveness properties and the fairness of the refinements
(`EveryCommandHandled`, `ShutdownTakesEffect`, `StrandedRecovered`, `TimersFire`,
`LaunchServed`, `EveryActionDone`, `IoServed`, `HangUpNoticed`, the fair parts of
`ControlSpec`, `MailboxKept`, `AlarmsKept`, `CustodyKept` and of `Spec` under
`Service`), which the prover does not reach.

## Not modelled

The stub pollers, logging, `Display` and re-exports keep or change no state, nor do
the constructors and queries of `IoType`, `Timestamp` and `Timer` that the loop does
not call.  `Runtime::with` builds a `Runtime` that cannot be run from outside the
module, because `run` is private.  What a resource buffers is inside the resource: the
crate has no implementation of `write_or_buf`, and so nothing to check about the order
of the data.  What was left to read of a source that hung up is dropped with it; the
code promises nothing about it.  The floods that starve the loop (commands, or a
service that answers each action with another) and a poll that fails each time are
assumed away where a liveness property needs it, as named under Fairness.  A command
whose `cmd` failed in the wake and is sent again counts as a new one: the service may
handle both, and no property claims otherwise.  A failed launch leaves its thread
running with no handle to end it; nothing is promised of it.  Dropping every
`Controller` without a shutdown changes nothing, because the `Runtime` holds one of
its own: the thread then waits for ever.

## Plan

The whole of the crate that keeps state is modelled, and every invariant and action
property of a passing run but the liveness properties is proved.  What could still be
added, in this order:

1. An instance of `Io` with commands, which today takes longer than a run should.
2. The order of a transport's data, once the crate has an implementation of
   `write_or_buf`.
3. The other poll engines, when their files hold code: each would take the place
   of `Poller` under the same `Reactor`.
