------------------------------- MODULE Reactor -------------------------------
(***************************************************************************)
(* reactor.rs: the Runtime's event loop in its thread, composed of the     *)
(* control path (Control), the poll engine (Poller) and the timers         *)
(* (Timer), next to the threads that use the Controllers and a clock.      *)
(*                                                                         *)
(* The service (Handler) and the resources are the application's.  The     *)
(* service may yield any legal Action each time handle_actions asks; a     *)
(* resource may report any of Interests each time the reactor has called   *)
(* it.  What their callbacks do otherwise stays outside the reactor.       *)
(***************************************************************************)
EXTENDS Control, Poller, Timer

CONSTANTS
  Interests,    \* the values Resource::interests may take
  Durations,    \* the durations given to SetTimer
  WaitTimeout,  \* WAIT_TIMEOUT
  MaxTime,      \* bound: the clock stops here
  MaxSteps,     \* bound: how often somebody sets the clock
  PreEpoch,     \* bound: how far before the epoch the clock may be set
  DebugAsserts, \* is the crate built with debug assertions?
  Faults        \* which external failures may happen, see below

\* "poll": the poll syscall fails; "waker": the waker's descriptor fails;
\* "resource": a resource hangs up or errors; "write": write_atomic gets an I/O
\* error; "transient": it gets one that write_or_buf should have handled by
\* buffering; "notready": the service writes to a transport that is not ready;
\* "service": a callback of the service panics.
AllFaults == {"poll", "waker", "resource", "write", "transient", "notready",
              "service"}

ASSUME ReactorAssumption ==
  /\ Interests \subseteq SUBSET Io
  /\ Interests # {}
  /\ Durations \subseteq Nat
  /\ WaitTimeout \in Nat
  /\ MaxTime \in Nat
  /\ MaxSteps \in Nat
  /\ PreEpoch \in Nat
  /\ DebugAsserts \in BOOLEAN
  /\ Faults \subseteq AllFaults

VARIABLES
  pc,          \* where the reactor thread is, see Labels
  listeners,   \* keys of Runtime::listeners
  transports,  \* keys of Runtime::transports
  wants,       \* what Resource::interests of each registered resource returns
  lent,        \* what the service was told about each id by the callbacks
  reading,     \* handle_events: the resource that has been given its write, and
               \* has yet to be given the read of the same event (at most one)
  clock,       \* the system time in milliseconds since the epoch
  steps,       \* how often the clock has been set
  now,         \* run(): the time read when poll returned
  timeout,     \* what is left of the timeout given to poll
  slip,        \* history: how far the clock got since the timeout was computed
               \* without poll waiting for it
  timeouts,    \* Runtime::timeouts
  asked,       \* history: the deadlines set and not answered by handle_timer
  alarm        \* history: flips with each call of handle_timer

resourceVars == <<listeners, transports, wants, lent, reading>>
timerVars    == <<timeouts, asked, alarm>>
clockVars    == <<clock, steps, now, timeout, slip>>

vars == <<controlVars, pollerVars, pc, resourceVars, clockVars, timerVars>>

Labels == {"start", "timeout", "interests", "poll", "fire", "events", "drain",
           "actions", "ended"}

LoopTypeOK ==
  /\ pc \in Labels
  /\ listeners \subseteq Ids
  /\ transports \subseteq Ids
  /\ wants \in [Ids -> SUBSET Io]
  /\ lent \in [Ids -> {"none", "listener", "transport", "returned", "failed"}]
  /\ reading \subseteq Ids
  /\ clock \in Int /\ now \in Nat /\ timeout \in Nat /\ slip \in Nat
  /\ steps \in 0..MaxSteps
  /\ timeouts \subseteq Nat /\ asked \subseteq Nat /\ alarm \in BOOLEAN

TypeOK == ControlTypeOK /\ PollerTypeOK /\ LoopTypeOK

Init ==
  /\ ControlInit
  /\ PollerInit
  /\ pc = "start"
  /\ listeners = {}
  /\ transports = {}
  /\ wants = [id \in Ids |-> {}]
  /\ lent = [id \in Ids |-> "none"]
  /\ reading = {}
  /\ clock = 0 /\ steps = 0 /\ now = 0 /\ timeout = 0 /\ slip = 0
  /\ timeouts = {} /\ asked = {} /\ alarm = FALSE

\* The thread panics; what the dropped Runtime held is not looked at again.
Crash ==
  /\ Panic
  /\ pc' = "ended"
  /\ UNCHANGED <<resourceVars, clockVars, timerVars>>

-----------------------------------------------------------------------------
(* One iteration of run() up to the return of poll.                        *)

Start ==
  /\ pc = "start"
  /\ RegisterWaker
  /\ pc' = "timeout"
  /\ UNCHANGED <<controlVars, resourceVars, clockVars, timerVars>>

ComputeTimeout ==
  /\ pc = "timeout"
  /\ IF NowFails(clock) \/ (OverflowChecks /\ Underflows(timeouts, clock))
     THEN Crash
     ELSE /\ timeout' = NextExpiringFrom(timeouts, clock, WaitTimeout)
          /\ slip' = 0
          /\ pc' = "interests"
          /\ UNCHANGED <<controlVars, resourceVars, clock, steps, now, timerVars>>
  /\ UNCHANGED pollerVars

ListenerInterests ==  \* mutant: the transports are left out
  /\ pc = "interests"
  /\ SetInterest(listeners, wants)
  /\ pc' = "poll"
  /\ UNCHANGED <<controlVars, resourceVars, clockVars, timerVars>>

SetInterests ==
  /\ pc = "interests"
  /\ SetInterest(listeners \cup transports, wants)
  /\ pc' = "poll"
  /\ UNCHANGED <<controlVars, resourceVars, clockVars, timerVars>>

\* What poll may report of one source: of the waker exactly whether it is
\* readable now, of a resource anything it is armed for.
Reportable(id) ==
  IF id = WAKER
  THEN IF waker THEN {{"read"}} \cup (IF "waker" \in Faults THEN {{"fail"}} ELSE {})
                ELSE {{}}
  ELSE SUBSET (armed[id] \cup (IF "resource" \in Faults THEN {"fail"} ELSE {}))

PollReady ==
  /\ pc = "poll"
  /\ \E rev \in [polled -> SUBSET Flags] :
       /\ \A id \in polled : rev[id] \in Reportable(id)
       /\ \E id \in polled : rev[id] # {}
       /\ Report(rev)
  /\ pc' = "fire"
  /\ UNCHANGED <<controlVars, resourceVars, clockVars, timerVars>>

\* Poller::poll turns the TimedOut error into Ok(0).
PollTimesOut ==
  /\ pc = "poll"
  /\ timeout = 0
  /\ ~waker
  /\ pc' = "fire"
  /\ UNCHANGED <<controlVars, pollerVars, resourceVars, clockVars, timerVars>>

\* Any other error: after the timers it is passed to handle_error, and the
\* iteration goes on with no events.
PollFails ==
  /\ "poll" \in Faults
  /\ pc = "poll"
  /\ pc' = "fire"
  /\ UNCHANGED <<controlVars, pollerVars, resourceVars, clockVars, timerVars>>

\* tick, then one handle_timer call however many timeouts have expired.  The local
\* `timeout` is of no more use.
Fire ==
  /\ pc = "fire"
  /\ IF NowFails(clock)
     THEN Crash
     ELSE /\ now' = clock
          /\ timeouts' = Unexpired(timeouts, clock)
          /\ IF Expired(timeouts, clock) # {}
             THEN alarm' = ~alarm /\ asked' = {t \in asked : t > clock}
             ELSE UNCHANGED <<alarm, asked>>
          /\ pc' = "events"
          /\ timeout' = 0 /\ slip' = 0
          /\ UNCHANGED <<controlVars, resourceVars, clock, steps>>
  /\ UNCHANGED pollerVars

-----------------------------------------------------------------------------
(* handle_events: one queued event per step, or one call of handle_io.     *)

\* unregister_listener and unregister_transport: out of the map and the poll;
\* the resource object goes back to the service, "returned" by a handover or
\* "failed" with an Error.
GiveBack(id, how) ==
  /\ listeners' = listeners \ {id}
  /\ transports' = transports \ {id}
  /\ wants' = [wants EXCEPT ![id] = {}]
  /\ Unregister(id)
  /\ lent' = [lent EXCEPT ![id] = how]
  /\ UNCHANGED reading

WakerEvent(e) ==
  /\ e.id = WAKER
  /\ ~Failed(e)
  /\ Take(e)
  /\ ResetWaker
  /\ UNCHANGED <<polled, armed, nextId, pc, resourceVars, clockVars, timerVars>>

\* The panics of handle_events: the waker has failed, or cannot be reset, or the
\* event concerns nothing in the two maps.
EventPanics(e) ==
  /\ IF e.id = WAKER THEN Failed(e) \/ "waker" \in Faults
                     ELSE e.id \notin listeners \cup transports
  /\ Take(e)
  /\ Crash
  /\ UNCHANGED <<polled, armed, nextId>>

\* A resource may want other events after each call of handle_io.
HandleIo(id) ==
  /\ \E interest \in Interests : wants' = [wants EXCEPT ![id] = interest]
  /\ UNCHANGED <<controlVars, polled, armed, nextId, pc, listeners, transports,
                 lent, clockVars, timerVars>>

\* The first of `for io in io`: write, if the event has it.
ResourceEvent(e) ==
  /\ e.id \in listeners \cup transports
  /\ ~Failed(e)
  /\ Take(e)
  /\ HandleIo(e.id)
  /\ reading' = IF e.revents = Io THEN {e.id} ELSE {}

\* The second: the read that the event had too, whether or not the resource still
\* wants it after its write.
ReadAfterWrite ==
  /\ \E id \in reading : HandleIo(id)
  /\ reading' = {}
  /\ UNCHANGED events

DisconnectNot(e) ==  \* mutant: the error is logged, the resource stays
  /\ e.id \in listeners \cup transports
  /\ Failed(e)
  /\ Take(e)
  /\ UNCHANGED <<controlVars, polled, armed, nextId, pc, resourceVars, clockVars,
                 timerVars>>

\* handle_error with ListenerDisconnect or TransportDisconnect.
Disconnect(e) ==
  /\ e.id \in listeners \cup transports
  /\ Failed(e)
  /\ Take(e)
  /\ GiveBack(e.id, "failed")
  /\ UNCHANGED <<controlVars, pc, clockVars, timerVars>>

HandleEvent ==
  /\ pc = "events"
  /\ \/ ReadAfterWrite
     \/ /\ reading = {}
        /\ \E e \in events : \/ WakerEvent(e)
                             \/ ResourceEvent(e)
                             \/ Disconnect(e)
                             \/ EventPanics(e)

EventsDoneEarly ==  \* mutant: `if let` for `while let`
  /\ pc = "events"
  /\ reading = {}
  /\ pc' = IF awoken THEN "drain" ELSE "actions"
  /\ UNCHANGED <<controlVars, pollerVars, resourceVars, clockVars, timerVars>>

EventsDoneNoDrain ==  \* mutant: the waker is reset, the channel not drained
  /\ pc = "events"
  /\ events = {} /\ reading = {}
  /\ pc' = "actions"
  /\ UNCHANGED <<controlVars, pollerVars, resourceVars, clockVars, timerVars>>

EventsDoneIdle ==  \* mutant: actions only after the waker
  /\ pc = "events"
  /\ events = {} /\ reading = {}
  /\ pc' = IF awoken THEN "drain" ELSE "timeout"
  /\ UNCHANGED <<controlVars, pollerVars, resourceVars, clockVars, timerVars>>

EventsDone ==
  /\ pc = "events"
  /\ events = {} /\ reading = {}
  /\ pc' = IF awoken THEN "drain" ELSE "actions"
  /\ UNCHANGED <<controlVars, pollerVars, resourceVars, clockVars, timerVars>>

-----------------------------------------------------------------------------
(* The drain loop and the end of the thread.                               *)

DrainStep ==
  /\ pc = "drain"
  /\ \/ RecvCmd /\ pc' = "drain"
     \/ RecvShutdown /\ pc' = "ended"
     \/ RecvEmpty /\ pc' = "actions"
  /\ UNCHANGED <<pollerVars, resourceVars, clockVars, timerVars>>

DropRuntime ==
  /\ pc = "ended"
  /\ DropReceiver
  /\ UNCHANGED <<pc, pollerVars, resourceVars, clockVars, timerVars>>

-----------------------------------------------------------------------------
(* handle_actions: one Action of the service per step.  Unregistering or   *)
(* sending to an id that is not in the map returns Ok(()) and changes      *)
(* nothing, which is a stuttering step.                                    *)

RegisterListener ==
  /\ pc = "actions"
  /\ Register({"read"})
  /\ listeners' = listeners \cup {nextId}
  /\ \E interest \in Interests : wants' = [wants EXCEPT ![nextId] = interest]
  /\ lent' = [lent EXCEPT ![nextId] = "listener"]
  /\ UNCHANGED <<controlVars, pc, transports, reading, clockVars, timerVars>>

RegisterTransport ==
  /\ pc = "actions"
  /\ Register({"read"})
  /\ transports' = transports \cup {nextId}
  /\ \E interest \in Interests : wants' = [wants EXCEPT ![nextId] = interest]
  /\ lent' = [lent EXCEPT ![nextId] = "transport"]
  /\ UNCHANGED <<controlVars, pc, listeners, reading, clockVars, timerVars>>

\* The handover.
HandOver(id) ==
  /\ pc = "actions"
  /\ GiveBack(id, "returned")
  /\ UNCHANGED <<controlVars, events, pc, clockVars, timerVars>>

UnregisterListener(id)  == id \in listeners /\ HandOver(id)
UnregisterTransport(id) == id \in transports /\ HandOver(id)

\* Action::Send to a transport, by the result of write_atomic.
SendOk(id) ==
  /\ pc = "actions"
  /\ id \in transports
  /\ \E interest \in Interests : wants' = [wants EXCEPT ![id] = interest]
  /\ UNCHANGED <<controlVars, pollerVars, pc, listeners, transports, lent, reading,
                 clockVars, timerVars>>

SendNotReady(id) ==
  /\ "notready" \in Faults
  /\ pc = "actions"
  /\ id \in transports
  /\ Crash
  /\ UNCHANGED pollerVars

SendIoError(id) ==
  /\ "write" \in Faults
  /\ pc = "actions"
  /\ id \in transports
  /\ GiveBack(id, "failed")
  /\ UNCHANGED <<controlVars, events, pc, clockVars, timerVars>>

\* The debug assertion of write_atomic panics; without it the error is treated
\* like any other.
SendTransient(id) ==
  /\ "transient" \in Faults
  /\ pc = "actions"
  /\ id \in transports
  /\ IF DebugAsserts
     THEN Crash /\ UNCHANGED pollerVars
     ELSE /\ GiveBack(id, "failed")
          /\ UNCHANGED <<controlVars, events, pc, clockVars, timerVars>>

\* The deadline counts from `now`, the time poll returned.
SetTimer(duration) ==
  /\ pc = "actions"
  /\ timeouts' = SetTimeout(timeouts, duration, now)
  /\ asked' = asked \cup {now + duration}
  /\ UNCHANGED <<controlVars, pollerVars, pc, resourceVars, clockVars, alarm>>

ActionsDone ==
  /\ pc = "actions"
  /\ pc' = "timeout"
  /\ UNCHANGED <<controlVars, pollerVars, resourceVars, clockVars, timerVars>>

HandleAction ==
  \/ RegisterListener
  \/ RegisterTransport
  \/ \E id \in Ids : \/ UnregisterListener(id)
                     \/ UnregisterTransport(id)
                     \/ SendOk(id)
                     \/ SendNotReady(id)
                     \/ SendIoError(id)
                     \/ SendTransient(id)
  \/ \E duration \in Durations : SetTimer(duration)

\* A callback panics; every phase from tick on runs some.
ServicePanics ==
  /\ "service" \in Faults
  /\ pc \in {"fire", "events", "drain", "actions"}
  /\ Crash
  /\ UNCHANGED pollerVars

-----------------------------------------------------------------------------
\* Time passes, whatever the threads do; a blocked poll has less left to wait,
\* also once the clock has reached the bound.
Tick ==
  /\ clock < MaxTime \/ (pc = "poll" /\ timeout > 0)
  /\ clock' = IF clock < MaxTime THEN clock + 1 ELSE clock
  /\ timeout' = IF pc = "poll" /\ timeout > 0 THEN timeout - 1 ELSE timeout
  /\ slip' = IF pc = "interests" THEN slip + 1 ELSE slip
  /\ UNCHANGED <<controlVars, pollerVars, pc, resourceVars, steps, now, timerVars>>

\* The system time is set, forward or back, also to before the epoch.  How long
\* poll waits does not depend on it; what the clock gains is lost to the wait.
SetClock ==
  /\ steps < MaxSteps
  /\ steps' = steps + 1
  /\ clock' \in (0 - PreEpoch)..MaxTime
  /\ slip' = IF pc \in {"interests", "poll"} /\ clock' > clock
             THEN slip + (clock' - clock) ELSE slip
  /\ UNCHANGED <<controlVars, pollerVars, pc, resourceVars, now, timeout, timerVars>>

OtherThreads ==
  /\ \/ Launch
     \/ \E c \in Controllers : CallerNext(c)
  /\ UNCHANGED <<pollerVars, pc, resourceVars, clockVars, timerVars>>

\* What the thread does without waiting for anybody.
LoopStep ==
  \/ Start
  \/ ComputeTimeout
  \/ SetInterests
  \/ PollTimesOut
  \/ Fire
  \/ HandleEvent
  \/ EventsDone
  \/ DrainStep
  \/ DropRuntime
  \/ ActionsDone

Next ==
  \/ LoopStep
  \/ PollReady
  \/ PollFails
  \/ HandleAction
  \/ ServicePanics
  \/ OtherThreads
  \/ Tick
  \/ SetClock

(***************************************************************************)
(* The reactor thread is scheduled: it takes its next step, and returns    *)
(* from poll when the timeout is over or the waker readable.  Nothing      *)
(* makes a resource ready.  WF(LoopStep) at "actions" says that the        *)
(* service's iterator returns None at last, which handle_actions relies    *)
(* on.  Calls in progress return.  TimedSpec adds that time passes.        *)
(***************************************************************************)
Fairness ==
  /\ WF_vars(LoopStep)
  /\ WF_vars(waker /\ PollReady)
  /\ WF_vars((LaunchWake \/ JoinReturns) /\ OtherThreads)
  /\ \A c \in Controllers : WF_vars(Wake(c) /\ OtherThreads)

Safety == Init /\ [][Next]_vars

Spec == Safety /\ Fairness

TimedSpec == Spec /\ WF_vars(Tick)

-----------------------------------------------------------------------------
(* Properties.                                                             *)

\* What the books rest on: a resource is in one map, in the poll set and lent
\* together, and an id beyond the generator's has never been given out.
BooksInv ==
  /\ listeners = {id \in Ids : lent[id] = "listener"}
  /\ transports = {id \in Ids : lent[id] = "transport"}
  /\ polled = (IF pc = "start" THEN {} ELSE {WAKER}) \cup listeners \cup transports
  /\ \A id \in Ids : id >= nextId <=> lent[id] = "none"

\* The queue of the poller holds nothing while poll blocks or actions are
\* handled, and at most one event of each polled source otherwise, the one that is
\* in progress included.
EventsInv ==
  /\ pc \notin {"fire", "events", "ended"} => events = {}
  /\ pc \in {"fire", "events"} => \A e \in events : e.id \in polled
  /\ \A e, f \in events : e.id = f.id => e = f
  /\ \A e \in events : e.id = WAKER /\ Failed(e) => "waker" \in Faults
  /\ reading # {} => pc \in {"events", "ended"}
  /\ \A id \in reading : id \in polled /\ reading = {id} /\ \A e \in events : e.id # id

\* The inductive invariant of the resources: what one phase of the loop leaves
\* behind is what the next one relies on.
ResourceInv ==
  /\ pc = "ended" <=> status # "running"
  /\ BooksInv
  /\ EventsInv

\* What PollNotLate rests on, already while the interests are being set: from
\* any moment on, the time left to wait reaches no further than each deadline,
\* but for the slip.
TimeInv ==
  pc \in {"interests", "poll"} /\ timeout > 0 =>
    \A t \in timeouts : clock + timeout <= t + slip

Running == pc \notin {"start", "ended"}

\* A queued event always concerns the waker or a resource the service still
\* has lent to the reactor: nothing is delivered after a handover or a
\* disconnect, no matter what happened since poll reported it.  It depends on
\* draining the queue before any action is handled.
EventsOnlyForLent ==
  Running =>
    \A id \in {e.id : e \in events} \cup reading :
      id # WAKER => lent[id] \in {"listener", "transport"}

\* While poll blocks, each resource is armed for exactly the events it asks
\* for now, also when it has just dropped an interest or was just registered.
PollsCurrentInterests ==
  pc = "poll" => \A id \in listeners \cup transports : armed[id] = wants[id]

\* An event has not gone stale when the reactor takes it up: whatever other events,
\* the timers and their callbacks did since poll reported it, the resource still
\* wants all of it.  Only its own write may make the read that follows unwanted.
EventsWanted ==
  \A e \in events : e.id # WAKER => e.revents \subseteq wants[e.id] \cup {"fail"}

\* What the thread may panic from where it is: a system time before the epoch, the
\* subtraction of deadlines that do not fit, a failing waker that poll reported, a
\* write to a transport that is not ready or breaks the contract of write_or_buf,
\* or a callback of the service.
PanicCause ==
  \/ pc \in {"timeout", "fire"} /\ clock < 0
  \/ pc = "timeout" /\ OverflowChecks /\ \E t \in timeouts : t >= U64
  \/ pc = "events" /\ "waker" \in Faults /\ \E e \in events : e.id = WAKER
  \/ /\ pc = "actions" /\ transports # {}
     /\ "notready" \in Faults \/ (DebugAsserts /\ "transient" \in Faults)
  \/ pc \in {"fire", "events", "drain", "actions"} /\ "service" \in Faults

\* The thread never panics for another reason: not because of an event that outlived
\* its resource, nor of timestamps that fit into u64, whoever moves the clock.
PanicsForCause == [][status' = "panicked" /\ status # "panicked" => PanicCause]_vars

\* An id is never given out twice, so a stale id never names a newer resource.
IdsNotReused ==
  [][\A id \in Ids : id \in polled' /\ id \notin polled => lent[id] = "none"]_vars

\* No timer is lost: every deadline that handle_timer has not answered, by a call
\* at that time or later, is still pending, also when the clock was set back.
TimerKept == asked \subseteq timeouts

\* handle_timer is called only when some deadline has been reached, and never
\* while a deadline it should have taken stays behind.
TimerNotEarly ==
  [][alarm' # alarm => /\ \E t \in timeouts : t <= clock
                       /\ \A t \in timeouts' : t > clock]_vars

\* While poll has time left to block no deadline has passed, but for the time
\* lost between computing the timeout and entering poll.
PollNotLate == pc = "poll" /\ timeout > 0 => \A t \in timeouts : t + slip > clock

\* Every deadline the clock reaches is followed by a handle_timer call, also
\* when poll was entered long after the timeout had been computed.
TimersFire ==
  \A t \in 0..MaxTime : (t \in asked) ~> (t \notin asked \/ status # "running")

\* Alarms is what the timers promise: a deadline is owed until a handle_timer call
\* at or after it, none is made without one, and while one is due it comes.
A == INSTANCE Alarms WITH owed <- asked, bell <- alarm, up <- (status = "running")

AlarmsKept == A!Spec

\* Custody is what the reactor promises about resources: lent once, back at most
\* once, every reported event attended to first, unless the loop ends.
C == INSTANCE Custody WITH owner <- lent,
                           noticed <- ({e.id : e \in events} \ {WAKER}) \cup reading,
                           up <- (status = "running")

CustodyKept == C!Spec

\* The actions the service has ready at launch are collected without the help
\* of a command, an event or a timeout: Spec does not let time pass.
LaunchServed == <>(pc = "actions" \/ status # "running" \/ launch = "failed")

(***************************************************************************)
(* What the documentation says and the code does not do; each is refuted   *)
(* by a run of its own.                                                    *)
(***************************************************************************)

\* reactor.rs:39, of WAIT_TIMEOUT: "Maximum amount of time to wait for I/O".
WaitBounded == timeout <= WaitTimeout

\* reactor.rs:101, of SetTimer: "Set a new timer for a given duration from this
\* moment", the moment the action is handled.
TimerFromThisMoment ==
  [][\A t \in asked' \ asked : \E d \in Durations : t = clock + d]_vars

\* timeouts.rs:57, of as_millis: "We have enough space in a `u64` to store a unix
\* timestamp in millisecond precision for millions of years": the timeout is the
\* distance to the first deadline ahead, as if nothing were truncated.
MillisSuffice ==
  [][/\ pc = "timeout" /\ pc' # pc
     /\ timeouts # {} /\ First(timeouts) >= clock /\ clock >= 0
     =>
       pc' = "interests" /\ timeout' = First(timeouts) - clock]_vars

\* resource.rs:123, of write_atomic: "Panics on invalid write_or_buf
\* implementation": a resource that returns what it should have buffered is never
\* taken for one that failed.
TransientPanics ==
  Faults = {"transient"} => \A id \in Ids : lent[id] # "failed"
=============================================================================
