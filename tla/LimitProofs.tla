----------------------------- MODULE LimitProofs -----------------------------
(***************************************************************************)
(* Under which conditions on the build, the durations and the clock the    *)
(* event loop does what its documentation says.                            *)
(***************************************************************************)
EXTENDS ReactorProofs

(* Panics.                                                                 *)

Fitting == \A t \in timeouts : t < U64

\* What fits is not truncated, so that what was compared is what is subtracted.
LEMMA NothingTruncated ==
  ASSUME timeouts \subseteq Nat, clock \in Nat, Fitting,
         timeouts # {}, First(timeouts) >= clock
  PROVE  /\ AsMillis(First(timeouts)) = First(timeouts)
         /\ AsMillis(clock) = clock
         /\ (First(timeouts) - clock) % U64 = First(timeouts) - clock
<1>. DEFINE first == First(timeouts)
<1>1. /\ clock \in Nat /\ first \in Nat /\ U64 \in Nat \ {0}
      /\ clock <= first /\ first < U64
  BY FirstIsLeast, TimerAssumption DEF Fitting
<1>. HIDE DEF first
<1>2. first % U64 = first /\ clock % U64 = clock /\ (first - clock) % U64 = first - clock
  BY <1>1
<1>. QED
  BY <1>2 DEF first, AsMillis

\* So that the subtraction does not underflow.
LEMMA FittingComputes ==
  ASSUME timeouts \subseteq Nat, clock \in Nat, Fitting
  PROVE  ~ Underflows(timeouts, clock)
<1>1. SUFFICES ASSUME timeouts # {}, First(timeouts) >= clock
               PROVE  ~ (AsMillis(First(timeouts)) < AsMillis(clock))
  BY DEF Underflows
<1>. DEFINE first == First(timeouts)
<1>2. AsMillis(first) = first /\ AsMillis(clock) = clock
  BY <1>1, NothingTruncated
<1>3. first \in Nat /\ clock \in Nat /\ first >= clock
  BY <1>1, FirstIsLeast
<1>. HIDE DEF first
<1>4. ~ (AsMillis(first) < AsMillis(clock))
  BY <1>2, <1>3
<1>. QED
  BY <1>4 DEF first

\* The step that panics, and what it needs.
LEMMA PanicStep ==
  ASSUME TypeOK, ResourceInv, [Next]_vars, status' = "panicked", status # "panicked"
  PROVE  PanicCause
<1>. USE DEF PanicCause
<1>1. CASE status' = status \/ status' # "panicked"
  BY <1>1
<1>2. CASE ComputeTimeout
  <2>0. pc = "timeout" /\ clock \in Int /\ timeouts \subseteq Nat /\ U64 \in Nat
    BY <1>2, TimerAssumption DEF ComputeTimeout, TypeOK, LoopTypeOK
  <2>1. CASE NowFails(clock)
    BY <2>0, <2>1 DEF NowFails
  <2>2. CASE OverflowChecks /\ Underflows(timeouts, clock) /\ ~ NowFails(clock)
    <3>1. clock \in Nat
      BY <2>0, <2>2 DEF NowFails
    <3>2. PICK t \in timeouts : ~ (t < U64)
      BY <2>0, <2>2, <3>1, FittingComputes DEF Fitting
    <3>3. t >= U64
      BY <2>0, <3>2
    <3>. QED
      BY <2>0, <2>2, <3>3
  <2>3. CASE ~ (NowFails(clock) \/ (OverflowChecks /\ Underflows(timeouts, clock)))
    <3>. controlVars' = controlVars
      BY <1>2, <2>3, Zenon DEF ComputeTimeout
    <3>. QED
      BY <1>1 DEF controlVars
  <2>. QED
    BY <2>1, <2>2, <2>3
<1>3. CASE HandleEvent
  <2>1. CASE ReadAfterWrite
    BY <1>1, <2>1 DEF ReadAfterWrite, HandleIo, controlVars
  <2>2. ASSUME NEW e \in events, EventPanics(e)
        PROVE  PanicCause
    <3>1. pc = "events" /\ e.id \in {WAKER} \cup listeners \cup transports
      BY <1>3 DEF HandleEvent, ResourceInv, EventsInv, BooksInv
    <3>2. e.id = WAKER /\ (Failed(e) \/ "waker" \in Faults)
      BY <2>2, <3>1 DEF EventPanics
    <3>. QED
      BY <3>1, <3>2 DEF ResourceInv, EventsInv
  <2>3. ASSUME NEW e \in events, WakerEvent(e) \/ ResourceEvent(e) \/ Disconnect(e)
        PROVE  PanicCause
    BY <1>1, <2>3 DEF WakerEvent, ResourceEvent, HandleIo, Disconnect, ResetWaker, controlVars
  <2>. QED
    BY <1>3, <2>1, <2>2, <2>3 DEF HandleEvent
<1>4. CASE ServicePanics
  BY <1>4 DEF ServicePanics
<1>5. CASE HandleAction
  <2>1. ASSUME NEW id \in Ids, SendNotReady(id)
        PROVE  PanicCause
    BY <2>1 DEF SendNotReady
  <2>2. ASSUME NEW id \in Ids, SendTransient(id)
        PROVE  PanicCause
    <3>1. CASE DebugAsserts
      BY <2>2, <3>1 DEF SendTransient
    <3>2. CASE ~ DebugAsserts
      <4>. controlVars' = controlVars
        BY <2>2, <3>2, Zenon DEF SendTransient
      <4>. QED
        BY <1>1 DEF controlVars
    <3>. QED
      BY <3>1, <3>2
  <2>3. CASE ~ \E id \in Ids : SendNotReady(id) \/ SendTransient(id)
    BY <1>1, <1>5, <2>3
       DEF HandleAction, RegisterListener, RegisterTransport, UnregisterListener,
           UnregisterTransport, HandOver, SendOk, SendIoError, SetTimer, controlVars
  <2>. QED
    BY <2>1, <2>2, <2>3
<1>6. CASE Fire
  <2>1. CASE NowFails(clock)
    BY <1>6, <2>1, Zenon DEF Fire, NowFails
  <2>2. CASE ~ NowFails(clock)
    <3>. controlVars' = controlVars
      BY <1>6, <2>2, Zenon DEF Fire
    <3>. QED
      BY <1>1 DEF controlVars
  <2>. QED
    BY <2>1, <2>2
<1>7. CASE \/ Start \/ SetInterests \/ PollTimesOut \/ EventsDone \/ ActionsDone
           \/ PollReady \/ PollFails \/ Tick \/ SetClock \/ UNCHANGED vars
  BY <1>1, <1>7
     DEF Start, SetInterests, PollTimesOut, EventsDone, ActionsDone, PollReady, PollFails,
         Tick, SetClock, vars, controlVars
<1>8. CASE DrainStep \/ DropRuntime
  BY <1>1, <1>8 DEF DrainStep, DropRuntime, DropReceiver, RecvCmd, RecvShutdown, RecvEmpty
<1>9. CASE OtherThreads
  BY <1>1, <1>9
     DEF OtherThreads, Launch, LaunchWake, LaunchFails, Join, JoinReturns, CallerNext, CmdSend,
         ShutdownSend, ShutdownOrphan, Wake, WakeFails
<1>. QED
  BY <1>2, <1>3, <1>4, <1>5, <1>6, <1>7, <1>8, <1>9 DEF Next, LoopStep

\* Whatever the build and whoever moves the clock, the thread panics only for a
\* system time before the epoch, deadlines that do not fit into u64, a failing
\* waker, what a transport or the service does, and so never for an event whose
\* resource is gone, nor for the order in which the clock and the deadlines pass.
THEOREM PanicsHaveCause == Safety => PanicsForCause
<1>1. TypeOK /\ ResourceInv /\ [Next]_vars
      => [status' = "panicked" /\ status # "panicked" => PanicCause]_vars
  BY PanicStep
<1>. QED
  BY <1>1, TypeCorrect, ResourcesCorrect, PTL DEF Safety, PanicsForCause

-----------------------------------------------------------------------------
(* Deadlines that fit into u64.                                            *)

\* No timer is set beyond the u64 milliseconds that as_millis keeps.
DurationsFit == \A duration \in Durations : MaxTime + duration < U64

DeadlinesFit ==
  /\ clock <= MaxTime
  /\ now <= MaxTime
  /\ Fitting

LEMMA FitInit == Init => DeadlinesFit
  BY ReactorAssumption DEF Init, DeadlinesFit, Fitting

LEMMA FitStep ==
  ASSUME DurationsFit, TypeOK, DeadlinesFit, [Next]_vars
  PROVE  DeadlinesFit'
<1>0. /\ clock \in Int /\ now \in Nat /\ timeouts \subseteq Nat
      /\ MaxTime \in Nat /\ U64 \in Nat /\ Durations \subseteq Nat
  BY ReactorAssumption, TimerAssumption DEF TypeOK, LoopTypeOK
<1>. USE DEF DeadlinesFit, Fitting
<1>1. CASE Fires
  <2>1. now' = clock /\ clock' = clock /\ timeouts' = Unexpired(timeouts, clock)
    BY <1>1, Zenon DEF Fires
  <2>. QED
    BY <2>1 DEF Unexpired
<1>2. ASSUME NEW duration \in Durations, SetTimer(duration)
      PROVE  DeadlinesFit'
  <2>1. now + duration < U64
    BY <1>0 DEF DurationsFit
  <2>. QED
    BY <1>2, <2>1 DEF SetTimer, SetTimeout, clockVars
<1>3. CASE Tick
  <2>1. clock' = IF clock < MaxTime THEN clock + 1 ELSE clock
    BY <1>3, Zenon DEF Tick
  <2>. QED
    BY <1>0, <1>3, <2>1 DEF Tick, timerVars
<1>4. CASE SetClock
  BY <1>0, <1>4 DEF SetClock, timerVars
<1>5. CASE UNCHANGED <<clock, now, timeouts>>
  BY <1>5
<1>. QED
  BY <1>1, <1>2, <1>3, <1>4, <1>5, NextCases
     DEF Dies, Crash, Start, Computes, SetInterests, Advances, TakesUp, WakerEvent,
         ResourceEvent, HandleIo, Reads, ReadAfterWrite, Disconnect, DrainStep, DropRuntime, PollReady, RegisterListener, RegisterTransport,
         GivesBack, SendOk, OtherThreads, vars, clockVars, timerVars

LEMMA AllFit ==
  ASSUME DurationsFit
  PROVE  Safety => []DeadlinesFit
<1>1. TypeOK /\ DeadlinesFit /\ [Next]_vars => DeadlinesFit'
  BY FitStep
<1>. QED
  BY <1>1, FitInit, TypeCorrect, PTL DEF Safety

\* Only the computation of the timeout leads out of "timeout".
LEMMA OutOfTimeout ==
  ASSUME [Next]_vars, pc = "timeout", pc' # pc
  PROVE  ComputeTimeout
<1>1. ASSUME NEW e \in events, pc = "events"
      PROVE  FALSE
  BY <1>1
<1>. QED
  BY DEF Next, LoopStep, Start, SetInterests, PollTimesOut, Fire, HandleEvent, EventsDone,
         DrainStep, DropRuntime, ActionsDone, PollReady, PollFails, HandleAction,
         RegisterListener, RegisterTransport, UnregisterListener, UnregisterTransport, HandOver,
         SendOk, SendNotReady, SendIoError, SendTransient, SetTimer, ServicePanics,
         OtherThreads, Tick, SetClock, vars

\* As long as the deadlines fit, the timeout is the distance to the first
\* deadline ahead, as the comment on as_millis has it.
THEOREM MillisSufficeWhileFitting ==
  ASSUME DurationsFit
  PROVE  Safety => MillisSuffice
<1>1. TypeOK /\ DeadlinesFit /\ [Next]_vars
      => [pc = "timeout" /\ pc' # pc /\ timeouts # {} /\ First(timeouts) >= clock
            /\ clock >= 0 =>
            pc' = "interests" /\ timeout' = First(timeouts) - clock]_vars
  <2>. SUFFICES ASSUME TypeOK, DeadlinesFit, [Next]_vars, clock >= 0,
                       pc = "timeout", pc' # pc, timeouts # {}, First(timeouts) >= clock
                PROVE  pc' = "interests" /\ timeout' = First(timeouts) - clock
    OBVIOUS
  <2>0. clock \in Nat /\ timeouts \subseteq Nat /\ Fitting
    BY DEF TypeOK, LoopTypeOK, DeadlinesFit
  <2>1. ComputeTimeout /\ ~ Underflows(timeouts, clock)
    BY <2>0, OutOfTimeout, FittingComputes
  <2>4. ~ NowFails(clock)
    BY <2>0 DEF NowFails
  <2>2. pc' = "interests" /\ timeout' = NextExpiringFrom(timeouts, clock, WaitTimeout)
    BY <2>1, <2>4, Zenon DEF ComputeTimeout
  <2>3. NextExpiringFrom(timeouts, clock, WaitTimeout) = First(timeouts) - clock
    BY <2>0, NothingTruncated DEF NextExpiringFrom
  <2>. QED
    BY <2>2, <2>3
<1>. QED
  BY <1>1, TypeCorrect, AllFit, PTL DEF Safety, MillisSuffice

-----------------------------------------------------------------------------
(* Waits no longer than WAIT_TIMEOUT.                                      *)

\* No timer is set for longer than the reactor is to wait at most.
DurationsShort == \A duration \in Durations : duration <= WaitTimeout

WaitInv ==
  /\ 0 <= clock /\ now <= clock
  /\ timeout <= WaitTimeout
  /\ \A t \in timeouts : t <= clock + WaitTimeout

LEMMA LaterSum ==
  ASSUME NEW t \in Nat, NEW before \in Nat, NEW after \in Nat, NEW wait \in Nat,
         t <= before + wait, before <= after
  PROVE  t <= after + wait
  OBVIOUS

LEMMA WaitStep ==
  ASSUME MaxSteps = 0, DurationsShort, TypeOK, WaitInv, [Next]_vars
  PROVE  WaitInv'
<1>0. /\ clock \in Nat /\ now \in Nat /\ timeout \in Nat /\ timeouts \subseteq Nat
      /\ WaitTimeout \in Nat /\ Durations \subseteq Nat /\ steps = 0
  BY ReactorAssumption DEF TypeOK, LoopTypeOK, WaitInv
<1>. USE DEF WaitInv
<1>1. CASE Fires
  <2>1. /\ now' = clock /\ clock' = clock /\ timeout' = 0
        /\ timeouts' = Unexpired(timeouts, clock)
    BY <1>1, Zenon DEF Fires
  <2>. QED
    BY <1>0, <2>1 DEF Unexpired
<1>2. ASSUME NEW duration \in Durations, SetTimer(duration)
      PROVE  WaitInv'
  <2>1. now + duration <= clock + WaitTimeout
    BY <1>0 DEF DurationsShort
  <2>. QED
    BY <1>2, <2>1 DEF SetTimer, SetTimeout, clockVars
<1>3. CASE Tick
  <2>1. /\ clock' \in {clock, clock + 1} /\ timeout' \in {timeout, timeout - 1}
        /\ UNCHANGED <<now, timeouts>>
    BY <1>3 DEF Tick, timerVars
  <2>2. clock' \in Nat /\ clock <= clock' /\ timeout' <= timeout
    BY <1>0, <2>1
  <2>3. 0 <= clock' /\ now <= clock' /\ timeout' <= WaitTimeout
    BY <1>0, <2>1, <2>2
  <2>4. ASSUME NEW t \in timeouts PROVE t <= clock' + WaitTimeout
    <3>1. t \in Nat /\ t <= clock + WaitTimeout
      BY <1>0
    <3>. QED
      BY <1>0, <2>2, <3>1, LaterSum
  <2>. QED
    BY <2>1, <2>3, <2>4
<1>4. CASE Computes
  <2>. DEFINE wait == NextExpiringFrom(timeouts, clock, WaitTimeout)
  <2>1. timeout' = wait /\ UNCHANGED <<clock, now, timeouts>>
    BY <1>4 DEF Computes, timerVars
  <2>2. wait \in Nat /\ (wait > 0 => \A t \in timeouts : clock + wait <= t)
    BY <1>0, NextExpiringNeverLate
  <2>3. timeouts = {} => wait = WaitTimeout
    BY DEF NextExpiringFrom
  <2>. HIDE DEF wait
  <2>4. wait <= WaitTimeout
    BY <1>0, <2>2, <2>3
  <2>. QED
    BY <2>1, <2>4
<1>5. CASE UNCHANGED <<clock, now, timeout, timeouts>>
  BY <1>5
<1>6. ~ SetClock
  BY <1>0 DEF SetClock
<1>. QED
  BY <1>1, <1>2, <1>3, <1>4, <1>5, <1>6, NextCases
     DEF Dies, Crash, Start, SetInterests, Advances, TakesUp, WakerEvent,
         ResourceEvent, HandleIo, Reads, ReadAfterWrite, Disconnect, DrainStep, DropRuntime, PollReady, RegisterListener, RegisterTransport,
         GivesBack, SendOk, OtherThreads, vars, clockVars, timerVars

\* While nobody sets the clock and no timer is set for longer than WAIT_TIMEOUT,
\* poll is never told to wait longer than that.
THEOREM WaitBoundedForShortTimers ==
  ASSUME MaxSteps = 0, DurationsShort
  PROVE  Safety => []WaitBounded
<1>1. Init => WaitInv
  BY ReactorAssumption DEF Init, WaitInv
<1>2. TypeOK /\ WaitInv /\ [Next]_vars => WaitInv'
  BY WaitStep
<1>3. WaitInv => WaitBounded
  BY DEF WaitInv, WaitBounded
<1>. QED
  BY <1>1, <1>2, <1>3, TypeCorrect, PTL DEF Safety

-----------------------------------------------------------------------------
(* Resources that break the contract of write_or_buf.                      *)

\* With no other fault nothing has reported a failure or lost a resource.
NothingFails ==
  Faults = {"transient"} =>
    /\ \A id \in Ids : lent[id] # "failed"
    /\ \A e \in events : e.id # WAKER => ~ Failed(e)

LEMMA NoFailureReported ==
  ASSUME Faults = {"transient"}, PollerTypeOK,
         NEW id \in polled, id # WAKER, NEW flags \in Reportable(id)
  PROVE  "fail" \notin flags
  BY DEF PollerTypeOK, Reportable, Io

LEMMA NothingFailsStep ==
  ASSUME DebugAsserts, TypeOK, NothingFails, [Next]_vars
  PROVE  NothingFails'
<1>. SUFFICES ASSUME Faults = {"transient"}
              PROVE  /\ \A id \in Ids : lent'[id] # "failed"
                     /\ \A e \in events' : e.id # WAKER => ~ Failed(e)
  BY DEF NothingFails, Failed
<1>0. /\ \A id \in Ids : lent[id] # "failed"
      /\ \A e \in events : e.id # WAKER => ~ Failed(e)
  BY DEF NothingFails
<1>1. CASE lent' = lent /\ events' \subseteq events
  BY <1>0, <1>1
<1>2. CASE PollReady
  <2>1. PICK rev \in [polled -> SUBSET Flags] :
          Report(rev) /\ \A id \in polled : rev[id] \in Reportable(id)
    BY <1>2 DEF PollReady
  <2>2. \A e \in events' : e \in events \/ (e.id \in polled /\ e.revents = rev[e.id])
    BY <2>1 DEF Report
  <2>3. \A e \in events' : e.id # WAKER => ~ Failed(e)
    BY <1>0, <2>1, <2>2, NoFailureReported DEF Failed, TypeOK
  <2>. QED
    BY <1>0, <1>2, <2>3 DEF PollReady, resourceVars
<1>3. CASE HandleAction
  <2>1. lent \in [Ids -> {"none", "listener", "transport", "returned", "failed"}]
    BY DEF TypeOK, LoopTypeOK
  <2>2. ASSUME NEW id \in Ids, NEW whereabouts, whereabouts # "failed",
               lent' = [lent EXCEPT ![id] = whereabouts], events' = events
        PROVE  /\ \A i \in Ids : lent'[i] # "failed"
               /\ \A e \in events' : e.id # WAKER => ~ Failed(e)
    BY <1>0, <2>1, <2>2
  <2>3. CASE RegisterListener \/ RegisterTransport
    BY <2>2, <2>3 DEF RegisterListener, RegisterTransport, Register
  <2>4. ASSUME NEW id \in Ids, UnregisterListener(id) \/ UnregisterTransport(id)
        PROVE  /\ \A i \in Ids : lent'[i] # "failed"
               /\ \A e \in events' : e.id # WAKER => ~ Failed(e)
    BY <2>2, <2>4 DEF UnregisterListener, UnregisterTransport, HandOver, GiveBack
  <2>5. ASSUME NEW id \in Ids, SendTransient(id)
        PROVE  lent' = lent /\ events' \subseteq events
    <3>1. Crash /\ UNCHANGED pollerVars
      BY <2>5, Zenon DEF SendTransient
    <3>. QED
      BY <3>1 DEF Crash, resourceVars, pollerVars
  <2>6. ASSUME NEW id \in Ids, SendIoError(id) \/ SendNotReady(id)
        PROVE  FALSE
    BY <2>6 DEF SendIoError, SendNotReady
  <2>7. ASSUME NEW id \in Ids, SendOk(id)
        PROVE  lent' = lent /\ events' \subseteq events
    BY <2>7 DEF SendOk, pollerVars
  <2>8. ASSUME NEW duration \in Durations, SetTimer(duration)
        PROVE  lent' = lent /\ events' \subseteq events
    BY <2>8 DEF SetTimer, resourceVars, pollerVars
  <2>. QED
    BY <1>1, <1>3, <2>3, <2>4, <2>5, <2>6, <2>7, <2>8 DEF HandleAction
<1>4. CASE HandleEvent
  <2>1. ASSUME NEW e \in events, Disconnect(e)
        PROVE  FALSE
    <3>1. e.id # WAKER
      BY <2>1, PollerAssumption DEF Disconnect, TypeOK, LoopTypeOK, Ids, WAKER
    <3>. QED
      BY <1>0, <2>1, <3>1 DEF Disconnect
  <2>2. ASSUME NEW e \in events, WakerEvent(e) \/ ResourceEvent(e) \/ EventPanics(e)
        PROVE  lent' = lent /\ events' \subseteq events
    BY <2>2 DEF WakerEvent, ResourceEvent, HandleIo, EventPanics, Take, Crash, resourceVars
  <2>3. CASE ReadAfterWrite
    BY <1>1, <2>3 DEF ReadAfterWrite, HandleIo
  <2>. QED
    BY <1>1, <1>4, <2>1, <2>2, <2>3 DEF HandleEvent
<1>5. CASE ComputeTimeout
  <2>. UNCHANGED <<lent, events>>
    BY <1>5, Zenon DEF ComputeTimeout, Crash, resourceVars, pollerVars
  <2>. QED
    BY <1>1
<1>7. CASE Fire
  <2>. UNCHANGED <<lent, events>>
    BY <1>7, Zenon DEF Fire, Crash, resourceVars, pollerVars
  <2>. QED
    BY <1>1
<1>6. CASE \/ Start \/ SetInterests \/ PollTimesOut \/ EventsDone \/ ActionsDone
           \/ PollFails \/ DrainStep \/ DropRuntime \/ ServicePanics \/ OtherThreads
           \/ Tick \/ SetClock \/ UNCHANGED vars
  BY <1>1, <1>6
     DEF Start, RegisterWaker, SetInterests, SetInterest, PollTimesOut, EventsDone,
         ActionsDone, PollFails, DrainStep, DropRuntime, ServicePanics, Crash, OtherThreads,
         Tick, SetClock, vars, resourceVars, pollerVars
<1>. QED
  BY <1>2, <1>3, <1>4, <1>5, <1>6, <1>7 DEF Next, LoopStep

\* In a debug build a resource that returns what it should have buffered is
\* never mistaken for one that failed: write_atomic panics, as documented.
THEOREM TransientPanicsInDebug ==
  ASSUME DebugAsserts
  PROVE  Safety => []TransientPanics
<1>1. Init => NothingFails
  BY DEF Init, PollerInit, NothingFails
<1>2. TypeOK /\ NothingFails /\ [Next]_vars => NothingFails'
  BY NothingFailsStep
<1>3. NothingFails => TransientPanics
  BY DEF NothingFails, TransientPanics
<1>. QED
  BY <1>1, <1>2, <1>3, TypeCorrect, PTL DEF Safety
=============================================================================
