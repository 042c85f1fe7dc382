---------------------------- MODULE ReactorProofs ----------------------------
(***************************************************************************)
(* Theorems about the event loop, for any number of handles, commands,     *)
(* registrations and timers, any interests and any external failure.       *)
(***************************************************************************)
EXTENDS Reactor, ControlProofs, TimerProofs

(* Every step of the loop is of one of a few forms, whatever caused it.    *)

\* The thread panics, with or without an event taken from the queue.
Dies ==
  /\ pc # "start"
  /\ Crash
  /\ events' \subseteq events
  /\ events' # events =>
       \E e \in events : /\ e.id = WAKER \/ e.id \notin listeners \cup transports
                         /\ events' = events \ {e}
  /\ UNCHANGED <<polled, armed, nextId>>

\* ComputeTimeout without a panic.
Computes ==
  /\ pc = "timeout"
  /\ ~ NowFails(clock)
  /\ pc' = "interests"
  /\ timeout' = NextExpiringFrom(timeouts, clock, WaitTimeout)
  /\ slip' = 0
  /\ UNCHANGED <<controlVars, pollerVars, resourceVars, clock, steps, now, timerVars>>

\* poll returns without an event, or a phase ends.
Advances ==
  /\ \/ pc = "poll" /\ pc' = "fire"
     \/ pc = "events" /\ events = {} /\ reading = {} /\ pc' \in {"drain", "actions"}
     \/ pc = "actions" /\ pc' = "timeout"
  /\ UNCHANGED <<controlVars, pollerVars, resourceVars, clockVars, timerVars>>

\* Fire without a panic.
Fires ==
  /\ pc = "fire"
  /\ ~ NowFails(clock)
  /\ now' = clock
  /\ timeouts' = Unexpired(timeouts, clock)
  /\ IF Expired(timeouts, clock) # {}
     THEN alarm' = ~alarm /\ asked' = {t \in asked : t > clock}
     ELSE UNCHANGED <<alarm, asked>>
  /\ pc' = "events"
  /\ timeout' = 0 /\ slip' = 0
  /\ UNCHANGED <<controlVars, pollerVars, resourceVars, clock, steps>>

\* An event is taken up: of the waker, or of a resource.
TakesUp(e) ==
  /\ pc = "events"
  /\ reading = {}
  /\ WakerEvent(e) \/ ResourceEvent(e) \/ Disconnect(e)

\* The read of an event whose write has been handled.
Reads == pc = "events" /\ ReadAfterWrite

\* A resource leaves the loop in handle_actions, for either reason.
GivesBack(id) ==
  /\ pc = "actions"
  /\ id \in listeners \cup transports
  /\ \E how \in {"returned", "failed"} : GiveBack(id, how)
  /\ UNCHANGED <<controlVars, events, pc, clockVars, timerVars>>

LEMMA LoopCases ==
  ASSUME LoopStep
  PROVE  \/ Dies \/ Start \/ Computes \/ SetInterests \/ Advances \/ Fires
         \/ Reads \/ \E e \in events : TakesUp(e)
         \/ DrainStep \/ DropRuntime
<1>1. CASE ComputeTimeout
  <2>1. CASE NowFails(clock) \/ (OverflowChecks /\ Underflows(timeouts, clock))
    <3>1. pc = "timeout" /\ Crash /\ UNCHANGED pollerVars
      BY <1>1, <2>1, Zenon DEF ComputeTimeout
    <3>. QED
      BY <3>1 DEF Dies, pollerVars
  <2>2. CASE ~ (NowFails(clock) \/ (OverflowChecks /\ Underflows(timeouts, clock)))
    BY <1>1, <2>2, Zenon DEF ComputeTimeout, Computes
  <2>. QED
    BY <2>1, <2>2
<1>2. CASE HandleEvent
  BY <1>2 DEF HandleEvent, EventPanics, Take, Dies, Reads, TakesUp
<1>4. CASE Fire
  <2>1. CASE NowFails(clock)
    <3>1. pc = "fire" /\ Crash /\ UNCHANGED pollerVars
      BY <1>4, <2>1, Zenon DEF Fire
    <3>. QED
      BY <3>1 DEF Dies, pollerVars
  <2>2. CASE ~ NowFails(clock)
    BY <1>4, <2>2, Zenon DEF Fire, Fires
  <2>. QED
    BY <2>1, <2>2
<1>3. CASE PollTimesOut \/ EventsDone \/ ActionsDone
  BY <1>3 DEF PollTimesOut, EventsDone, ActionsDone, Advances
<1>. QED
  BY <1>1, <1>2, <1>3, <1>4 DEF LoopStep

LEMMA ActionCases ==
  ASSUME HandleAction
  PROVE  \/ Dies \/ RegisterListener \/ RegisterTransport
         \/ \E id \in Ids : GivesBack(id) \/ SendOk(id)
         \/ \E duration \in Durations : SetTimer(duration)
<1>1. ASSUME NEW id \in Ids, UnregisterListener(id) \/ UnregisterTransport(id) \/ SendIoError(id)
      PROVE  GivesBack(id)
  BY <1>1 DEF UnregisterListener, UnregisterTransport, HandOver, SendIoError, GivesBack
<1>2. ASSUME NEW id \in Ids, SendNotReady(id)
      PROVE  Dies
  BY <1>2 DEF SendNotReady, Dies, pollerVars
<1>3. ASSUME NEW id \in Ids, SendTransient(id)
      PROVE  Dies \/ GivesBack(id)
  <2>1. CASE DebugAsserts
    <3>1. pc = "actions" /\ Crash /\ UNCHANGED pollerVars
      BY <1>3, <2>1, Zenon DEF SendTransient
    <3>. QED
      BY <3>1 DEF Dies, pollerVars
  <2>2. CASE ~ DebugAsserts
    BY <1>3, <2>2, Zenon DEF SendTransient, GivesBack
  <2>. QED
    BY <2>1, <2>2
<1>. QED
  BY <1>1, <1>2, <1>3 DEF HandleAction

LEMMA NextCases ==
  ASSUME [Next]_vars
  PROVE  \/ Dies \/ Start \/ Computes \/ SetInterests \/ Advances \/ Fires
         \/ Reads \/ \E e \in events : TakesUp(e)
         \/ DrainStep \/ DropRuntime \/ PollReady
         \/ RegisterListener \/ RegisterTransport
         \/ \E id \in Ids : GivesBack(id) \/ SendOk(id)
         \/ \E duration \in Durations : SetTimer(duration)
         \/ OtherThreads \/ Tick \/ SetClock \/ UNCHANGED vars
<1>1. CASE PollFails
  BY <1>1 DEF PollFails, Advances
<1>2. CASE ServicePanics
  BY <1>2 DEF ServicePanics, Dies, pollerVars
<1>3. CASE LoopStep
  BY <1>3, LoopCases
<1>4. CASE HandleAction
  BY <1>4, ActionCases
<1>. QED
  BY <1>1, <1>2, <1>3, <1>4 DEF Next

-----------------------------------------------------------------------------
(* The loop implements the control path.                                   *)

\* Every step of the loop is a step of the control path or leaves it alone.
LEMMA ControlStep ==
  ASSUME [Next]_vars
  PROVE  [ControlNext]_controlVars
<1>1. CASE Dies
  BY <1>1 DEF Dies, Crash, ControlNext
<1>2. CASE Start \/ Computes \/ SetInterests \/ Advances \/ Fires \/ PollReady
  BY <1>2 DEF Start, Computes, SetInterests, Advances, Fires, PollReady
<1>3. ASSUME NEW e, TakesUp(e)
      PROVE  [ControlNext]_controlVars
  BY <1>3 DEF TakesUp, WakerEvent, ResourceEvent, HandleIo, Disconnect, ControlNext
<1>4. CASE Reads \/ DrainStep \/ DropRuntime
  BY <1>4 DEF Reads, ReadAfterWrite, HandleIo, DrainStep, DropRuntime, ControlNext, Drain
<1>5. CASE RegisterListener \/ RegisterTransport
  BY <1>5 DEF RegisterListener, RegisterTransport
<1>6. ASSUME NEW id, GivesBack(id) \/ SendOk(id)
      PROVE  [ControlNext]_controlVars
  BY <1>6 DEF GivesBack, SendOk
<1>7. ASSUME NEW duration, SetTimer(duration)
      PROVE  [ControlNext]_controlVars
  BY <1>7 DEF SetTimer
<1>8. CASE OtherThreads \/ Tick \/ SetClock \/ UNCHANGED vars
  BY <1>8 DEF OtherThreads, Tick, SetClock, vars, ControlNext
<1>. QED
  BY <1>1, <1>2, <1>3, <1>4, <1>5, <1>6, <1>7, <1>8, NextCases

\* The event loop implements the safety part of the abstract control path.
THEOREM ReactorImplementsControl == Safety => ControlSafety
<1>1. Init => ControlInit
  BY DEF Init
<1>2. [Next]_vars => [ControlNext]_controlVars
  BY ControlStep
<1>. QED
  BY <1>1, <1>2, PTL DEF Safety, ControlSafety

\* In the event loop too no wake-up is lost, as long as wake() does not fail.
THEOREM ReactorLosesNoWakeup == Safety => []NoLostWakeup
  BY ReactorImplementsControl, WakeupNeverLost, PTL

\* In the event loop too the service has got exactly the commands sent before
\* the first Shutdown when run() returns because of it.
THEOREM ReactorShutdownParts == Safety => []ShutdownIsBarrier
  BY ReactorImplementsControl, ShutdownParts, PTL

\* In the event loop too each command reaches the service once and in its turn.
THEOREM ReactorCommandsInOrder == Safety => CommandsInOrder
  BY ReactorImplementsControl, CommandsArriveInOrder, PTL

-----------------------------------------------------------------------------
(* Types.                                                                  *)

LEMMA TypeInit == Init => TypeOK
<1>. SUFFICES ASSUME Init PROVE TypeOK
  OBVIOUS
<1>1. ControlTypeOK
  BY ControlTypeInit DEF Init
<1>2. PollerTypeOK
  BY PollerAssumption DEF Init, PollerInit, PollerTypeOK, Ids
<1>3. LoopTypeOK
  <2>1. alarm \in BOOLEAN
    BY Zenon DEF Init
  <2>2. steps \in 0..MaxSteps
    BY ReactorAssumption DEF Init
  <2>3. lent \in [Ids -> {"none", "listener", "transport", "returned", "failed"}]
    BY DEF Init
  <2>. QED
    BY <2>1, <2>2, <2>3 DEF Init, LoopTypeOK, Labels
<1>. QED
  BY <1>1, <1>2, <1>3 DEF TypeOK

\* Removing events, and nothing else, keeps the types of the poller.
LEMMA FewerEvents ==
  ASSUME PollerTypeOK, events' \subseteq events, UNCHANGED <<polled, armed, nextId>>
  PROVE  PollerTypeOK'
  BY DEF PollerTypeOK

LEMMA UnregisterType ==
  ASSUME PollerTypeOK, NEW id \in Ids, Unregister(id), events' \subseteq events
  PROVE  PollerTypeOK'
  BY DEF PollerTypeOK, Unregister

LEMMA RegisterType ==
  ASSUME PollerTypeOK, Register({"read"})
  PROVE  PollerTypeOK' /\ nextId \in Ids
  BY PollerAssumption DEF PollerTypeOK, Register, Ids, Io

LEMMA PollerTypeStep ==
  ASSUME TypeOK, [Next]_vars
  PROVE  PollerTypeOK'
<1>0. PollerTypeOK /\ LoopTypeOK
  BY DEF TypeOK
<1>1. CASE UNCHANGED pollerVars
  BY <1>0, <1>1, FewerEvents DEF pollerVars
<1>2. CASE Start
  BY <1>0, <1>2 DEF Start, RegisterWaker, PollerTypeOK
<1>3. CASE SetInterests
  BY <1>0, <1>3 DEF SetInterests, SetInterest, Rearmed, PollerTypeOK, LoopTypeOK
<1>4. CASE PollReady
  <2>1. PICK rev \in [polled -> SUBSET Flags] : Report(rev)
    BY <1>4 DEF PollReady
  <2>. QED
    BY <1>0, <2>1 DEF Report, PollerTypeOK, Event
<1>5. ASSUME NEW e \in events, Disconnect(e)
      PROVE  PollerTypeOK'
  <2>1. e.id \in Ids /\ Unregister(e.id) /\ events' \subseteq events
    BY <1>0, <1>5 DEF Disconnect, GiveBack, LoopTypeOK, Take
  <2>. QED
    BY <1>0, <2>1, UnregisterType
<1>6. ASSUME NEW e \in events, WakerEvent(e) \/ ResourceEvent(e)
      PROVE  PollerTypeOK'
  BY <1>0, <1>6, FewerEvents DEF WakerEvent, ResourceEvent, HandleIo, Take
<1>7. CASE RegisterListener \/ RegisterTransport
  BY <1>0, <1>7, RegisterType DEF RegisterListener, RegisterTransport
<1>8. ASSUME NEW id \in Ids, GivesBack(id)
      PROVE  PollerTypeOK'
  BY <1>0, <1>8, UnregisterType DEF GivesBack, GiveBack
<1>9. CASE Dies \/ Reads
  BY <1>0, <1>9, FewerEvents DEF Dies, Reads, ReadAfterWrite, HandleIo
<1>10. CASE \/ Computes \/ Advances \/ Fires \/ DrainStep \/ DropRuntime
            \/ OtherThreads \/ Tick \/ SetClock \/ UNCHANGED vars
            \/ \E id \in Ids : SendOk(id)
            \/ \E duration \in Durations : SetTimer(duration)
  <2>. UNCHANGED pollerVars
    BY <1>10 DEF Computes, Advances, Fires, DrainStep, DropRuntime, OtherThreads, Tick,
                 SetClock, vars, SendOk, SetTimer
  <2>. QED
    BY <1>1
<1>. QED
  BY <1>2, <1>3, <1>4, <1>5, <1>6, <1>7, <1>8, <1>9, <1>10, NextCases DEF TakesUp

LEMMA LoopTypeStep ==
  ASSUME TypeOK, [Next]_vars
  PROVE  LoopTypeOK'
<1>0. LoopTypeOK
  BY DEF TypeOK
<1>. USE ReactorAssumption DEF LoopTypeOK
<1>1. CASE /\ UNCHANGED <<resourceVars, clockVars, timerVars>>
           /\ pc' \in Labels
  BY <1>0, <1>1 DEF resourceVars, clockVars, timerVars
<1>2. CASE Computes
  <2>1. clock \in Nat
    BY <1>0, <1>2 DEF Computes, NowFails
  <2>2. NextExpiringFrom(timeouts, clock, WaitTimeout) \in Nat
    BY <1>0, <2>1, NextExpiringNeverLate
  <2>. QED
    BY <1>0, <1>2, <2>2 DEF Computes, resourceVars, timerVars, Labels
<1>3. CASE Fires
  <2>1. /\ now' = clock /\ timeouts' \subseteq timeouts /\ asked' \subseteq asked
        /\ pc' = "events" /\ alarm' \in {alarm, ~alarm}
        /\ timeout' = 0 /\ slip' = 0
        /\ UNCHANGED <<resourceVars, clock, steps>>
    BY <1>3 DEF Fires, Unexpired
  <2>2. clock \in Nat
    BY <1>0, <1>3 DEF Fires, NowFails
  <2>. QED
    BY <1>0, <2>1, <2>2 DEF Labels, resourceVars
<1>4. ASSUME NEW e \in events, TakesUp(e)
      PROVE  LoopTypeOK'
  <2>1. CASE WakerEvent(e)
    BY <1>0, <1>1, <2>1 DEF WakerEvent
  <2>2. CASE ResourceEvent(e)
    BY <1>0, <2>2 DEF ResourceEvent, HandleIo, clockVars, timerVars
  <2>3. CASE Disconnect(e)
    BY <1>0, <2>3 DEF Disconnect, GiveBack, clockVars, timerVars
  <2>. QED
    BY <1>4, <2>1, <2>2, <2>3 DEF TakesUp
<1>5. CASE RegisterListener \/ RegisterTransport
  <2>1. nextId \in Ids
    BY <1>5, RegisterType DEF RegisterListener, RegisterTransport, TypeOK
  <2>. QED
    BY <1>0, <1>5, <2>1 DEF RegisterListener, RegisterTransport, clockVars, timerVars
<1>6. ASSUME NEW id \in Ids, SendOk(id) \/ GivesBack(id)
      PROVE  LoopTypeOK'
  <2>1. CASE SendOk(id)
    BY <1>0, <2>1 DEF SendOk, clockVars, timerVars
  <2>2. CASE GivesBack(id)
    BY <1>0, <2>2 DEF GivesBack, GiveBack, clockVars, timerVars
  <2>. QED
    BY <1>6, <2>1, <2>2
<1>7. ASSUME NEW duration \in Durations, SetTimer(duration)
      PROVE  LoopTypeOK'
  <2>1. now + duration \in Nat
    BY <1>0
  <2>. QED
    BY <1>0, <1>7, <2>1 DEF SetTimer, SetTimeout, resourceVars, clockVars
<1>8. CASE Tick
  BY <1>0, <1>8 DEF Tick, resourceVars, timerVars
<1>9. CASE SetClock
  <2>1. clock \in Int /\ slip \in Nat /\ steps \in 0..MaxSteps
    BY <1>0
  <2>2. clock' \in Int /\ steps' \in 0..MaxSteps
    BY <1>9, <2>1 DEF SetClock
  <2>3. slip' \in Nat
    <3>1. slip' = slip \/ (clock' > clock /\ slip' = slip + (clock' - clock))
      BY <1>9, Zenon DEF SetClock
    <3>. QED
      BY <2>1, <2>2, <3>1
  <2>4. UNCHANGED <<pc, resourceVars, now, timeout, timerVars>>
    BY <1>9 DEF SetClock
  <2>. QED
    BY <1>0, <2>2, <2>3, <2>4 DEF resourceVars, timerVars
<1>10. CASE Reads
  <2>1. PICK id \in reading : HandleIo(id)
    BY <1>10 DEF Reads, ReadAfterWrite
  <2>. QED
    BY <1>0, <1>10, <2>1 DEF Reads, ReadAfterWrite, HandleIo, clockVars, timerVars
<1>11. CASE \/ Dies \/ Start \/ SetInterests \/ Advances \/ DrainStep \/ DropRuntime
            \/ PollReady \/ OtherThreads \/ UNCHANGED vars
  <2>1. UNCHANGED <<resourceVars, clockVars, timerVars>>
    BY <1>11 DEF Dies, Start, SetInterests, Advances, DrainStep, DropRuntime, PollReady,
                 OtherThreads, vars, Crash
  <2>2. pc' \in Labels
    BY <1>0, <1>11 DEF Dies, Start, SetInterests, Advances, DrainStep, DropRuntime, PollReady,
                       OtherThreads, vars, Crash, Labels
  <2>. QED
    BY <1>1, <2>1, <2>2
<1>. QED
  BY <1>2, <1>3, <1>4, <1>5, <1>6, <1>7, <1>8, <1>9, <1>11, <1>10, NextCases

LEMMA TypeStep ==
  ASSUME TypeOK, [Next]_vars
  PROVE  TypeOK'
  BY ControlStep, ControlTypeStep, PollerTypeStep, LoopTypeStep DEF TypeOK

\* All variables keep their types.  Of all the steps the one that is not obvious
\* computes the timeout: NextExpiringNeverLate shows that it is never negative.
THEOREM TypeCorrect == Safety => []TypeOK
  BY TypeInit, TypeStep, PTL DEF Safety

-----------------------------------------------------------------------------
(* Resources.                                                              *)

\* Panic is the only way out of the loop besides a received Shutdown.
LEMMA PhaseStep ==
  ASSUME ResourceInv, [Next]_vars
  PROVE  (pc = "ended" <=> status # "running")'
<1>0. pc = "ended" <=> status # "running"
  BY DEF ResourceInv
<1>1. CASE Dies
  BY <1>1 DEF Dies, Crash, Panic
<1>2. CASE Start \/ Computes \/ SetInterests \/ Advances \/ Fires \/ PollReady
  BY <1>0, <1>2 DEF Start, Computes, SetInterests, Advances, Fires, PollReady, controlVars
<1>3. ASSUME NEW e, TakesUp(e)
      PROVE  (pc = "ended" <=> status # "running")'
  BY <1>0, <1>3
     DEF TakesUp, WakerEvent, ResourceEvent, HandleIo, Disconnect, ResetWaker, controlVars
<1>4. CASE DrainStep
  BY <1>0, <1>4 DEF DrainStep, RecvCmd, RecvShutdown, RecvEmpty
<1>5. CASE DropRuntime
  BY <1>0, <1>5 DEF DropRuntime, DropReceiver
<1>6. CASE RegisterListener \/ RegisterTransport
  BY <1>0, <1>6 DEF RegisterListener, RegisterTransport, controlVars
<1>7. ASSUME NEW id, GivesBack(id) \/ SendOk(id)
      PROVE  (pc = "ended" <=> status # "running")'
  BY <1>0, <1>7 DEF GivesBack, SendOk, controlVars
<1>8. ASSUME NEW duration, SetTimer(duration)
      PROVE  (pc = "ended" <=> status # "running")'
  BY <1>0, <1>8 DEF SetTimer, controlVars
<1>9. CASE OtherThreads
  BY <1>0, <1>9
     DEF OtherThreads, Launch, LaunchWake, LaunchFails, Join, JoinReturns, CallerNext, CmdSend,
         ShutdownSend, ShutdownOrphan, Wake, WakeFails
<1>10. CASE Reads \/ Tick \/ SetClock \/ UNCHANGED vars
  BY <1>0, <1>10 DEF Reads, ReadAfterWrite, HandleIo, Tick, SetClock, vars, controlVars
<1>. QED
  BY <1>1, <1>2, <1>3, <1>4, <1>5, <1>6, <1>7, <1>8, <1>9, <1>10, NextCases

Whereabouts == {"none", "listener", "transport", "returned", "failed"}

\* Taking a resource out of its map and the poll set keeps the books in order.
LEMMA GiveBackBooks ==
  ASSUME TypeOK, BooksInv, NEW id \in listeners \cup transports,
         NEW how \in {"returned", "failed"}, GiveBack(id, how),
         pc # "start", pc' # "start"
  PROVE  BooksInv'
<1>1. /\ listeners' = listeners \ {id} /\ transports' = transports \ {id}
      /\ polled' = polled \ {id} /\ nextId' = nextId
      /\ lent' = [lent EXCEPT ![id] = how]
  BY DEF GiveBack, Unregister
<1>2. id \in Ids /\ id # WAKER /\ lent \in [Ids -> Whereabouts]
  BY PollerAssumption DEF TypeOK, LoopTypeOK, Ids, WAKER, Whereabouts
<1>3. lent[id] \in {"listener", "transport"}
  BY <1>2 DEF BooksInv
<1>. QED
  BY <1>1, <1>2, <1>3 DEF BooksInv, Whereabouts

LEMMA BooksStep ==
  ASSUME TypeOK, ResourceInv, [Next]_vars
  PROVE  BooksInv'
<1>0. BooksInv
  BY DEF ResourceInv
<1>1. CASE /\ UNCHANGED <<polled, nextId, listeners, transports, lent>>
           /\ pc # "start" /\ pc' # "start"
  BY <1>0, <1>1 DEF BooksInv
<1>2. CASE Start
  BY <1>0, <1>2 DEF Start, RegisterWaker, BooksInv, resourceVars
<1>3. ASSUME NEW e \in events, pc = "events", Disconnect(e)
      PROVE  BooksInv'
  <2>1. GiveBack(e.id, "failed") /\ e.id \in listeners \cup transports /\ pc' = pc
    BY <1>3 DEF Disconnect
  <2>. QED
    BY <1>0, <1>3, <2>1, GiveBackBooks
<1>4. CASE RegisterListener \/ RegisterTransport
  <2>1. nextId \in Ids /\ polled' = polled \cup {nextId} /\ nextId' = nextId + 1
    BY <1>4 DEF RegisterListener, RegisterTransport, Register
  <2>2. lent[nextId] = "none" /\ pc # "start" /\ pc' # "start"
    BY <1>0, <1>4, <2>1, PollerAssumption DEF RegisterListener, RegisterTransport, BooksInv, Ids
  <2>3. lent \in [Ids -> Whereabouts] /\ nextId \in Nat
    BY <2>1, PollerAssumption DEF TypeOK, LoopTypeOK, Ids, Whereabouts
  <2>4. ASSUME NEW kind \in {"listener", "transport"}, lent' = [lent EXCEPT ![nextId] = kind]
        PROVE  \A id \in Ids : id >= nextId' <=> lent'[id] = "none"
    BY <1>0, <2>1, <2>3, <2>4, PollerAssumption DEF BooksInv, Ids
  <2>5. CASE RegisterListener
    BY <1>0, <2>1, <2>2, <2>3, <2>4, <2>5 DEF RegisterListener, BooksInv
  <2>6. CASE RegisterTransport
    BY <1>0, <2>1, <2>2, <2>3, <2>4, <2>6 DEF RegisterTransport, BooksInv
  <2>. QED
    BY <1>4, <2>5, <2>6
<1>5. ASSUME NEW id \in Ids, GivesBack(id)
      PROVE  BooksInv'
  <2>1. /\ id \in listeners \cup transports /\ pc = "actions" /\ pc' = "actions"
        /\ \E how \in {"returned", "failed"} : GiveBack(id, how)
    BY <1>5 DEF GivesBack
  <2>. QED
    BY <1>0, <2>1, GiveBackBooks
<1>6. CASE OtherThreads \/ Tick \/ SetClock \/ UNCHANGED vars
  BY <1>0, <1>6 DEF OtherThreads, Tick, SetClock, vars, pollerVars, resourceVars, BooksInv
<1>7. ASSUME NEW e \in events, pc = "events", WakerEvent(e) \/ ResourceEvent(e)
      PROVE  BooksInv'
  BY <1>1, <1>7 DEF WakerEvent, ResourceEvent, HandleIo, resourceVars
<1>8. CASE \/ Dies \/ Reads \/ Computes \/ SetInterests \/ Advances \/ Fires
           \/ DrainStep \/ DropRuntime \/ PollReady
           \/ \E id \in Ids : SendOk(id)
           \/ \E duration \in Durations : SetTimer(duration)
  <2>1. UNCHANGED <<polled, nextId, listeners, transports, lent>>
    BY <1>8
       DEF Dies, Crash, Reads, ReadAfterWrite, HandleIo, Computes, SetInterests, SetInterest,
           Advances, Fires, DrainStep, DropRuntime, PollReady, Report, SendOk, SetTimer, pollerVars, resourceVars
  <2>2. pc # "start" /\ pc' # "start"
    BY <1>8 DEF Dies, Crash, Reads, ReadAfterWrite, HandleIo, Computes, SetInterests, Advances,
                Fires, DrainStep, DropRuntime, PollReady, SendOk, SetTimer
  <2>. QED
    BY <1>1, <2>1, <2>2
<1>. QED
  BY <1>2, <1>3, <1>4, <1>5, <1>6, <1>7, <1>8, NextCases DEF TakesUp

LEMMA EventsStep ==
  ASSUME TypeOK, ResourceInv, [Next]_vars
  PROVE  EventsInv'
<1>0. EventsInv /\ BooksInv
  BY DEF ResourceInv
<1>1. CASE /\ events' = events /\ reading' = reading /\ pc' # "events" /\ pc' # "fire"
           /\ \/ events = {} /\ reading = {}
              \/ pc' = "ended" /\ polled' = polled
  BY <1>0, <1>1 DEF EventsInv
<1>2. CASE PollReady
  <2>1. PICK rev \in [polled -> SUBSET Flags] :
          Report(rev) /\ \A id \in polled : rev[id] \in Reportable(id)
    BY <1>2 DEF PollReady
  <2>2. /\ events = {} /\ pc' = "fire" /\ polled' = polled /\ reading' = {}
        /\ events' = {[id |-> i, revents |-> rev[i]] : i \in {j \in polled : rev[j] # {}}}
    BY <1>0, <1>2, <2>1 DEF PollReady, Report, EventsInv, resourceVars
  <2>3. \A e \in events' : e.id \in polled /\ e.revents = rev[e.id]
    BY <2>2
  <2>4. \A e, f \in events' : e.id = f.id => e = f
    BY <2>2
  <2>5. \A e \in events' : e.id = WAKER /\ Failed(e) => "waker" \in Faults
    BY <2>1, <2>3 DEF Reportable, Failed
  <2>. QED
    BY <2>2, <2>3, <2>4, <2>5 DEF EventsInv, Failed
<1>3. CASE Advances
  BY <1>0, <1>3 DEF Advances, pollerVars, resourceVars, EventsInv
<1>4. CASE Fires
  BY <1>0, <1>4 DEF Fires, pollerVars, resourceVars, EventsInv
<1>5. ASSUME NEW e \in events, TakesUp(e)
      PROVE  EventsInv'
  <2>1. events' = events \ {e} /\ pc = "events" /\ pc' = "events" /\ e.id \in polled
    BY <1>0, <1>5 DEF TakesUp, WakerEvent, ResourceEvent, HandleIo, Disconnect, Take, EventsInv
  <2>2. \/ reading' = {} /\ (polled' = polled \/ polled' = polled \ {e.id})
        \/ reading' = {e.id} /\ polled' = polled
    BY <1>5
       DEF TakesUp, WakerEvent, ResourceEvent, HandleIo, Disconnect, GiveBack, Unregister,
           resourceVars
  <2>3. \A f \in events' : f.id # e.id
    BY <1>0, <2>1 DEF EventsInv
  <2>. QED
    BY <1>0, <2>1, <2>2, <2>3 DEF EventsInv, Failed
<1>6. CASE Reads
  BY <1>0, <1>6 DEF Reads, ReadAfterWrite, HandleIo, EventsInv, Failed
<1>7. CASE Dies
  BY <1>0, <1>7 DEF Dies, Crash, EventsInv, Failed, resourceVars
<1>8. CASE \/ Start \/ Computes \/ SetInterests \/ DrainStep \/ DropRuntime
           \/ RegisterListener \/ RegisterTransport
           \/ \E id \in Ids : GivesBack(id) \/ SendOk(id)
           \/ \E duration \in Durations : SetTimer(duration)
  <2>1. events' = events /\ reading' = reading /\ pc' # "events" /\ pc' # "fire"
    BY <1>8
       DEF Start, RegisterWaker, Computes, SetInterests, SetInterest, DrainStep, DropRuntime,
           RegisterListener, RegisterTransport, Register, GivesBack, GiveBack, SendOk, SetTimer,
           pollerVars, resourceVars
  <2>2. \/ events = {} /\ reading = {}
        \/ pc' = "ended" /\ polled' = polled
    BY <1>0, <1>8
       DEF EventsInv, Start, Computes, SetInterests, DrainStep, DropRuntime, RegisterListener,
           RegisterTransport, GivesBack, SendOk, SetTimer, pollerVars
  <2>. QED
    BY <1>1, <2>1, <2>2
<1>9. CASE OtherThreads \/ Tick \/ SetClock \/ UNCHANGED vars
  BY <1>0, <1>9 DEF OtherThreads, Tick, SetClock, vars, pollerVars, resourceVars, EventsInv
<1>. QED
  BY <1>2, <1>3, <1>4, <1>5, <1>7, <1>8, <1>9, <1>6, NextCases

LEMMA ResourceInit == Init => ResourceInv
  BY PollerAssumption
     DEF Init, ControlInit, PollerInit, ResourceInv, BooksInv, EventsInv, Ids

LEMMA ResourceStep ==
  ASSUME TypeOK, ResourceInv, [Next]_vars
  PROVE  ResourceInv'
  BY PhaseStep, BooksStep, EventsStep DEF ResourceInv

\* The inductive invariant of the resources, and the queue of their events.
THEOREM ResourcesCorrect == Safety => []ResourceInv
  BY TypeCorrect, ResourceInit, ResourceStep, PTL DEF Safety

\* No event is ever delivered for a resource the service has got back.
THEOREM EventsCorrect == Safety => []EventsOnlyForLent
<1>1. TypeOK /\ ResourceInv => EventsOnlyForLent
  BY DEF TypeOK, LoopTypeOK, ResourceInv, BooksInv, EventsInv, EventsOnlyForLent, Running
<1>. QED
  BY <1>1, TypeCorrect, ResourcesCorrect, PTL

\* An id is never given out twice.
THEOREM IdsUnique == Safety => IdsNotReused
<1>1. TypeOK /\ ResourceInv /\ [Next]_vars
      => [\A id \in Ids : id \in polled' /\ id \notin polled => lent[id] = "none"]_vars
  <2>. SUFFICES ASSUME TypeOK, ResourceInv, [Next]_vars,
                       NEW id \in Ids, id \in polled', id \notin polled
                PROVE  lent[id] = "none"
    OBVIOUS
  <2>1. CASE Start
    BY <2>1, PollerAssumption DEF Start, RegisterWaker, Ids, WAKER
  <2>2. CASE RegisterListener \/ RegisterTransport
    <3>1. id = nextId
      BY <2>2 DEF RegisterListener, RegisterTransport, Register
    <3>. QED
      BY <3>1, PollerAssumption DEF ResourceInv, BooksInv, Ids
  <2>3. CASE ~ (Start \/ RegisterListener \/ RegisterTransport)
    <3>. polled' \subseteq polled
      BY <2>3, NextCases
         DEF Dies, Computes, SetInterests, SetInterest, Advances, Fires, TakesUp, WakerEvent,
             ResourceEvent, HandleIo, Reads, ReadAfterWrite, Disconnect, GiveBack, Unregister, DrainStep, DropRuntime, PollReady,
             Report, GivesBack, SendOk, SetTimer, OtherThreads, Tick, SetClock, vars, pollerVars
    <3>. QED
      OBVIOUS
  <2>. QED
    BY <2>1, <2>2, <2>3
<1>. QED
  BY <1>1, TypeCorrect, ResourcesCorrect, PTL DEF Safety, IdsNotReused

-----------------------------------------------------------------------------
(* Interests.                                                              *)

LEMMA RearmedExactly ==
  ASSUME NEW old \in SUBSET Io, NEW interest \in SUBSET Io
  PROVE  Rearmed(old, interest) = interest
  BY DEF Rearmed

\* Only set_interest comes between any other step and the poll.
LEMMA InterestsStep ==
  ASSUME TypeOK, PollsCurrentInterests, [Next]_vars
  PROVE  PollsCurrentInterests'
<1>. USE DEF PollsCurrentInterests
<1>1. CASE SetInterests
  <2>1. /\ UNCHANGED <<listeners, transports, wants>>
        /\ \A id \in listeners \cup transports : armed'[id] = Rearmed(armed[id], wants[id])
    BY <1>1 DEF SetInterests, SetInterest, resourceVars, TypeOK, LoopTypeOK
  <2>2. \A id \in listeners \cup transports : armed[id] \in SUBSET Io /\ wants[id] \in SUBSET Io
    BY DEF TypeOK, LoopTypeOK, PollerTypeOK
  <2>. QED
    BY <2>1, <2>2, RearmedExactly
<1>2. CASE OtherThreads \/ Tick \/ SetClock \/ UNCHANGED vars
  BY <1>2 DEF OtherThreads, Tick, SetClock, vars, pollerVars, resourceVars
<1>3. CASE ~ (SetInterests \/ OtherThreads \/ Tick \/ SetClock \/ UNCHANGED vars)
  <2>. pc' # "poll"
    BY <1>3, NextCases
       DEF Dies, Crash, Start, Computes, Advances, Fires, TakesUp, WakerEvent, ResourceEvent,
           HandleIo, Reads, ReadAfterWrite, Disconnect,
           DrainStep, DropRuntime, PollReady, RegisterListener, RegisterTransport, GivesBack,
           SendOk, SetTimer
  <2>. QED
    OBVIOUS
<1>. QED
  BY <1>1, <1>2, <1>3

\* While poll blocks each resource is armed for what it wants.
THEOREM InterestsCurrent == Safety => []PollsCurrentInterests
<1>1. Init => PollsCurrentInterests
  BY DEF Init, PollsCurrentInterests
<1>. QED
  BY <1>1, TypeCorrect, InterestsStep, PTL DEF Safety

\* What is reported is wanted when it is reported, and a resource has but one
\* event, so that only the call of handle_io for it can change what it wants.
LEMMA WantedStep ==
  ASSUME TypeOK, ResourceInv, ResourceInv', PollsCurrentInterests, EventsWanted, [Next]_vars
  PROVE  EventsWanted'
<1>0. EventsInv /\ BooksInv /\ EventsInv'
  BY DEF ResourceInv
<1>. USE DEF EventsWanted
<1>1. CASE wants' = wants /\ events' \subseteq events
  BY <1>1
<1>2. CASE PollReady
  <2>1. PICK rev \in [polled -> SUBSET Flags] :
          Report(rev) /\ \A id \in polled : rev[id] \in Reportable(id)
    BY <1>2 DEF PollReady
  <2>2. /\ events = {} /\ wants' = wants
        /\ events' = {[id |-> i, revents |-> rev[i]] : i \in {j \in polled : rev[j] # {}}}
    BY <1>0, <1>2, <2>1 DEF PollReady, Report, EventsInv, resourceVars
  <2>3. SUFFICES ASSUME NEW e \in events', e.id # WAKER
                 PROVE  e.revents \subseteq wants[e.id] \cup {"fail"}
    BY <2>2
  <2>4. e.id \in polled /\ e.revents = rev[e.id]
    BY <2>2
  <2>5. e.revents \subseteq armed[e.id] \cup {"fail"}
    BY <2>1, <2>3, <2>4 DEF Reportable
  <2>6. armed[e.id] = wants[e.id]
    BY <1>0, <1>2, <2>3, <2>4 DEF PollReady, PollsCurrentInterests, BooksInv
  <2>. QED
    BY <2>5, <2>6
<1>3. ASSUME NEW e \in events, ResourceEvent(e) \/ Disconnect(e)
      PROVE  EventsWanted'
  <2>1. events' = events \ {e}
    BY <1>3 DEF ResourceEvent, Disconnect, Take
  <2>2. \A f \in events' : f.id # e.id
    BY <1>0, <2>1 DEF EventsInv
  <2>3. \A id : id # e.id /\ id \in Ids => wants'[id] = wants[id]
    BY <1>3 DEF ResourceEvent, HandleIo, Disconnect, GiveBack, TypeOK, LoopTypeOK
  <2>4. \A f \in events' : f \in Event
    BY <2>1 DEF TypeOK, PollerTypeOK
  <2>. QED
    BY <2>1, <2>2, <2>3, <2>4 DEF Event
<1>4. CASE Reads
  <2>1. PICK id \in reading : HandleIo(id)
    BY <1>4 DEF Reads, ReadAfterWrite
  <2>2. events' = events /\ \A e \in events : e.id # id
    BY <1>0, <1>4, <2>1 DEF Reads, ReadAfterWrite, EventsInv
  <2>3. \A i : i # id /\ i \in Ids => wants'[i] = wants[i]
    BY <2>1 DEF HandleIo, TypeOK, LoopTypeOK
  <2>4. \A e \in events' : e \in Event
    BY <2>2 DEF TypeOK, PollerTypeOK
  <2>. QED
    BY <2>2, <2>3, <2>4 DEF Event
<1>5. CASE pc = "actions" /\ events' = events
  BY <1>0, <1>5 DEF EventsInv
<1>6. CASE \/ Dies \/ Start \/ Computes \/ SetInterests \/ Advances \/ Fires
           \/ DrainStep \/ DropRuntime \/ OtherThreads \/ Tick \/ SetClock \/ UNCHANGED vars
           \/ \E e \in events : WakerEvent(e)
  <2>. wants' = wants /\ events' \subseteq events
    BY <1>6
       DEF Dies, Crash, Start, RegisterWaker, Computes, SetInterests, SetInterest, Advances, Fires,
           DrainStep, DropRuntime, OtherThreads, Tick, SetClock, vars, WakerEvent, Take,
           pollerVars, resourceVars
  <2>. QED
    BY <1>1
<1>7. CASE \/ RegisterListener \/ RegisterTransport
           \/ \E id \in Ids : GivesBack(id) \/ SendOk(id)
           \/ \E duration \in Durations : SetTimer(duration)
  BY <1>5, <1>7
     DEF RegisterListener, RegisterTransport, Register, GivesBack, SendOk, SetTimer, pollerVars
<1>. QED
  BY <1>2, <1>3, <1>6, <1>7, <1>4, NextCases DEF TakesUp

\* No event goes stale in the queue: what one handler does, or the read of its own
\* event, changes the interests of no resource with an event still ahead.
THEOREM EventsStayWanted == Safety => []EventsWanted
<1>1. Init => EventsWanted
  BY DEF Init, PollerInit, EventsWanted
<1>. QED
  BY <1>1, TypeCorrect, ResourcesCorrect, InterestsCurrent, WantedStep, PTL DEF Safety

-----------------------------------------------------------------------------
(* Timers.                                                                 *)

\* Only Fires and SetTimer touch the timers.
LEMMA TimersUntouched ==
  ASSUME [Next]_vars
  PROVE  Fires \/ (\E duration \in Durations : SetTimer(duration)) \/ UNCHANGED timerVars
  BY NextCases
     DEF Dies, Crash, Start, Computes, SetInterests, Advances, TakesUp, WakerEvent,
         ResourceEvent, HandleIo, Reads, ReadAfterWrite, Disconnect, DrainStep, DropRuntime, PollReady, RegisterListener, RegisterTransport,
         GivesBack, SendOk, OtherThreads, Tick, SetClock, vars

\* Every deadline not answered is pending.
LEMMA KeptStep ==
  ASSUME TypeOK, TimerKept, [Next]_vars
  PROVE  TimerKept'
<1>0. clock \in Int /\ timeouts \subseteq Nat /\ asked \subseteq Nat
  BY DEF TypeOK, LoopTypeOK
<1>. USE DEF TimerKept
<1>1. CASE UNCHANGED timerVars
  BY <1>1 DEF timerVars
<1>2. CASE Fires
  <2>1. /\ timeouts' = Unexpired(timeouts, clock)
        /\ asked' \subseteq asked
        /\ Expired(timeouts, clock) # {} => \A t \in asked' : t > clock
    BY <1>2 DEF Fires
  <2>2. \A t \in timeouts : t \in Expired(timeouts, clock) \/ t \in Unexpired(timeouts, clock)
    BY <1>0 DEF Expired, Unexpired, SplitPoint
  <2>3. \A t \in Expired(timeouts, clock) : t <= clock
    BY <1>0 DEF Expired, SplitPoint
  <2>. QED
    BY <1>0, <2>1, <2>2, <2>3
<1>3. ASSUME NEW duration \in Durations, SetTimer(duration)
      PROVE  TimerKept'
  BY <1>3 DEF SetTimer, SetTimeout
<1>. QED
  BY <1>1, <1>2, <1>3, TimersUntouched

LEMMA OneTick ==
  ASSUME NEW before \in Int, NEW after \in Int, NEW left \in Nat,
         NEW deadline \in Nat, NEW late \in Nat,
         before + left <= deadline + late, after <= before + 1
  PROVE  /\ after + left <= deadline + (late + 1)
         /\ left > 0 => after + (left - 1) <= deadline + late
  OBVIOUS

LEMMA OneJump ==
  ASSUME NEW before \in Int, NEW after \in Int, NEW left \in Nat,
         NEW deadline \in Nat, NEW late \in Nat,
         before + left <= deadline + late
  PROVE  /\ after > before => after + left <= deadline + (late + (after - before))
         /\ after <= before => after + left <= deadline + late
  OBVIOUS

\* The time a poll may still take, against the deadlines.
LEMMA TimeStep ==
  ASSUME TypeOK, TimeInv, [Next]_vars
  PROVE  TimeInv'
<1>0. /\ clock \in Int /\ timeout \in Nat /\ slip \in Nat /\ WaitTimeout \in Nat
      /\ timeouts \subseteq Nat
  BY ReactorAssumption DEF TypeOK, LoopTypeOK
<1>. USE DEF TimeInv
<1>1. CASE pc' \notin {"interests", "poll"}
  BY <1>1
<1>2. CASE Computes
  <2>. DEFINE wait == NextExpiringFrom(timeouts, clock, WaitTimeout)
  <2>1. timeout' = wait /\ slip' = 0 /\ UNCHANGED <<clock, timerVars>> /\ clock \in Nat
    BY <1>0, <1>2 DEF Computes, NowFails
  <2>2. wait \in Nat /\ (wait > 0 => \A t \in timeouts : clock + wait <= t)
    BY <1>0, <2>1, NextExpiringNeverLate
  <2>. HIDE DEF wait
  <2>. QED
    BY <1>0, <2>1, <2>2 DEF timerVars
<1>3. CASE SetInterests
  BY <1>3 DEF SetInterests, clockVars, timerVars
<1>4. CASE Tick
  <2>1. /\ UNCHANGED <<pc, timeouts>> /\ clock' \in {clock, clock + 1}
        /\ slip' = IF pc = "interests" THEN slip + 1 ELSE slip
        /\ timeout' = IF pc = "poll" /\ timeout > 0 THEN timeout - 1 ELSE timeout
    BY <1>4 DEF Tick, timerVars
  <2>2. SUFFICES ASSUME pc \in {"interests", "poll"}, timeout' > 0, NEW t \in timeouts
                 PROVE  clock' + timeout' <= t + slip'
    BY <2>1
  <2>3. t \in Nat /\ timeout > 0 /\ clock + timeout <= t + slip
    BY <1>0, <2>1, <2>2
  <2>4. clock' \in Int /\ clock' <= clock + 1
    BY <1>0, <2>1
  <2>5. CASE pc = "interests"
    <3>1. timeout' = timeout /\ slip' = slip + 1
      BY <2>1, <2>5
    <3>. QED
      BY <1>0, <2>3, <2>4, <3>1, OneTick
  <2>6. CASE pc = "poll"
    <3>1. timeout' = timeout - 1 /\ slip' = slip
      BY <2>1, <2>3, <2>6
    <3>. QED
      BY <1>0, <2>3, <2>4, <3>1, OneTick
  <2>. QED
    BY <2>2, <2>5, <2>6
<1>5. CASE SetClock
  <2>1. UNCHANGED <<pc, timeouts, timeout>> /\ clock' \in Int
    BY <1>5, ReactorAssumption DEF SetClock, timerVars
  <2>2. SUFFICES ASSUME pc \in {"interests", "poll"}, timeout > 0, NEW t \in timeouts
                 PROVE  clock' + timeout <= t + slip'
    BY <2>1
  <2>3. t \in Nat /\ clock + timeout <= t + slip
    BY <1>0, <2>2
  <2>4. CASE clock' > clock
    <3>1. slip' = slip + (clock' - clock)
      BY <1>5, <2>2, <2>4, Zenon DEF SetClock
    <3>. QED
      BY <1>0, <2>1, <2>3, <2>4, <3>1, OneJump
  <2>5. CASE ~ (clock' > clock)
    <3>1. slip' = slip
      BY <1>5, <2>5, Zenon DEF SetClock
    <3>2. clock' <= clock
      BY <1>0, <2>1, <2>5
    <3>. QED
      BY <1>0, <2>1, <2>3, <3>1, <3>2, OneJump
  <2>. QED
    BY <2>4, <2>5
<1>6. CASE OtherThreads \/ UNCHANGED vars
  BY <1>6 DEF OtherThreads, vars, clockVars, timerVars
<1>7. CASE ~ (Computes \/ SetInterests \/ Tick \/ SetClock \/ OtherThreads \/ UNCHANGED vars)
  BY <1>1, <1>7, NextCases
     DEF Dies, Crash, Start, Advances, Fires, TakesUp, WakerEvent, ResourceEvent, HandleIo,
         Reads, ReadAfterWrite, Disconnect, DrainStep,
         DropRuntime, PollReady, RegisterListener, RegisterTransport, GivesBack, SendOk, SetTimer
<1>. QED
  BY <1>2, <1>3, <1>4, <1>5, <1>6, <1>7

\* The inductive invariant of the timers.
THEOREM TimeCorrect == Safety => []TimeInv
<1>1. Init => TimeInv
  BY DEF Init, TimeInv
<1>. QED
  BY <1>1, TypeCorrect, TimeStep, PTL DEF Safety

\* No timer is lost.
THEOREM TimersKept == Safety => []TimerKept
<1>1. Init => TimerKept
  BY DEF Init, TimerKept
<1>. QED
  BY <1>1, TypeCorrect, KeptStep, PTL DEF Safety

\* A blocked poll never outlasts a deadline by more than the time that went by
\* between computing its timeout and entering it, whatever as_millis truncates.
THEOREM PollsInTime == Safety => []PollNotLate
<1>1. TypeOK /\ TimeInv => PollNotLate
  <2>. SUFFICES ASSUME TypeOK, TimeInv, pc = "poll", timeout > 0, NEW t \in timeouts
                PROVE  t + slip > clock
    BY DEF PollNotLate
  <2>1. clock + timeout <= t + slip
    BY DEF TimeInv
  <2>. QED
    BY <2>1 DEF TypeOK, LoopTypeOK
<1>. QED
  BY <1>1, TypeCorrect, TimeCorrect, PTL

\* The service is called for timers only when one is due, and then for all.
THEOREM TimersNotEarly == Safety => TimerNotEarly
<1>1. TypeOK /\ [Next]_vars
      => [alarm' # alarm => /\ \E t \in timeouts : t <= clock
                            /\ \A t \in timeouts' : t > clock]_vars
  <2>. SUFFICES ASSUME TypeOK, [Next]_vars, alarm' # alarm
                PROVE  /\ \E t \in timeouts : t <= clock
                       /\ \A t \in timeouts' : t > clock
    OBVIOUS
  <2>1. Fires
    BY TimersUntouched DEF SetTimer, timerVars
  <2>2. clock \in Int /\ timeouts \subseteq Nat
    BY DEF TypeOK, LoopTypeOK
  <2>3. timeouts' = Unexpired(timeouts, clock) /\ Expired(timeouts, clock) # {}
    BY <2>1, Zenon DEF Fires
  <2>4. \A t \in timeouts' : t > clock
    BY <2>2, <2>3 DEF Unexpired, SplitPoint
  <2>5. \A t \in Expired(timeouts, clock) : t \in timeouts /\ t <= clock
    BY <2>2 DEF Expired, SplitPoint
  <2>. QED
    BY <2>3, <2>4, <2>5
<1>. QED
  BY <1>1, TypeCorrect, PTL DEF Safety, TimerNotEarly
=============================================================================
