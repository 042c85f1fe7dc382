---------------------------- MODULE PromiseProofs ----------------------------
(***************************************************************************)
(* The event loop keeps what Mailbox, Alarms and Custody promise: every    *)
(* step of it is a step of theirs, or invisible to them.                   *)
(***************************************************************************)
EXTENDS ReactorProofs

(* Mailbox.                                                                *)

\* The loop keeps the promise to the Controllers (its safety part), because the
\* control path does.
THEOREM ReactorImplementsMailbox == Safety => M!Safety
  BY ReactorImplementsControl, ControlImplementsMailbox, PTL

-----------------------------------------------------------------------------
(* Alarms.                                                                 *)

\* Ring is allowed only while something is owed, so that the pending deadlines
\* have to be exactly those owed: none is kept after it has been answered.
OwedArePending == asked = timeouts

LEMMA SplitsAtClock ==
  ASSUME timeouts \subseteq Nat, clock \in Int
  PROVE  /\ Expired(timeouts, clock) = {t \in timeouts : t <= clock}
         /\ Unexpired(timeouts, clock) = {t \in timeouts : t > clock}
<1>1. \A t \in timeouts : (t < clock + 1 <=> t <= clock) /\ (t >= clock + 1 <=> t > clock)
  OBVIOUS
<1>. QED
  BY <1>1, Zenon DEF Expired, Unexpired, SplitPoint

LEMMA OwedStep ==
  ASSUME TypeOK, OwedArePending, [Next]_vars
  PROVE  OwedArePending'
<1>0. clock \in Int /\ timeouts \subseteq Nat
  BY DEF TypeOK, LoopTypeOK
<1>. USE DEF OwedArePending
<1>1. CASE UNCHANGED timerVars
  BY <1>1 DEF timerVars
<1>2. CASE Fires
  <2>0. timeouts' = Unexpired(timeouts, clock)
    BY <1>2, Zenon DEF Fires
  <2>1. timeouts' = {t \in timeouts : t > clock}
    BY <1>0, <2>0, SplitsAtClock
  <2>2. CASE Expired(timeouts, clock) # {}
    <3>1. asked' = {t \in asked : t > clock}
      BY <1>2, <2>2, Zenon DEF Fires
    <3>. QED
      BY <2>1, <3>1
  <2>3. CASE Expired(timeouts, clock) = {}
    <3>1. asked' = asked
      BY <1>2, <2>3, Zenon DEF Fires
    <3>2. \A t \in timeouts : t > clock
      BY <1>0, <2>3, SplitsAtClock
    <3>. QED
      BY <2>1, <3>1, <3>2
  <2>. QED
    BY <2>2, <2>3
<1>3. ASSUME NEW duration \in Durations, SetTimer(duration)
      PROVE  OwedArePending'
  BY <1>3 DEF SetTimer, SetTimeout
<1>. QED
  BY <1>1, <1>2, <1>3, TimersUntouched

LEMMA OwedPending == Safety => []OwedArePending
<1>1. Init => OwedArePending
  BY DEF Init, OwedArePending
<1>. QED
  BY <1>1, TypeCorrect, OwedStep, PTL DEF Safety

\* What Alarms sees of a step that is neither Fires nor SetTimer.
LEMMA UpOrDown ==
  ASSUME ResourceInv, [Next]_vars
  PROVE  \/ (status = "running")' = (status = "running")
         \/ status = "running" /\ status' # "running" /\ (Dies \/ DrainStep)
<1>0. pc = "ended" <=> status # "running"
  BY DEF ResourceInv
<1>1. CASE Dies
  BY <1>1 DEF Dies, Crash, Panic
<1>2. CASE DrainStep
  BY <1>0, <1>2 DEF DrainStep, RecvCmd, RecvShutdown, RecvEmpty
<1>3. CASE DropRuntime
  BY <1>0, <1>3 DEF DropRuntime, DropReceiver
<1>4. CASE OtherThreads
  BY <1>4
     DEF OtherThreads, Launch, LaunchWake, LaunchFails, Join, JoinReturns, CallerNext, CmdSend,
         ShutdownSend, ShutdownOrphan, Wake, WakeFails
<1>5. CASE ~ (Dies \/ DrainStep \/ DropRuntime \/ OtherThreads)
  <2>. status' = status
    BY <1>5, NextCases
       DEF Start, Computes, SetInterests, Advances, Fires, TakesUp, WakerEvent, ResetWaker,
           ResourceEvent, HandleIo, Reads, ReadAfterWrite, Disconnect, PollReady, RegisterListener, RegisterTransport, GivesBack, SendOk,
           SetTimer, Tick, SetClock, vars, controlVars
  <2>. QED
    OBVIOUS
<1>. QED
  BY <1>1, <1>2, <1>3, <1>4, <1>5

LEMMA AlarmStep ==
  ASSUME TypeOK, ResourceInv, OwedArePending, [Next]_vars
  PROVE  [A!Next]_(A!alarmVars)
<1>0. /\ clock \in Int /\ timeouts \subseteq Nat
      /\ pc = "ended" <=> status # "running"
  BY DEF TypeOK, LoopTypeOK, ResourceInv
<1>1. CASE Fires
  <2>0. clock' = clock /\ status' = status /\ status = "running"
    BY <1>0, <1>1 DEF Fires, controlVars
  <2>1. CASE Expired(timeouts, clock) # {}
    <3>1. alarm' = ~ alarm /\ asked' = {t \in asked : t > clock}
      BY <1>1, <2>1, Zenon DEF Fires
    <3>0. A!Due = {t \in timeouts : t <= clock}
      BY DEF A!Due, OwedArePending
    <3>2. A!Due # {}
      BY <1>0, <2>1, <3>0, SplitsAtClock
    <3>3. asked' = asked \ A!Due
      <4>1. \A t \in asked : t > clock <=> ~ (t <= clock)
        BY <1>0 DEF OwedArePending
      <4>2. \A t : t \in asked' <=> t \in asked /\ t \notin A!Due
        BY <3>0, <3>1, <4>1 DEF OwedArePending
      <4>. QED
        BY <4>2
    <3>. QED
      BY <2>0, <3>1, <3>2, <3>3, Zenon DEF A!Next, A!Ring
  <2>2. CASE Expired(timeouts, clock) = {}
    <3>1. alarm' = alarm /\ asked' = asked
      BY <1>1, <2>2, Zenon DEF Fires
    <3>. QED
      BY <2>0, <3>1, Zenon DEF A!alarmVars
  <2>. QED
    BY <2>1, <2>2
<1>2. ASSUME NEW duration \in Durations, SetTimer(duration)
      PROVE  [A!Next]_(A!alarmVars)
  <2>1. /\ asked' = asked \cup {now + duration}
        /\ clock' = clock /\ alarm' = alarm /\ status' = status /\ status = "running"
    BY <1>0, <1>2 DEF SetTimer, controlVars, clockVars
  <2>2. now + duration \in asked'
    BY <2>1
  <2>. QED
    BY <2>1, <2>2, Zenon DEF A!Next, A!Ask
<1>3. CASE UNCHANGED timerVars
  <2>0. asked' = asked /\ alarm' = alarm
    BY <1>3 DEF timerVars
  <2>1. CASE Tick \/ SetClock
    <3>1. clock' \in Int
      BY <1>0, <2>1, ReactorAssumption DEF Tick, SetClock
    <3>2. status' = status
      BY <2>1 DEF Tick, SetClock, controlVars
    <3>. QED
      BY <2>0, <3>1, <3>2, Zenon DEF A!Next, A!Pass
  <2>2. CASE ~ (Tick \/ SetClock)
    <3>1. clock' = clock
      BY <2>2, NextCases
         DEF Dies, Crash, Start, Computes, SetInterests, Advances, Fires, TakesUp, WakerEvent,
             ResourceEvent, HandleIo, Reads, ReadAfterWrite, Disconnect, DrainStep, DropRuntime, PollReady, RegisterListener,
             RegisterTransport, GivesBack, SendOk, SetTimer, OtherThreads, vars, clockVars
    <3>2. CASE (status = "running")' = (status = "running")
      BY <2>0, <3>1, <3>2, Zenon DEF A!alarmVars
    <3>3. CASE status = "running" /\ status' # "running"
      <4>1. (status = "running")' = FALSE
        BY <3>3
      <4>. QED
        BY <2>0, <3>1, <3>3, <4>1, Zenon DEF A!Next, A!Stop
    <3>. QED
      BY <3>2, <3>3, UpOrDown
  <2>. QED
    BY <2>1, <2>2
<1>. QED
  BY <1>1, <1>2, <1>3, TimersUntouched

\* The loop keeps the promise of the timers (its safety part).
THEOREM ReactorImplementsAlarms == Safety => A!Safety
<1>1. Init => A!Init
  BY DEF Init, ControlInit, A!Init
<1>2. TypeOK /\ ResourceInv /\ OwedArePending /\ [Next]_vars => [A!Next]_(A!alarmVars)
  BY AlarmStep
<1>. QED
  BY <1>1, <1>2, TypeCorrect, ResourcesCorrect, OwedPending, PTL DEF Safety, A!Safety

-----------------------------------------------------------------------------
(* Custody.                                                                *)

Noticed == ({e.id : e \in events} \ {WAKER}) \cup reading

\* A resource is attended to once all its event asks for has been done; it has but
\* one event.
LEMMA AttendStep ==
  ASSUME TypeOK, ResourceInv, NEW e \in events, TakesUp(e), e.id # WAKER
  PROVE  C!Attend(e.id) \/ (Noticed' = Noticed /\ UNCHANGED <<lent, status>>)
<1>0. pc = "events" /\ reading = {} /\ (ResourceEvent(e) \/ Disconnect(e))
  BY DEF TakesUp, WakerEvent
<1>1. e.id \in Ids
  BY <1>0 DEF ResourceEvent, Disconnect, TypeOK, LoopTypeOK
<1>2. status = "running" /\ status' = status
  BY <1>0 DEF ResourceInv, ResourceEvent, HandleIo, Disconnect, controlVars
<1>3. e.id \in Noticed
  BY DEF Noticed
<1>4. {f.id : f \in events'} = {f.id : f \in events} \ {e.id}
  <2>1. events' = events \ {e}
    BY <1>0 DEF ResourceEvent, Disconnect, Take
  <2>2. \A f \in events : f.id = e.id => f = e
    BY DEF ResourceInv, EventsInv
  <2>. QED
    BY <2>1, <2>2
<1>5. CASE reading' = {e.id}
  <2>1. Noticed' = Noticed
    BY <1>0, <1>3, <1>4, <1>5 DEF Noticed
  <2>2. lent' = lent
    BY <1>0, <1>5 DEF ResourceEvent, HandleIo, Disconnect, GiveBack
  <2>. QED
    BY <1>2, <2>1, <2>2
<1>6. CASE reading' = {}
  <2>1. Noticed' = Noticed \ {e.id}
    BY <1>0, <1>4, <1>6 DEF Noticed
  <2>2. lent' \in {lent, [lent EXCEPT ![e.id] = "failed"]}
    BY <1>0 DEF ResourceEvent, HandleIo, Disconnect, GiveBack
  <2>. QED
    BY <1>2, <1>3, <2>1, <2>2, Zenon DEF C!Attend, Noticed
<1>. QED
  BY <1>0, <1>5, <1>6 DEF ResourceEvent, Disconnect, GiveBack

LEMMA ReadStep ==
  ASSUME TypeOK, ResourceInv, Reads
  PROVE  \E id \in Ids : C!Attend(id)
<1>1. PICK id \in reading : HandleIo(id)
  BY DEF Reads, ReadAfterWrite
<1>2. id \in Ids /\ id # WAKER
  BY <1>1, PollerAssumption DEF TypeOK, LoopTypeOK, Ids, WAKER
<1>3. status = "running" /\ UNCHANGED <<lent, status>>
  BY <1>1 DEF Reads, ResourceInv, HandleIo, controlVars
<1>4. id \in Noticed /\ Noticed' = Noticed \ {id}
  <2>1. reading = {id} /\ reading' = {} /\ events' = events /\ \A e \in events : e.id # id
    BY <1>1 DEF Reads, ReadAfterWrite, ResourceInv, EventsInv
  <2>. QED
    BY <2>1 DEF Noticed
<1>. QED
  BY <1>2, <1>3, <1>4, Zenon DEF C!Attend, Noticed

LEMMA NoticeStep ==
  ASSUME TypeOK, ResourceInv, PollReady
  PROVE  C!Notice
<1>1. PICK rev \in [polled -> SUBSET Flags] : Report(rev)
  BY DEF PollReady
<1>2. /\ pc = "poll" /\ UNCHANGED <<lent, status, reading>>
      /\ status = "running" /\ reading = {}
  BY DEF PollReady, ResourceInv, EventsInv, controlVars, resourceVars
<1>3. Noticed = {}
  BY <1>2 DEF Noticed, ResourceInv, EventsInv
<1>4. Noticed' \subseteq polled \ {WAKER}
  BY <1>1, <1>2 DEF Noticed, Report, ResourceInv, EventsInv
<1>5. polled \ {WAKER} \subseteq C!Lent
  BY <1>2 DEF ResourceInv, BooksInv, C!Lent, C!Kinds
<1>. QED
  BY <1>2, <1>3, <1>4, <1>5, Zenon DEF C!Notice, Noticed

LEMMA LendStep ==
  ASSUME TypeOK, ResourceInv, RegisterListener \/ RegisterTransport
  PROVE  nextId \in Ids /\ C!Lend(nextId)
<1>1. /\ pc = "actions" /\ nextId \in Ids /\ status = "running"
      /\ UNCHANGED <<events, reading, status>>
  BY DEF RegisterListener, RegisterTransport, Register, ResourceInv, controlVars
<1>2. lent[nextId] = "none"
  BY <1>1 DEF ResourceInv, BooksInv, Ids
<1>3. \E kind \in C!Kinds : lent' = [lent EXCEPT ![nextId] = kind]
  BY DEF RegisterListener, RegisterTransport, C!Kinds
<1>4. Noticed' = Noticed
  BY <1>1 DEF Noticed
<1>. QED
  BY <1>1, <1>2, <1>3, <1>4, Zenon DEF C!Lend, Noticed

LEMMA ReturnStep ==
  ASSUME TypeOK, ResourceInv, NEW id \in Ids, GivesBack(id)
  PROVE  C!Return(id)
<1>1. pc = "actions" /\ UNCHANGED <<events, reading, status>> /\ status = "running"
  BY DEF GivesBack, GiveBack, ResourceInv, controlVars
<1>2. id \in C!Lent
  BY DEF GivesBack, ResourceInv, BooksInv, C!Lent, C!Kinds
<1>3. Noticed = {} /\ Noticed' = Noticed
  BY <1>1 DEF Noticed, ResourceInv, EventsInv
<1>4. \E how \in C!Gone : lent' = [lent EXCEPT ![id] = how]
  BY DEF GivesBack, GiveBack, C!Gone
<1>5. id \in C!Lent \ Noticed
  BY <1>2, <1>3
<1>. QED
  BY <1>1, <1>3, <1>4, <1>5, Zenon DEF C!Return, Noticed

\* The loop ends, or nothing happens to any resource.
LEMMA NothingLent ==
  ASSUME ResourceInv, [Next]_vars, lent' = lent, Noticed' = Noticed
  PROVE  [C!Next]_(C!custodyVars)
<1>1. CASE (status = "running")' = (status = "running")
  BY <1>1, Zenon DEF C!custodyVars, Noticed
<1>2. CASE status = "running" /\ status' # "running"
  <2>1. (status = "running")' = FALSE
    BY <1>2
  <2>. QED
    BY <1>2, <2>1, Zenon DEF C!Next, C!Stop, Noticed
<1>. QED
  BY <1>1, <1>2, UpOrDown

LEMMA CustodyStep ==
  ASSUME TypeOK, ResourceInv, [Next]_vars
  PROVE  [C!Next]_(C!custodyVars)
<1>1. ASSUME NEW e \in events, TakesUp(e), e.id # WAKER
      PROVE  [C!Next]_(C!custodyVars)
  <2>1. e.id \in Ids
    BY <1>1 DEF TakesUp, WakerEvent, ResourceEvent, Disconnect, TypeOK, LoopTypeOK
  <2>2. CASE C!Attend(e.id)
    BY <2>1, <2>2, Zenon DEF C!Next
  <2>3. CASE Noticed' = Noticed /\ UNCHANGED <<lent, status>>
    BY <2>3, NothingLent
  <2>. QED
    BY <1>1, <2>2, <2>3, AttendStep
<1>2. CASE PollReady
  BY <1>2, NoticeStep, Zenon DEF C!Next
<1>3. CASE RegisterListener \/ RegisterTransport
  BY <1>3, LendStep, Zenon DEF C!Next
<1>4. ASSUME NEW id \in Ids, GivesBack(id)
      PROVE  [C!Next]_(C!custodyVars)
  BY <1>4, ReturnStep, Zenon DEF C!Next
<1>5. ASSUME NEW e \in events, TakesUp(e), e.id = WAKER
      PROVE  lent' = lent /\ Noticed' = Noticed
  <2>1. e.id \notin listeners \cup transports
    BY <1>5, PollerAssumption DEF TypeOK, LoopTypeOK, Ids, WAKER
  <2>2. events' = events \ {e} /\ lent' = lent /\ reading' = reading
    BY <1>5, <2>1 DEF TakesUp, WakerEvent, ResourceEvent, Disconnect, Take, resourceVars
  <2>. QED
    BY <1>5, <2>2 DEF Noticed
<1>8. CASE Reads
  BY <1>8, ReadStep, Zenon DEF C!Next
<1>6. CASE Dies
  <2>1. lent' = lent /\ reading' = reading
    BY <1>6 DEF Dies, Crash, resourceVars
  <2>2. pc # "ended"
    BY <1>6 DEF Dies, Crash, Panic, ResourceInv
  <2>3. CASE events' # events
    <3>1. PICK e \in events : /\ e.id = WAKER \/ e.id \notin listeners \cup transports
                              /\ events' = events \ {e}
      BY <1>6, <2>3 DEF Dies
    <3>2. pc \in {"fire", "events"}
      BY <2>2, <3>1 DEF ResourceInv, EventsInv
    <3>3. e.id = WAKER
      BY <3>1, <3>2 DEF ResourceInv, EventsInv, BooksInv
    <3>. QED
      BY <2>1, <3>1, <3>3, NothingLent DEF Noticed
  <2>4. CASE events' = events
    BY <2>1, <2>4, NothingLent DEF Noticed
  <2>. QED
    BY <2>3, <2>4
<1>7. CASE \/ Start \/ Computes \/ SetInterests \/ Advances \/ Fires \/ DrainStep \/ DropRuntime
           \/ OtherThreads \/ Tick \/ SetClock \/ UNCHANGED vars
           \/ \E id \in Ids : SendOk(id)
           \/ \E duration \in Durations : SetTimer(duration)
  <2>1. lent' = lent /\ events' = events /\ reading' = reading
    BY <1>7
       DEF Start, RegisterWaker, Computes, SetInterests, SetInterest, Advances, Fires, DrainStep,
           DropRuntime, OtherThreads, Tick, SetClock, vars, SendOk, SetTimer, pollerVars,
           resourceVars
  <2>. QED
    BY <2>1, NothingLent DEF Noticed
<1>. QED
  BY <1>1, <1>2, <1>3, <1>4, <1>5, <1>6, <1>7, <1>8, NothingLent, NextCases

\* The loop keeps the promise about resources (its safety part).
THEOREM ReactorImplementsCustody == Safety => C!Safety
<1>1. Init => C!Init
  <2>. SUFFICES ASSUME Init PROVE C!Init
    OBVIOUS
  <2>1. Noticed = {}
    BY DEF Init, PollerInit, Noticed
  <2>2. lent = [id \in Ids |-> "none"] /\ (status = "running") = TRUE
    BY DEF Init, ControlInit
  <2>. QED
    BY <2>1, <2>2, Zenon DEF C!Init, Noticed
<1>2. TypeOK /\ ResourceInv /\ [Next]_vars => [C!Next]_(C!custodyVars)
  BY CustodyStep
<1>. QED
  BY <1>1, <1>2, TypeCorrect, ResourcesCorrect, PTL DEF Safety, C!Safety
=============================================================================
