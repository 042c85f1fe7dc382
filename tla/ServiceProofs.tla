---------------------------- MODULE ServiceProofs ----------------------------
(***************************************************************************)
(* Theorems about the event loop with a service that keeps a queue.        *)
(***************************************************************************)
EXTENDS Service, PromiseProofs, FiniteSetTheorems

QueueTypeOK == backlog \in Seq(Requests)

\* Only actions a service may ask for are ever in its queue.
LEMMA QueueTypeStep ==
  ASSUME QueueTypeOK, [ServiceNext]_allVars
  PROVE  QueueTypeOK'
<1>. USE DEF QueueTypeOK
<1>1. CASE UNCHANGED backlog
  BY <1>1
<1>2. ASSUME NEW queue \in Seq(Requests), Ask(queue)
      PROVE  QueueTypeOK'
  BY <1>2 DEF Ask
<1>3. CASE NextAction
  <2>1. Tail(backlog) \in Seq(Requests)
    BY <1>3 DEF NextAction
  <2>. QED
    BY <1>2, <1>3, <2>1 DEF NextAction
<1>4. CASE Callback
  BY <1>1, <1>2, <1>4 DEF Callback, serviceVars
<1>5. CASE OwnStep \/ Outside \/ UNCHANGED allVars
  BY <1>1, <1>5 DEF OwnStep, Outside, allVars, serviceVars
<1>. QED
  BY <1>3, <1>4, <1>5 DEF ServiceNext, ServiceStep

LEMMA RequestParts ==
  ASSUME NEW request \in Requests
  PROVE  /\ request.do \in Targeted => request.id \in Ids
         /\ request.do = "set timer" => request.duration \in Durations
<1>1. CASE request \in [do : Registering]
  BY <1>1 DEF Registering, Targeted
<1>2. CASE request \in [do : Targeted, id : Ids]
  BY <1>2 DEF Targeted
<1>3. CASE request \in [do : {"set timer"}, duration : Durations]
  BY <1>3 DEF Targeted
<1>. QED
  BY <1>1, <1>2, <1>3 DEF Requests

LEMMA PerformIsAction ==
  ASSUME NEW request \in Requests, Perform(request)
  PROVE  HandleAction \/ UNCHANGED vars
<1>1. CASE Ignored(request)
  BY <1>1 DEF Ignored
<1>2. CASE request.do \in Registering
  BY <1>2 DEF Perform, Registering, HandleAction, Ignored
<1>3. CASE request.do \in Targeted
  <2>1. request.id \in Ids
    BY <1>3, RequestParts
  <2>. QED
    BY <1>3, <2>1 DEF Perform, Targeted, HandleAction, Ignored
<1>4. CASE request.do = "set timer"
  <2>1. request.duration \in Durations
    BY <1>4, RequestParts
  <2>. QED
    BY <1>4, <2>1 DEF Perform, HandleAction, Ignored
<1>. QED
  BY <1>1, <1>2, <1>3, <1>4 DEF Perform, Registering, Targeted

\* An action leaves the loop among the actions, unless it ends it.
LEMMA NextActionStays ==
  ASSUME NextAction
  PROVE  pc = "actions" /\ pc' \in {"actions", "ended"}
<1>1. pc = "actions" /\ Perform(Head(backlog))
  BY DEF NextAction
<1>2. CASE \E id : SendTransient(id)
  BY <1>1, <1>2, Zenon DEF SendTransient, Crash
<1>3. CASE ~ \E id : SendTransient(id)
  BY <1>1, <1>3
     DEF Perform, RegisterListener, RegisterTransport, UnregisterListener, UnregisterTransport,
         HandOver, SendOk, SendNotReady, SendIoError, Crash, SetTimer, Ignored, vars
<1>. QED
  BY <1>1, <1>2, <1>3

\* The queue restricts what the loop may do and adds nothing to it.
LEMMA ServiceStepIsLoopStep ==
  ASSUME QueueTypeOK, [ServiceNext]_allVars
  PROVE  [Next]_vars
<1>1. CASE OwnStep
  BY <1>1 DEF OwnStep, NoMoreActions, LoopStep, Next
<1>2. CASE Callback
  BY <1>2 DEF Callback, LoopStep, Next
<1>3. CASE NextAction
  <2>1. Head(backlog) \in Requests
    BY <1>3 DEF QueueTypeOK, NextAction
  <2>2. Perform(Head(backlog))
    BY <1>3 DEF NextAction
  <2>. QED
    BY <2>1, <2>2, PerformIsAction DEF Next
<1>4. CASE Outside
  BY <1>4 DEF Outside, Next
<1>5. CASE UNCHANGED allVars
  BY <1>5 DEF allVars
<1>. QED
  BY <1>1, <1>2, <1>3, <1>4, <1>5 DEF ServiceNext, ServiceStep

LEMMA ServiceStarts ==
  ASSUME ServiceInit
  PROVE  Init /\ QueueTypeOK
<1>. DEFINE first == [do |-> "register listener"]
<1>1. first \in Requests
  BY DEF Requests, Registering
<1>2. backlog = <<>> \/ backlog = <<first>>
  BY DEF ServiceInit
<1>3. QueueTypeOK
  <2>. HIDE DEF first
  <2>1. <<>> \in Seq(Requests)
    OBVIOUS
  <2>2. <<first>> \in Seq(Requests)
    BY <1>1
  <2>. QED
    BY <1>2, <2>1, <2>2, Zenon DEF QueueTypeOK
<1>. QED
  BY <1>3 DEF ServiceInit

LEMMA QueueTyped == ServiceSafety => []QueueTypeOK
  BY ServiceStarts, QueueTypeStep, PTL DEF ServiceSafety

\* With a queueing service the loop behaves as Reactor allows (the safety part of
\* Spec), so that what is proved of Reactor holds of it.
THEOREM ServiceImplementsReactor == ServiceSafety => Safety
  BY ServiceStarts, QueueTyped, ServiceStepIsLoopStep, PTL DEF ServiceSafety, Safety

LEMMA FirePhase ==
  ASSUME Fire
  PROVE  pc = "fire" /\ pc' \in {"events", "ended"}
  BY Zenon DEF Fire, Crash

\* NothingWaits, from the end of one round of actions to the end of the next poll.
NothingLeft ==
  pc \in {"start", "timeout", "interests", "poll"} /\ backlog # <<>>
    => waker \/ launch \in {"spawned", "failed"}

\* handle_actions ends with an empty queue, and until poll has returned no
\* callback runs and nobody resets the waker.
LEMMA NothingLeftStep ==
  ASSUME NothingLeft, [ServiceNext]_allVars
  PROVE  NothingLeft'
<1>. USE DEF NothingLeft
<1>1. CASE OwnStep
  <2>1. CASE NoMoreActions
    BY <1>1, <2>1 DEF OwnStep, NoMoreActions, serviceVars
  <2>2. CASE ComputeTimeout
    <3>1. CASE pc' = "ended"
      BY <3>1
    <3>2. CASE pc' # "ended"
      <4>1. pc = "timeout" /\ UNCHANGED controlVars
        BY <2>2, <3>2, Zenon DEF ComputeTimeout, Crash
      <4>. QED
        BY <1>1, <4>1 DEF OwnStep, serviceVars, controlVars
    <3>. QED
      BY <3>1, <3>2
  <2>3. CASE DropRuntime
    BY <1>1, <2>3 DEF OwnStep, DropRuntime, DropReceiver, serviceVars
  <2>4. CASE Start \/ SetInterests \/ PollTimesOut \/ EventsDone
    BY <1>1, <2>4
       DEF OwnStep, Start, SetInterests, PollTimesOut, EventsDone, serviceVars, controlVars
  <2>. QED
    BY <1>1, <2>1, <2>2, <2>3, <2>4 DEF OwnStep
<1>2. CASE Callback
  <2>1. CASE Fire
    BY <2>1, FirePhase
  <2>2. CASE HandleEvent \/ DrainStep
    BY <2>2
       DEF HandleEvent, ReadAfterWrite, HandleIo, WakerEvent, ResourceEvent, Disconnect,
           EventPanics, Crash, DrainStep
  <2>. QED
    BY <1>2, <2>1, <2>2 DEF Callback
<1>3. CASE NextAction
  BY <1>3, NextActionStays
<1>4. CASE Outside
  <2>0. UNCHANGED backlog
    BY <1>4 DEF Outside, serviceVars
  <2>1. CASE PollReady \/ PollFails
    BY <2>1 DEF PollReady, PollFails
  <2>2. CASE ServicePanics
    BY <2>2 DEF ServicePanics, Crash
  <2>3. CASE Tick \/ SetClock
    BY <2>0, <2>3 DEF Tick, SetClock, controlVars
  <2>4. CASE OtherThreads
    BY <2>0, <2>4
       DEF OtherThreads, Launch, LaunchWake, LaunchFails, Join, JoinReturns, CallerNext, CmdSend,
           ShutdownSend, ShutdownOrphan, Wake, WakeFails
  <2>. QED
    BY <1>4, <2>1, <2>2, <2>3, <2>4 DEF Outside
<1>5. CASE UNCHANGED allVars
  BY <1>5 DEF allVars, vars, controlVars, serviceVars
<1>. QED
  BY <1>1, <1>2, <1>3, <1>4, <1>5 DEF ServiceNext, ServiceStep

\* No action waits for an unrelated event, also those brought to Reactor::with.
THEOREM ActionsNeverWait == ServiceSafety => []NothingWaits
<1>1. ServiceInit => NothingLeft
  BY DEF ServiceInit, Init, ControlInit, NothingLeft
<1>2. NothingLeft => NothingWaits
  BY DEF NothingLeft, NothingWaits
<1>. QED
  BY <1>1, <1>2, NothingLeftStep, PTL DEF ServiceSafety

\* With the queue of actions too the loop keeps the promises about commands,
\* timers and resources.
THEOREM ServiceKeepsPromises == ServiceSafety => M!Safety /\ A!Safety /\ C!Safety
  BY ServiceImplementsReactor, ReactorImplementsMailbox, ReactorImplementsAlarms,
     ReactorImplementsCustody, PTL

-----------------------------------------------------------------------------
(* An iteration comes to its end.                                          *)

\* What the measure of IterationEnds rests on: it is a natural number.
BoundedWork ==
  /\ IsFiniteSet(events)
  /\ made \in 0..MaxActions

\* A poll reports each source once.
LEMMA FiniteReport ==
  ASSUME TypeOK, ResourceInv, PollReady
  PROVE  IsFiniteSet(events')
<1>1. PICK rev \in [polled -> SUBSET Flags] : Report(rev)
  BY DEF PollReady
<1>. DEFINE reporting == {i \in polled : rev[i] # {}}
            event(i)  == [id |-> i, revents |-> rev[i]]
<1>2. IsFiniteSet(polled)
  <2>1. IsFiniteSet(0..MaxIds)
    BY FS_Interval, PollerAssumption
  <2>2. polled \in SUBSET (0..MaxIds)
    BY PollerAssumption DEF TypeOK, PollerTypeOK, WAKER, Ids
  <2>. QED
    BY <2>1, <2>2, FS_Subset
<1>3. IsFiniteSet(reporting)
  BY <1>2, FS_Subset
<1>4. events' = {event(i) : i \in reporting}
  <2>1. events = {}
    BY DEF PollReady, ResourceInv, EventsInv
  <2>2. events' = events \cup {event(i) : i \in reporting}
    BY <1>1 DEF Report
  <2>. QED
    BY <2>1, <2>2
<1>5. PICK f : f = [i \in reporting |-> event(i)]
  OBVIOUS
<1>6. f \in Surjection(reporting, events')
  <2>1. \A i \in reporting : event(i) \in events'
    BY <1>4
  <2>2. \A e \in events' : \E i \in reporting : event(i) = e
    BY <1>4
  <2>. HIDE DEF reporting, event
  <2>3. f \in [reporting -> events']
    BY <1>5, <2>1
  <2>4. \A e \in events' : \E i \in reporting : f[i] = e
    BY <1>5, <2>2
  <2>. QED
    BY <2>3, <2>4 DEF Surjection
<1>. QED
  BY <1>3, <1>6, FS_Surjection DEF ExistsSurjection

LEMMA WorkStaysBounded ==
  ASSUME TypeOK, ResourceInv, QueueTypeOK, BoundedWork, [ServiceNext]_allVars
  PROVE  BoundedWork'
<1>1. IsFiniteSet(events')
  <2>1. CASE PollReady
    BY <2>1, FiniteReport
  <2>2. CASE ~ PollReady
    <3>1. events' \subseteq events
      BY <2>2, ServiceStepIsLoopStep, NextCases
         DEF Dies, Start, RegisterWaker, Computes, SetInterests, SetInterest, Advances, Fires,
             TakesUp, WakerEvent, ResourceEvent, Disconnect, Take, Reads, ReadAfterWrite, DrainStep, DropRuntime,
             RegisterListener, RegisterTransport, Register, GivesBack, SendOk, SetTimer,
             OtherThreads, Tick, SetClock, vars, pollerVars
    <3>. QED
      BY <3>1, FS_Subset DEF BoundedWork
  <2>. QED
    BY <2>1, <2>2
<1>2. made' \in 0..MaxActions
  <2>1. made' = made \/ (made < MaxActions /\ made' = made + 1)
    BY DEF ServiceNext, ServiceStep, OwnStep, Callback, NextAction, Outside, Ask, serviceVars,
           allVars
  <2>. QED
    BY <2>1, ServiceAssumption DEF BoundedWork
<1>. QED
  BY <1>1, <1>2 DEF BoundedWork

LEMMA AheadValues ==
  /\ Ahead["start"] = 3 /\ Ahead["fire"] = 6 /\ Ahead["events"] = 5 /\ Ahead["drain"] = 4
  /\ Ahead["actions"] = 3 /\ Ahead["timeout"] = 2 /\ Ahead["interests"] = 1
  /\ Ahead["poll"] = 0 /\ Ahead["ended"] = 0
  BY DEF Ahead

\* The phases follow each other.
LEMMA NextPhase ==
  ASSUME \/ pc = "start" /\ pc' = "timeout"
         \/ pc = "timeout" /\ pc' = "interests"
         \/ pc = "interests" /\ pc' = "poll"
         \/ pc = "fire" /\ pc' = "events"
         \/ pc = "events" /\ pc' \in {"drain", "actions"}
         \/ pc = "drain" /\ pc' = "actions"
         \/ pc = "actions" /\ pc' = "timeout"
         \/ pc \in Labels \ {"poll", "ended"} /\ pc' = "ended"
  PROVE  Nearer
  BY AheadValues DEF Nearer, Labels

LEMMA LeftValues ==
  /\ pc = "events" => Left = 2 * Cardinality(events) + Cardinality(reading)
  /\ pc = "drain" => Left = Len(ctl)
  /\ pc = "actions" => Left = 2 * (MaxActions - made) + Len(backlog)
  /\ pc \notin {"events", "drain", "actions"} => Left = 0
  /\ pc' = "events" => Left' = 2 * Cardinality(events') + Cardinality(reading')
  /\ pc' = "drain" => Left' = Len(ctl')
  /\ pc' = "actions" => Left' = 2 * (MaxActions - made') + Len(backlog')
  /\ pc' \notin {"events", "drain", "actions"} => Left' = 0
  BY DEF Left

\* At most one read is outstanding.
LEMMA OneRead ==
  ASSUME ResourceInv
  PROVE  Cardinality(reading) = IF reading = {} THEN 0 ELSE 1
<1>1. CASE reading = {}
  BY <1>1, FS_EmptySet
<1>2. ASSUME NEW id \in reading
      PROVE  Cardinality(reading) = 1
  <2>1. reading = {id}
    BY <1>2 DEF ResourceInv, EventsInv
  <2>. QED
    BY <2>1, FS_Singleton
<1>. QED
  BY <1>1, <1>2

LEMMA LeftNatural ==
  ASSUME TypeOK, ResourceInv, BoundedWork, QueueTypeOK
  PROVE  Left \in Nat
<1>1. 2 * Cardinality(events) + Cardinality(reading) \in Nat
  BY FS_CardinalityType, OneRead DEF BoundedWork
<1>2. Len(ctl) \in Nat
  BY LenProperties DEF TypeOK, ControlTypeOK
<1>3. 2 * (MaxActions - made) + Len(backlog) \in Nat
  <2>1. Len(backlog) \in Nat
    BY LenProperties DEF QueueTypeOK
  <2>2. MaxActions - made \in Nat
    BY ServiceAssumption DEF BoundedWork
  <2>. DEFINE n == Len(backlog)
              m == MaxActions - made
  <2>3. n \in Nat /\ m \in Nat
    BY <2>1, <2>2
  <2>. HIDE DEF n, m
  <2>4. 2 * m + n \in Nat
    BY <2>3
  <2>. QED
    BY <2>4 DEF n, m
<1>. QED
  BY <1>1, <1>2, <1>3, LeftValues

LEMMA EventsShrink ==
  ASSUME TypeOK, ResourceInv, BoundedWork, HandleEvent
  PROVE  pc = "events" /\ pc' \in {"events", "ended"} /\ (pc' = "events" => Left' < Left)
<1>. DEFINE n == Cardinality(events)
<1>0. n \in Nat /\ pc = "events"
  BY FS_CardinalityType DEF BoundedWork, HandleEvent
<1>1. CASE ReadAfterWrite
  <2>1. pc' = pc /\ events' = events /\ reading # {} /\ reading' = {}
    BY <1>1 DEF ReadAfterWrite, HandleIo
  <2>2. Cardinality(reading) = 1 /\ Cardinality(reading') = 0
    BY <2>1, OneRead, FS_EmptySet
  <2>3. Left = 2 * n + 1 /\ Left' = 2 * n + 0
    BY <1>0, <2>1, <2>2, LeftValues
  <2>. HIDE DEF n
  <2>. QED
    BY <1>0, <2>1, <2>3
<1>2. ASSUME NEW e \in events, reading = {},
             WakerEvent(e) \/ ResourceEvent(e) \/ Disconnect(e) \/ EventPanics(e)
      PROVE  pc' \in {"events", "ended"} /\ (pc' = "events" => Left' < Left)
  <2>1. events' = events \ {e} /\ pc' \in {"events", "ended"}
    BY <1>0, <1>2
       DEF WakerEvent, ResourceEvent, HandleIo, Disconnect, EventPanics, Take, Crash
  <2>2. reading' = {} \/ reading' = {e.id}
    BY <1>2
       DEF WakerEvent, ResourceEvent, Disconnect, GiveBack, EventPanics, Crash, resourceVars
  <2>3. Cardinality(events') = n - 1 /\ n \in Nat \ {0}
    BY <1>2, <2>1, FS_RemoveElement, FS_CardinalityType, FS_EmptySet DEF BoundedWork
  <2>4. Cardinality(reading) = 0 /\ Cardinality(reading') \in {0, 1}
    BY <1>2, <2>2, FS_EmptySet, FS_Singleton
  <2>5. pc' = "events" => Left = 2 * n + 0 /\ Left' = 2 * (n - 1) + Cardinality(reading')
    BY <1>0, <2>3, <2>4, LeftValues
  <2>. HIDE DEF n
  <2>. QED
    BY <2>1, <2>3, <2>4, <2>5
<1>. QED
  BY <1>0, <1>1, <1>2 DEF HandleEvent

LEMMA DrainShrinks ==
  ASSUME TypeOK, DrainStep
  PROVE  /\ pc = "drain" /\ pc' \in {"drain", "actions", "ended"}
         /\ pc' = "drain" => Left' < Left
<1>1. CASE RecvCmd
  <2>1. Len(ctl') = Len(ctl) - 1 /\ Len(ctl) \in Nat
    BY <1>1, ReceivedQueue DEF RecvCmd, TypeOK, ControlTypeOK
  <2>. QED
    BY <1>1, <2>1, LeftValues DEF DrainStep, RecvShutdown, RecvEmpty
<1>2. CASE ~ RecvCmd
  BY <1>2 DEF DrainStep
<1>. QED
  BY <1>1, <1>2

\* Taking the head of a queue, and perhaps putting something behind the rest.
LEMMA QueueLengths ==
  ASSUME NEW S, NEW queue \in Seq(S), queue # <<>>
  PROVE  /\ Len(queue) \in Nat \ {0}
         /\ Len(Tail(queue)) = Len(queue) - 1
         /\ \A x \in S : Len(Append(Tail(queue), x)) = Len(queue)
<1>1. Len(queue) \in Nat \ {0}
  BY EmptySeq, LenProperties
<1>2. Tail(queue) \in Seq(S) /\ Len(Tail(queue)) = Len(queue) - 1
  BY HeadTailProperties
<1>3. \A x \in S : Len(Append(Tail(queue), x)) = Len(Tail(queue)) + 1
  BY <1>2, AppendProperties
<1>. DEFINE n == Len(queue)
            m == Len(Tail(queue))
<1>4. n \in Nat /\ m = n - 1
  BY <1>1, <1>2
<1>5. \A x \in S : Len(Append(Tail(queue), x)) = m + 1
  BY <1>3
<1>. HIDE DEF n, m
<1>6. m + 1 = n
  BY <1>4
<1>7. \A x \in S : Len(Append(Tail(queue), x)) = n
  BY <1>5, <1>6
<1>. QED
  BY <1>1, <1>2, <1>7 DEF n

LEMMA ActionsShrink ==
  ASSUME QueueTypeOK, BoundedWork, NextAction
  PROVE  /\ pc = "actions" /\ pc' \in {"actions", "ended"}
         /\ pc' = "actions" => Left' < Left
<1>1. pc = "actions" /\ pc' \in {"actions", "ended"}
  BY NextActionStays
<1>. DEFINE n == Len(backlog)
            k == Len(backlog')
            before == 2 * (MaxActions - made) + n
            after  == 2 * (MaxActions - made') + k
<1>2. backlog \in Seq(Requests) /\ backlog # <<>>
  BY DEF NextAction, QueueTypeOK
<1>3. /\ n \in Nat /\ Len(Tail(backlog)) = n - 1
      /\ \A x \in Requests : Len(Append(Tail(backlog), x)) = n
  BY <1>2, QueueLengths
<1>4. \/ made' = made /\ k = n - 1
      \/ made' = made + 1 /\ k = n
  <2>1. CASE backlog' = Tail(backlog) /\ made' = made
    BY <1>3, <2>1, Zenon
  <2>2. CASE /\ made' = made + 1
             /\ \E request \in Requests : backlog' = Append(Tail(backlog), request)
    BY <1>3, <2>2, Zenon
  <2>. QED
    BY <2>1, <2>2, Zenon DEF NextAction, Ask
<1>5. made \in Nat /\ MaxActions \in Nat
  BY ServiceAssumption DEF BoundedWork
<1>6. pc' = "actions" => Left = before /\ Left' = after
  BY <1>1, LeftValues, Zenon
<1>. HIDE DEF n, k
<1>7. after < before
  BY <1>3, <1>4, <1>5
<1>. QED
  BY <1>1, <1>6, <1>7, Zenon

\* A step of others: the loop is where it was, with no more to do.
Elsewhere ==
  /\ UNCHANGED <<pc, pollerVars, resourceVars, timerVars, serviceVars, handled, awoken, status,
                 now, timeout>>
  /\ Left' > Left => pc = "drain" /\ caller' # caller

LEMMA OutsideStaysOut ==
  ASSUME TypeOK, ResourceInv, BoundedWork, QueueTypeOK, Outside, pc \notin {"poll", "ended"}
  PROVE  Nearer \/ Elsewhere
<1>0. UNCHANGED serviceVars
  BY DEF Outside
<1>1. CASE ServicePanics
  BY <1>1, NextPhase DEF ServicePanics, Crash, Labels
<1>2. CASE Tick \/ SetClock
  <2>1. UNCHANGED <<controlVars, pollerVars, pc, resourceVars, timerVars, now>>
    BY <1>2 DEF Tick, SetClock
  <2>2. timeout' = timeout
    BY <1>2 DEF Tick, SetClock
  <2>3. UNCHANGED <<ctl, events, reading, made, backlog, handled, awoken, status>>
    BY <1>0, <2>1 DEF controlVars, pollerVars, resourceVars, serviceVars
  <2>4. Left' = Left
    BY <2>1, <2>3, Zenon DEF Left
  <2>5. ~ (Left' > Left)
    BY <2>4, LeftNatural
  <2>. QED
    BY <1>0, <2>1, <2>2, <2>3, <2>5, Zenon DEF Elsewhere
<1>3. CASE OtherThreads
  <2>1. UNCHANGED <<pollerVars, pc, resourceVars, clockVars, timerVars>>
    BY <1>3 DEF OtherThreads
  <2>2. UNCHANGED <<handled, awoken, status>> /\ (ctl' = ctl \/ caller' # caller)
    BY <1>3
       DEF OtherThreads, Launch, LaunchWake, LaunchFails, Join, JoinReturns, CallerNext,
           CmdSend, ShutdownSend, ShutdownOrphan, Wake, WakeFails, TypeOK, ControlTypeOK
  <2>3. UNCHANGED <<events, reading, made, backlog, now, timeout>>
    BY <1>0, <2>1 DEF pollerVars, resourceVars, serviceVars, clockVars
  <2>4. Left' = Left \/ pc = "drain"
    BY <2>1, <2>3, LeftValues
  <2>5. Left' > Left => pc = "drain" /\ caller' # caller
    <3>1. CASE ctl' = ctl
      <4>1. Left' = Left
        BY <2>1, <2>3, <3>1, Zenon DEF Left
      <4>. QED
        BY <4>1, LeftNatural
    <3>2. CASE caller' # caller
      BY <2>4, <3>2, LeftNatural
    <3>. QED
      BY <2>2, <3>1, <3>2
  <2>. QED
    BY <1>0, <2>1, <2>2, <2>3, <2>5, Zenon DEF Elsewhere
<1>. QED
  BY <1>1, <1>2, <1>3 DEF Outside, PollReady, PollFails

LEMMA OwnStepNearer ==
  ASSUME OwnStep, pc \notin {"poll", "ended"}, pc \in Labels
  PROVE  Nearer
<1>1. CASE ComputeTimeout
  <2>1. pc = "timeout" /\ pc' \in {"interests", "ended"}
    BY <1>1, Zenon DEF ComputeTimeout, Crash
  <2>. QED
    BY <2>1, NextPhase
<1>2. CASE Start \/ SetInterests \/ EventsDone \/ NoMoreActions
  BY <1>2, NextPhase DEF Start, SetInterests, EventsDone, NoMoreActions, ActionsDone
<1>. QED
  BY <1>1, <1>2 DEF OwnStep, PollTimesOut, DropRuntime

LEMMA IterationStep ==
  ASSUME TypeOK, ResourceInv, BoundedWork, QueueTypeOK, [ServiceNext]_allVars,
         pc \notin {"poll", "ended"}, allVars' # allVars
  PROVE  Nearer \/ Elsewhere
<1>0. pc \in Labels
  BY DEF TypeOK, LoopTypeOK
<1>1. CASE Fire
  BY <1>0, <1>1, FirePhase, NextPhase
<1>2. CASE HandleEvent
  BY <1>0, <1>2, EventsShrink, NextPhase DEF Nearer
<1>3. CASE DrainStep
  BY <1>0, <1>3, DrainShrinks, NextPhase DEF Nearer
<1>4. CASE NextAction
  BY <1>0, <1>4, ActionsShrink, NextPhase DEF Nearer
<1>. QED
  BY <1>0, <1>1, <1>2, <1>3, <1>4, OwnStepNearer, OutsideStaysOut
     DEF ServiceNext, ServiceStep, Callback

\* Whatever the service queues and whoever sends, every step of the thread brings
\* the iteration nearer to its poll: with finitely many actions and commands it
\* gets there.
THEOREM EveryIterationEnds == ServiceSafety => IterationEnds
<1>1. ASSUME ServiceInit
      PROVE  BoundedWork
  <2>1. IsFiniteSet(events)
    BY <1>1, FS_EmptySet DEF ServiceInit, Init, PollerInit
  <2>2. \/ made = 0
        \/ made = 1 /\ MaxActions > 0
    <3>. DEFINE first == [do |-> "register listener"]
    <3>1. /\ made = Len(backlog)
          /\ backlog = <<>> \/ (MaxActions > 0 /\ backlog = <<first>>)
      BY <1>1 DEF ServiceInit
    <3>. HIDE DEF first
    <3>2. Len(<<first>>) = 1 /\ Len(<<>>) = 0
      OBVIOUS
    <3>. QED
      BY <3>1, <3>2
  <2>. QED
    BY <2>1, <2>2, ServiceAssumption DEF BoundedWork
<1>2. /\ TypeOK /\ ResourceInv /\ QueueTypeOK /\ BoundedWork /\ [ServiceNext]_allVars
      => BoundedWork'
  BY WorkStaysBounded
<1>3. TypeOK /\ ResourceInv /\ BoundedWork /\ QueueTypeOK /\ [ServiceNext]_allVars
      => [pc \notin {"poll", "ended"} =>
            \/ Nearer
            \/ /\ UNCHANGED <<pc, pollerVars, resourceVars, timerVars, serviceVars, handled,
                              awoken, status, now, timeout>>
               /\ Left' > Left => pc = "drain" /\ caller' # caller]_allVars
  BY IterationStep DEF Elsewhere
<1>. QED
  BY <1>1, <1>2, <1>3, QueueTyped, ServiceImplementsReactor, TypeCorrect,
     ResourcesCorrect, PTL DEF ServiceSafety, IterationEnds
=============================================================================
