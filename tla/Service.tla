------------------------------- MODULE Service -------------------------------
(***************************************************************************)
(* The event loop with a service that keeps a queue, the way handlers are  *)
(* written for it (reactor.rs, the service of the tests): every callback   *)
(* may queue an action, and the iterator hands out the oldest until none   *)
(* is left.  Reactor lets the iterator yield anything and end at any time; *)
(* here it ends exactly when the queue is empty, which is what decides     *)
(* whether an action can be forgotten.                                     *)
(***************************************************************************)
EXTENDS Reactor

CONSTANT MaxActions  \* bound: how many actions the service ever queues

ASSUME ServiceAssumption == MaxActions \in Nat

VARIABLES
  backlog,  \* the actions the service has queued, oldest first
  made      \* history: how many it has queued

serviceVars == <<backlog, made>>
allVars     == <<vars, serviceVars>>

\* Actions that bring a resource, that name one, and SetTimer.
Registering == {"register listener", "register transport"}
Targeted    == {"unregister listener", "unregister transport", "send"}

Requests == [do : Registering] \cup [do : Targeted, id : Ids]
                               \cup [do : {"set timer"}, duration : Durations]

\* The instance has an id left for each registration in the queue.
Room(queue) ==
  nextId' + Cardinality({i \in DOMAIN queue : queue[i].do \in Registering}) <= MaxIds

\* The service names resources it has been told of, whether it still owns them
\* or not.
Legal(request, queue) ==
  /\ request.do \in Registering => Room(queue)
  /\ request.do \in Targeted => lent'[request.id] # "none"

\* A callback queues an action behind what is in the queue, or does not.
Ask(queue) ==
  \/ backlog' = queue /\ UNCHANGED made
  \/ /\ made < MaxActions
     /\ made' = made + 1
     /\ \E request \in Requests : /\ Legal(request, queue)
                                  /\ backlog' = Append(queue, request)

\* The service may bring actions along when it is given to Reactor::with.
ServiceInit ==
  /\ Init
  /\ \/ backlog = <<>>
     \/ MaxIds > 0 /\ MaxActions > 0 /\ backlog = <<[do |-> "register listener"]>>
  /\ made = Len(backlog)

-----------------------------------------------------------------------------
\* tick and handle_timer; handle_listener_event, handle_transport_event and
\* handle_error; handle_command.  None of them is called for the waker, when the
\* channel is empty, for a Shutdown, and in a panic.
CallsService == UNCHANGED <<awoken, status>>

Callback ==
  /\ Fire \/ HandleEvent \/ DrainStep
  /\ IF CallsService THEN Ask(backlog) ELSE UNCHANGED serviceVars

\* Unregistering or sending to what is not in the map.
IgnoredLate(request) ==  \* mutant: out of the poll before the map is looked at
  /\ \/ request.do = "unregister listener" /\ request.id \notin listeners
     \/ request.do = "unregister transport" /\ request.id \notin transports
  /\ Unregister(request.id)
  /\ UNCHANGED <<controlVars, events, pc, resourceVars, clockVars, timerVars>>

Ignored(request) ==
  /\ \/ request.do = "unregister listener" /\ request.id \notin listeners
     \/ request.do \in {"unregister transport", "send"} /\ request.id \notin transports
  /\ UNCHANGED vars

Perform(request) ==
  \/ request.do = "register listener"    /\ RegisterListener
  \/ request.do = "register transport"   /\ RegisterTransport
  \/ request.do = "unregister listener"  /\ UnregisterListener(request.id)
  \/ request.do = "unregister transport" /\ UnregisterTransport(request.id)
  \/ /\ request.do = "send"
     /\ \/ SendOk(request.id)
        \/ SendNotReady(request.id)
        \/ SendIoError(request.id)
        \/ SendTransient(request.id)
  \/ request.do = "set timer"            /\ SetTimer(request.duration)
  \/ Ignored(request)

\* handle_registered, the handovers and handle_error are callbacks too.
NextAction ==
  /\ pc = "actions"
  /\ backlog # <<>>
  /\ Perform(Head(backlog))
  /\ IF lent' # lent THEN Ask(Tail(backlog))
                     ELSE backlog' = Tail(backlog) /\ UNCHANGED made

\* What the loop does without the service.
ActionsDoneEarly ==  \* mutant: `if let` for `while let`
  ActionsDone

NoMoreActions == backlog = <<>> /\ ActionsDone

OwnStep ==
  /\ \/ Start \/ ComputeTimeout \/ SetInterests \/ PollTimesOut \/ EventsDone
     \/ DropRuntime \/ NoMoreActions
  /\ UNCHANGED serviceVars

Outside ==
  /\ PollReady \/ PollFails \/ ServicePanics \/ OtherThreads \/ Tick \/ SetClock
  /\ UNCHANGED serviceVars

ServiceStep == OwnStep \/ Callback \/ NextAction

ServiceNext == ServiceStep \/ Outside

ServiceSafety == ServiceInit /\ [][ServiceNext]_allVars

\* As in Reactor, but nothing is assumed of the iterator: that it returns None
\* at last follows from the service queueing only so many actions.
ServiceSpec ==
  /\ ServiceSafety
  /\ WF_allVars(ServiceStep)
  /\ WF_allVars(waker /\ PollReady /\ UNCHANGED serviceVars)
  /\ WF_allVars((LaunchWake \/ JoinReturns) /\ OtherThreads /\ UNCHANGED serviceVars)
  /\ \A c \in Controllers :
       WF_allVars(Wake(c) /\ OtherThreads /\ UNCHANGED serviceVars)

-----------------------------------------------------------------------------
(* Properties.                                                             *)

\* Before a poll returns nothing is in the service's queue, but for what it
\* brought along, and then the wake of Reactor::with is on its way (or failed,
\* which the caller was told): no action waits for an unrelated event.
NothingWaits ==
  pc = "poll" /\ backlog # <<>> => waker \/ launch \in {"spawned", "failed"}

\* Every action the service queues, in whichever callback, is handled or ends the
\* loop; a Shutdown that follows in the same drain is one way to end it.
EveryActionDone ==
  \A n \in 1..MaxActions :
    (made >= n) ~> (made - Len(backlog) >= n \/ status # "running")

\* How many phases of the iteration are ahead of the next poll.
Ahead ==
  [start |-> 3, fire |-> 6, events |-> 5, drain |-> 4, actions |-> 3, timeout |-> 2,
   interests |-> 1, poll |-> 0, ended |-> 0]

\* What a phase that is a loop has left to do.  An action that is handled may be
\* followed by one more that its callback queues, an event takes up to two calls.
Left ==
  CASE pc = "events"  -> 2 * Cardinality(events) + Cardinality(reading)
    [] pc = "drain"   -> Len(ctl)
    [] pc = "actions" -> 2 * (MaxActions - made) + Len(backlog)
    [] OTHER          -> 0

Nearer == Ahead[pc'] < Ahead[pc] \/ (pc' = pc /\ Left' < Left)

\* An iteration comes to its end: each thing the thread does between two polls, a
\* panic included, brings it nearer to the next one, and nobody sets it back but a
\* caller that sends into the channel while it is drained.
IterationEnds ==
  [][pc \notin {"poll", "ended"} =>
       \/ Nearer
       \/ /\ UNCHANGED <<pc, pollerVars, resourceVars, timerVars, serviceVars, handled,
                         awoken, status, now, timeout>>
          /\ Left' > Left => pc = "drain" /\ caller' # caller]_allVars
=============================================================================
