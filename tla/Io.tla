--------------------------------- MODULE Io ---------------------------------
(***************************************************************************)
(* The event loop on a level-triggered poll engine, which poll(2) is under *)
(* popol: a source stays ready until somebody reads or writes it, and poll *)
(* returns at once while an armed one is.  Reactor lets poll report        *)
(* anything; here it reports what is ready and armed, nothing less, which  *)
(* is what decides whether I/O is served.                                  *)
(***************************************************************************)
EXTENDS Reactor

VARIABLE ready  \* what poll(2) would report of each resource if asked for it

ioVars == <<vars, ready>>

IoInit == Init /\ ready = [id \in Ids |-> {}]

Registered == listeners \cup transports

\* Failures are reported whether asked for or not.
Reporting(id) == ready[id] \cap (armed[id] \cup {"fail"})

\* What the resources still registered after a step are ready for.
Kept == [id \in Ids |-> IF id \in (listeners \cup transports)' THEN ready[id] ELSE {}]

\* Data or room for some arrives, or the peer hangs up.  What no resource ever
\* wants is left out.
Arrive(id, flag) ==
  /\ id \in Registered
  /\ IF flag = "fail" THEN "resource" \in Faults ELSE flag \in UNION Interests
  /\ ready' = [ready EXCEPT ![id] = @ \cup {flag}]
  /\ UNCHANGED vars

LevelPoll ==
  /\ pc = "poll"
  /\ \E flags \in Reportable(WAKER) :
       /\ flags # {} \/ \E id \in Registered : Reporting(id) # {}
       /\ Report([id \in polled |-> IF id = WAKER THEN flags ELSE Reporting(id)])
  /\ pc' = "fire"
  /\ UNCHANGED <<controlVars, resourceVars, clockVars, timerVars, ready>>

LevelTimesOut ==
  /\ \A id \in Registered : Reporting(id) = {}
  /\ PollTimesOut
  /\ UNCHANGED ready

\* handle_io takes all there is; what it leaves is the same as more arriving.
IoEvent ==
  /\ pc = "events"
  /\ \/ /\ ReadAfterWrite
        /\ ready' = [id \in Ids |-> ready[id] \ (IF id \in reading THEN {"read"} ELSE {})]
     \/ /\ reading = {}
        /\ \E e \in events :
             \/ /\ ResourceEvent(e)
                /\ ready' = [ready EXCEPT ![e.id] = @ \ {FirstIo(e.revents)}]
             \/ /\ WakerEvent(e) \/ Disconnect(e) \/ EventPanics(e)
                /\ ready' = Kept

\* A write may leave no room for the next.
IoAction ==
  \/ HandleAction /\ ready' = Kept
  \/ \E id \in Ids : SendOk(id) /\ ready' = [ready EXCEPT ![id] = @ \ {"write"}]

IoStep ==
  \/ LevelTimesOut
  \/ IoEvent
  \/ /\ \/ Start \/ ComputeTimeout \/ SetInterests \/ Fire \/ EventsDone
        \/ DrainStep \/ DropRuntime \/ ActionsDone
     /\ UNCHANGED ready

IoOutside ==
  /\ PollFails \/ ServicePanics \/ OtherThreads \/ Tick \/ SetClock
  /\ UNCHANGED ready

IoNext ==
  \/ IoStep
  \/ LevelPoll
  \/ IoAction
  \/ IoOutside
  \/ \E id \in Ids, flag \in Flags : Arrive(id, flag)

IoSafety == IoInit /\ [][IoNext]_ioVars

\* As in Reactor, and poll returns while a source is ready: though it may fail,
\* it does not fail each time.  Nothing makes a source ready.
IoSpec ==
  /\ IoSafety
  /\ WF_ioVars(IoStep)
  /\ SF_ioVars(LevelPoll)
  /\ WF_ioVars((LaunchWake \/ JoinReturns) /\ OtherThreads /\ UNCHANGED ready)
  /\ \A c \in Controllers : WF_ioVars(Wake(c) /\ OtherThreads /\ UNCHANGED ready)

-----------------------------------------------------------------------------
(* Properties.                                                             *)

\* Nothing stays ready and wanted for ever, on whichever resource, however many
\* others are ready and whatever poll fails meanwhile: arming is never missed.
IoServed ==
  \A id \in Ids : \A io \in {"read", "write"} :
    []<>(io \notin ready[id] \cap wants[id] \/ status # "running")

\* A hang-up reaches the service even from a resource that wants no events.
HangUpNoticed ==
  \A id \in Ids :
    []<>(~(id \in Registered /\ "fail" \in ready[id]) \/ status # "running")

\* Each poll that does not fail reports every resource that is ready for what it
\* wants at that moment, with all of it, or has hung up: whatever the callbacks
\* changed since the poll before, no resource has to wait for another poll.
NothingMissed ==
  [][pc = "poll" /\ pc' = "fire" /\ (events' # {} \/ "poll" \notin Faults) =>
       \A id \in Registered :
         LET due == ready[id] \cap (wants[id] \cup {"fail"})
         IN  due # {} => [id |-> id, revents |-> due] \in events']_ioVars
=============================================================================
