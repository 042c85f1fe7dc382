------------------------------ MODULE IoProofs ------------------------------
(***************************************************************************)
(* Theorems about the event loop on a level-triggered poll engine.         *)
(***************************************************************************)
EXTENDS Io, PromiseProofs

\* Only a hang-up, if there may be any, makes a resource report a failure.
ReadyInv ==
  /\ ready \in [Ids -> SUBSET Flags]
  /\ \A id \in Ids : "fail" \in ready[id] => "resource" \in Faults

IoInv == TypeOK /\ ResourceInv /\ ReadyInv

LEMMA LevelPollIsReady ==
  ASSUME IoInv, LevelPoll
  PROVE  PollReady
<1>0. polled = {WAKER} \cup Registered /\ WAKER \notin Ids /\ Registered \subseteq Ids
  <2>1. polled = {WAKER} \cup Registered
    BY DEF IoInv, ResourceInv, BooksInv, LevelPoll, Registered
  <2>2. WAKER \notin Ids
    BY PollerAssumption DEF Ids, WAKER
  <2>. QED
    BY <2>1, <2>2 DEF IoInv, TypeOK, LoopTypeOK, Registered
<1>1. PICK flags \in Reportable(WAKER) :
        /\ flags # {} \/ \E id \in Registered : Reporting(id) # {}
        /\ Report([id \in polled |-> IF id = WAKER THEN flags ELSE Reporting(id)])
  BY DEF LevelPoll
<1>. DEFINE rev == [id \in polled |-> IF id = WAKER THEN flags ELSE Reporting(id)]
<1>2. \A id \in polled : rev[id] \in Reportable(id)
  <2>1. SUFFICES ASSUME NEW id \in Registered
                 PROVE  Reporting(id) \in Reportable(id)
    BY <1>0, <1>1
  <2>2. "fail" \in ready[id] => "resource" \in Faults
    BY <1>0 DEF IoInv, ReadyInv
  <2>. QED
    BY <1>0, <2>2 DEF Reporting, Reportable
<1>3. \E id \in polled : rev[id] # {}
  BY <1>0, <1>1
<1>4. rev \in [polled -> SUBSET Flags]
  <2>1. flags \in SUBSET Flags
    BY <1>1 DEF Reportable, Flags, Io
  <2>2. \A id \in Registered : Reporting(id) \in SUBSET Flags
    BY <1>0 DEF IoInv, ReadyInv, Reporting
  <2>. QED
    BY <1>0, <2>1, <2>2
<1>5. Report(rev)
  BY <1>1
<1>. HIDE DEF rev
<1>. QED
  BY <1>2, <1>3, <1>4, <1>5 DEF LevelPoll, PollReady

LEMMA IoStepIsLoopStep ==
  ASSUME IoInv, [IoNext]_ioVars
  PROVE  [Next]_vars
<1>1. CASE LevelPoll
  BY <1>1, LevelPollIsReady DEF Next
<1>2. CASE IoStep
  <2>1. CASE IoEvent
    BY <2>1 DEF IoEvent, HandleEvent, LoopStep, Next
  <2>. QED
    BY <1>2, <2>1 DEF IoStep, LevelTimesOut, LoopStep, Next
<1>3. CASE IoAction \/ IoOutside
  BY <1>3 DEF IoAction, IoOutside, HandleAction, Next
<1>4. ASSUME NEW id, NEW flag, Arrive(id, flag)
      PROVE  [Next]_vars
  BY <1>4 DEF Arrive
<1>5. CASE UNCHANGED ioVars
  BY <1>5 DEF ioVars
<1>. QED
  BY <1>1, <1>2, <1>3, <1>4, <1>5 DEF IoNext

LEMMA ReadyStep ==
  ASSUME IoInv, [IoNext]_ioVars
  PROVE  ReadyInv'
<1>. USE DEF IoInv, ReadyInv
<1>1. CASE UNCHANGED ready
  BY <1>1
<1>2. CASE ready' = Kept
  BY <1>2 DEF Kept
<1>3. ASSUME NEW id \in Ids, NEW gone, ready' = [ready EXCEPT ![id] = @ \ gone]
      PROVE  ReadyInv'
  BY <1>3
<1>4. ASSUME NEW id \in Ids, NEW flag \in Flags, Arrive(id, flag)
      PROVE  ReadyInv'
  BY <1>4 DEF Arrive
<1>5. CASE IoEvent
  <2>1. ASSUME NEW e \in events, ResourceEvent(e)
        PROVE  e.id \in Ids
    BY <2>1 DEF ResourceEvent, TypeOK, LoopTypeOK
  <2>2. CASE ready' = [id \in Ids |-> ready[id] \ (IF id \in reading THEN {"read"} ELSE {})]
    BY <2>2
  <2>. QED
    BY <1>2, <1>3, <1>5, <2>1, <2>2 DEF IoEvent
<1>6. CASE IoAction
  BY <1>2, <1>3, <1>6 DEF IoAction
<1>. QED
  BY <1>1, <1>4, <1>5, <1>6 DEF IoNext, IoStep, LevelTimesOut, LevelPoll, IoOutside, ioVars

LEMMA IoCorrect == IoSafety => []IoInv
<1>1. IoInit => IoInv
  BY TypeInit, ResourceInit DEF IoInit, IoInv, ReadyInv
<1>2. IoInv /\ [IoNext]_ioVars => IoInv'
  BY IoStepIsLoopStep, ReadyStep, TypeStep, ResourceStep DEF IoInv
<1>. QED
  BY <1>1, <1>2, PTL DEF IoSafety

\* A level-triggered engine reports only what Reactor allows a poll to report:
\* what is proved of Reactor holds of the loop on such an engine.
THEOREM IoImplementsReactor == IoSafety => Safety
<1>1. IoInit => Init
  BY DEF IoInit
<1>. QED
  BY <1>1, IoCorrect, IoStepIsLoopStep, PTL DEF IoSafety, Safety

\* What a resource reports at a poll is what it is ready for and wants.
LEMMA ReportingWanted ==
  ASSUME PollsCurrentInterests, pc = "poll", NEW id \in Registered
  PROVE  Reporting(id) = ready[id] \cap (wants[id] \cup {"fail"})
  BY DEF PollsCurrentInterests, Registered, Reporting

LEMMA PollSteps ==
  ASSUME IoInv, [IoNext]_ioVars, pc = "poll", pc' = "fire",
         events' # {} \/ "poll" \notin Faults
  PROVE  LevelPoll \/ LevelTimesOut
<1>1. CASE PollFails
  BY <1>1 DEF PollFails, pollerVars, IoInv, ResourceInv, EventsInv
<1>2. CASE IoAction
  BY <1>2, ActionCases DEF IoAction, HandleAction, Dies, Crash, RegisterListener,
     RegisterTransport, GivesBack, SendOk, SetTimer
<1>3. CASE IoOutside /\ ~ PollFails
  BY <1>3 DEF IoOutside, ServicePanics, OtherThreads, Tick, SetClock
<1>4. CASE IoStep /\ ~ LevelTimesOut
  <2>1. ~ Fire
    BY Zenon DEF Fire
  <2>2. ~ ComputeTimeout
    BY Zenon DEF ComputeTimeout
  <2>. QED
    BY <1>4, <2>1, <2>2
       DEF IoStep, IoEvent, Start, SetInterests, EventsDone, DrainStep, DropRuntime, ActionsDone
<1>5. ASSUME NEW id, NEW flag, Arrive(id, flag)
      PROVE  FALSE
  BY <1>5 DEF Arrive, vars
<1>6. CASE UNCHANGED ioVars
  BY <1>6 DEF ioVars, vars
<1>. QED
  BY <1>1, <1>2, <1>3, <1>4, <1>5, <1>6 DEF IoNext, IoOutside

\* No poll misses what is ready and wanted: the interests it was armed with are
\* those of that moment, and all that is armed is reported.
THEOREM PollMissesNothing == IoSafety => NothingMissed
<1>1. IoInv /\ PollsCurrentInterests /\ [IoNext]_ioVars
      => [pc = "poll" /\ pc' = "fire" /\ (events' # {} \/ "poll" \notin Faults) =>
            \A id \in Registered :
              LET due == ready[id] \cap (wants[id] \cup {"fail"})
              IN  due # {} => [id |-> id, revents |-> due] \in events']_ioVars
  <2>. SUFFICES ASSUME IoInv, PollsCurrentInterests, [IoNext]_ioVars,
                       pc = "poll", pc' = "fire", events' # {} \/ "poll" \notin Faults,
                       NEW id \in Registered, Reporting(id) # {}
                PROVE  [id |-> id, revents |-> Reporting(id)] \in events'
    BY ReportingWanted
  <2>1. id \in polled /\ id # WAKER
    <3>1. id \in polled
      BY DEF IoInv, ResourceInv, BooksInv, Registered
    <3>. QED
      BY <3>1, PollerAssumption DEF IoInv, TypeOK, LoopTypeOK, Registered, Ids, WAKER
  <2>2. ~ LevelTimesOut
    BY DEF LevelTimesOut
  <2>3. LevelPoll
    BY <2>2, PollSteps
  <2>4. PICK flags \in Reportable(WAKER) :
          Report([i \in polled |-> IF i = WAKER THEN flags ELSE Reporting(i)])
    BY <2>3 DEF LevelPoll
  <2>. DEFINE rev == [i \in polled |-> IF i = WAKER THEN flags ELSE Reporting(i)]
  <2>5. rev[id] = Reporting(id)
    BY <2>1
  <2>6. Report(rev)
    BY <2>4
  <2>. HIDE DEF rev
  <2>. QED
    BY <2>1, <2>5, <2>6 DEF Report
<1>. QED
  BY <1>1, IoCorrect, IoImplementsReactor, InterestsCurrent, PTL DEF IoSafety, NothingMissed

\* On such an engine too the loop keeps the promises about commands, timers and
\* resources.
THEOREM IoKeepsPromises == IoSafety => M!Safety /\ A!Safety /\ C!Safety
  BY IoImplementsReactor, ReactorImplementsMailbox, ReactorImplementsAlarms,
     ReactorImplementsCustody, PTL
=============================================================================
