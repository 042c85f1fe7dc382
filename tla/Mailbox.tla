------------------------------- MODULE Mailbox -------------------------------
(***************************************************************************)
(* What the Controllers are promised, whatever the channel, the waker and  *)
(* the loop do: an accepted command is delivered once and in its turn;     *)
(* the first shutdown request draws a line, all commands before it and     *)
(* none behind it are delivered, and then the loop ends.  Only a panic     *)
(* ends it otherwise; after it, and once the channel is closed, nothing is *)
(* delivered any more.                                                     *)
(***************************************************************************)
EXTENDS Naturals

CONSTANT Senders

VARIABLES
  accepted,   \* how many commands of each sender have been accepted,
  delivered,  \* and how many the service has got
  shut, cut,  \* has a shutdown been requested, and `accepted` when it was
  phase       \* "running", ended by "shutdown" or "panicked", then "gone"

mailVars == <<accepted, delivered, shut, cut, phase>>

Init ==
  /\ accepted = [s \in Senders |-> 0]
  /\ delivered = [s \in Senders |-> 0]
  /\ shut = FALSE
  /\ cut = [s \in Senders |-> 0]
  /\ phase = "running"

Accept(s) ==
  /\ phase # "gone"
  /\ accepted' = [accepted EXCEPT ![s] = @ + 1]
  /\ UNCHANGED <<delivered, shut, cut, phase>>

\* The first request; later ones change nothing.
Close ==
  /\ phase # "gone"
  /\ ~shut
  /\ shut' = TRUE
  /\ cut' = accepted
  /\ UNCHANGED <<accepted, delivered, phase>>

Deliver(s) ==
  /\ phase = "running"
  /\ delivered[s] < (IF shut THEN cut ELSE accepted)[s]
  /\ delivered' = [delivered EXCEPT ![s] = @ + 1]
  /\ UNCHANGED <<accepted, shut, cut, phase>>

Finish ==
  /\ phase = "running"
  /\ shut
  /\ delivered = cut
  /\ phase' = "shutdown"
  /\ UNCHANGED <<accepted, delivered, shut, cut>>

Fail ==
  /\ phase = "running"
  /\ phase' = "panicked"
  /\ UNCHANGED <<accepted, delivered, shut, cut>>

Leave ==
  /\ phase \in {"shutdown", "panicked"}
  /\ phase' = "gone"
  /\ UNCHANGED <<accepted, delivered, shut, cut>>

Next ==
  \/ \E s \in Senders : Accept(s) \/ Deliver(s)
  \/ Close
  \/ Finish
  \/ Fail
  \/ Leave

Safety == Init /\ [][Next]_mailVars

Spec ==
  /\ Safety
  /\ \A s \in Senders : WF_mailVars(Deliver(s))
  /\ WF_mailVars(Finish \/ Leave)
=============================================================================
