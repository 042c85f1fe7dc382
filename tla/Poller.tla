------------------------------- MODULE Poller -------------------------------
(***************************************************************************)
(* poller/popol.rs: the popol-backed Poller.  It assigns resource ids,     *)
(* keeps the polled sources with the events they are armed for, and queues *)
(* what the last poll reported.  popol itself is external: a source is     *)
(* reported at most once per poll, for events it is armed for or for a     *)
(* failure.  Unregistering a source does not purge its queued events.      *)
(***************************************************************************)
EXTENDS Naturals

CONSTANT MaxIds  \* bound: number of registrations

ASSUME PollerAssumption == MaxIds \in Nat

VARIABLES
  polled,  \* ids of the sources popol polls, WAKER included
  armed,   \* the Io events each resource is armed for
  events,  \* the queue of reported events
  nextId   \* id_gen: the id of the next registration

pollerVars == <<polled, armed, events, nextId>>

WAKER == 0
Ids   == 1..MaxIds
Io    == {"read", "write"}

\* POLLIN, POLLOUT, and "fail" for any of POLLHUP, POLLERR and POLLNVAL: both
\* kinds of IoFail take the same path through the reactor.
Flags == Io \cup {"fail"}

Event == [id : {WAKER} \cup Ids, revents : SUBSET Flags]

PollerTypeOK ==
  /\ polled \subseteq {WAKER} \cup Ids
  /\ armed \in [Ids -> SUBSET Io]
  /\ events \subseteq Event
  /\ nextId \in 1..(MaxIds + 1)

PollerInit ==
  /\ polled = {}
  /\ armed = [id \in Ids |-> {}]
  /\ events = {}
  /\ nextId = 1

\* Poll::register_waker; its panic needs a second registration.
RegisterWaker ==
  /\ polled' = polled \cup {WAKER}
  /\ UNCHANGED <<armed, events, nextId>>

\* Poll::register of a fresh id, with ResourceIdGenerator::next.
RegisterSameId(interest) ==  \* mutant: the generator does not advance
  /\ nextId \in Ids
  /\ polled' = polled \cup {nextId}
  /\ armed' = [armed EXCEPT ![nextId] = interest]
  /\ UNCHANGED <<events, nextId>>

Register(interest) ==
  /\ nextId \in Ids
  /\ polled' = polled \cup {nextId}
  /\ armed' = [armed EXCEPT ![nextId] = interest]
  /\ nextId' = nextId + 1
  /\ UNCHANGED events

\* Poll::unregister; the caller says what happens to the queue.
UnregisterNothing(id) == UNCHANGED <<polled, armed, nextId>>  \* mutant

Unregister(id) ==
  /\ polled' = polled \ {id}
  /\ armed' = [armed EXCEPT ![id] = {}]
  /\ UNCHANGED nextId

\* Poll::set_interest: unset what is not in the interest, then set what is.
RearmedSetOnly(old, interest) == old \cup interest  \* mutant: no unset

Rearmed(old, interest) == (old \ (Io \ interest)) \cup interest

SetInterest(ids, interest) ==
  /\ armed' = [id \in Ids |-> IF id \in ids THEN Rearmed(armed[id], interest[id])
                                            ELSE armed[id]]
  /\ UNCHANGED <<polled, events, nextId>>

\* Poll::poll succeeding with the flags rev[id] for each source.
Report(rev) ==
  /\ events' = events \cup {[id |-> i, revents |-> rev[i]] :
                              i \in {j \in polled : rev[j] # {}}}
  /\ UNCHANGED <<polled, armed, nextId>>

\* Iterator::next on the Poller: an event leaves the queue, as IoFail when the
\* source has failed, readable or not.  The order of the queue is popol's, so
\* any event may come next.
TakeNot(e) == UNCHANGED events  \* mutant: the event is read and stays

Take(e) == events' = events \ {e}

Failed(e) == "fail" \in e.revents

\* Iterator::next on an IoType: write before read.
FirstIo(flags) == IF "write" \in flags THEN "write" ELSE "read"
=============================================================================
