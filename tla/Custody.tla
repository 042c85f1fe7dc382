------------------------------- MODULE Custody -------------------------------
(***************************************************************************)
(* What the reactor promises about a resource: it is lent to the reactor   *)
(* once, under an id of its own, and comes back at most once, handed over  *)
(* on request or reported as failed.  Only what is lent is noticed, what   *)
(* is noticed is attended to, and a resource handed over leaves nothing    *)
(* behind that was noticed and not attended to.                            *)
(***************************************************************************)
CONSTANT Ids

VARIABLES
  owner,    \* of each id: "none", lent as one of Kinds, or one of Gone
  noticed,  \* ids with events the service has not been called for
  up        \* is the loop running?

custodyVars == <<owner, noticed, up>>

Kinds == {"listener", "transport"}
Gone  == {"returned", "failed"}

Lent == {id \in Ids : owner[id] \in Kinds}

Init ==
  /\ owner = [id \in Ids |-> "none"]
  /\ noticed = {}
  /\ up = TRUE

Lend(id) ==
  /\ up
  /\ owner[id] = "none"
  /\ \E kind \in Kinds : owner' = [owner EXCEPT ![id] = kind]
  /\ UNCHANGED <<noticed, up>>

Notice ==
  /\ up
  /\ noticed \subseteq noticed'
  /\ noticed' \subseteq Lent
  /\ UNCHANGED <<owner, up>>

\* A resource with an event is served, or found to have failed.
Attend(id) ==
  /\ up
  /\ id \in noticed
  /\ noticed' = noticed \ {id}
  /\ owner' \in {owner, [owner EXCEPT ![id] = "failed"]}
  /\ UNCHANGED up

Return(id) ==
  /\ up
  /\ id \in Lent \ noticed
  /\ \E how \in Gone : owner' = [owner EXCEPT ![id] = how]
  /\ UNCHANGED <<noticed, up>>

Stop ==
  /\ up
  /\ up' = FALSE
  /\ UNCHANGED <<owner, noticed>>

Next ==
  \/ \E id \in Ids : Lend(id) \/ Attend(id) \/ Return(id)
  \/ Notice
  \/ Stop

Safety == Init /\ [][Next]_custodyVars

Spec == Safety /\ \A id \in Ids : WF_custodyVars(Attend(id))
=============================================================================
