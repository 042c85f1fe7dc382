------------------------------- MODULE Alarms -------------------------------
(***************************************************************************)
(* What the timers promise a service, whatever the loop does in between: a *)
(* deadline asked for is owed until a call of handle_timer made at or      *)
(* after it; one call settles all that are due; no call is made without    *)
(* one; and while a deadline stays due, the call comes.  The clock is the  *)
(* system's, which may be stepped either way, also to before its epoch.    *)
(***************************************************************************)
EXTENDS Integers

VARIABLES
  clock,  \* the system time
  owed,   \* the deadlines asked for and not yet answered
  bell,   \* flips with each call of handle_timer
  up      \* is the loop running?

alarmVars == <<clock, owed, bell, up>>

Due == {t \in owed : t <= clock}

Init ==
  /\ clock = 0
  /\ owed = {}
  /\ bell = FALSE
  /\ up = TRUE

Ask ==
  /\ up
  /\ \E t \in owed' : owed' = owed \cup {t}
  /\ UNCHANGED <<clock, bell, up>>

Ring ==
  /\ up
  /\ Due # {}
  /\ owed' = owed \ Due
  /\ bell' = ~bell
  /\ UNCHANGED <<clock, up>>

Pass ==
  /\ clock' \in Int
  /\ UNCHANGED <<owed, bell, up>>

Stop ==
  /\ up
  /\ up' = FALSE
  /\ UNCHANGED <<clock, owed, bell>>

Next == Ask \/ Ring \/ Pass \/ Stop

Safety == Init /\ [][Next]_alarmVars

Spec == Safety /\ WF_alarmVars(Ring)
=============================================================================
