----------------------------- MODULE ScmService -----------------------------
(***************************************************************************)
(* What the service controller may rely on: the states a service goes      *)
(* through.  A pending state ends in the state it announces or gives way   *)
(* to a stop; a stop is never taken back; the service may end at any time, *)
(* after a fatal error; and a service that has stopped stays stopped.      *)
(***************************************************************************)
VARIABLE state

PendingStates == {"START_PENDING", "PAUSE_PENDING", "CONTINUE_PENDING", "STOP_PENDING"}
QuietStates == {"RUNNING", "PAUSED"}
States == {"NOT_STARTED", "STOPPED"} \cup PendingStates \cup QuietStates

\* The state each pending state announces.
Announced ==
  [START_PENDING |-> "RUNNING", PAUSE_PENDING |-> "PAUSED",
   CONTINUE_PENDING |-> "RUNNING", STOP_PENDING |-> "STOPPED"]

Init == state = "NOT_STARTED"

Start == state = "NOT_STARTED" /\ state' = "START_PENDING"

\* Pause and continue are accepted in both quiet states.
Control ==
  /\ state \in QuietStates
  /\ state' \in {"PAUSE_PENDING", "CONTINUE_PENDING"}

Stop ==
  /\ state \notin {"NOT_STARTED", "STOP_PENDING", "STOPPED"}
  /\ state' = "STOP_PENDING"

Finish == state \in PendingStates /\ state' = Announced[state]

\* The service ends, whatever it was doing.
End == state # "STOPPED" /\ state' = "STOPPED"

Next == Start \/ Control \/ Stop \/ Finish \/ End

Spec == Init /\ [][Next]_state

\* Nothing stays pending.
FairSpec == Spec /\ WF_state(Finish)
=============================================================================
