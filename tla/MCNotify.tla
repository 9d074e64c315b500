------------------------------- MODULE MCNotify -------------------------------
(* Two scenarios of Notifications, checked in one run. *)
EXTENDS MCNotifications

VARIABLE scenario

\* Members, sessions and device tokens change under a notice to the group or a
\* push to everybody.
Moving ==
  /\ \A n \in Notices : notice[n].kind \in {"none", "group", "fcm"}
  /\ fails = 0 /\ used.crashes = 0 /\ used.refusals = 0
  /\ \A n \in Notices, u \in Users : rows[n][u] # "read"

\* Queries and sends fail and the process stops during a notice to one user or
\* a broadcast by mail; nobody has a second session.
Failing ==
  /\ \A n \in Notices : notice[n].kind \in {"none", "user", "email", "both"}
  /\ Len(sessions) <= 1
  /\ \A s \in Slots : call[s] = NoCall

ScenarioInit == Init /\ scenario \in {"moving", "failing"}

ScenarioNext ==
  /\ Next
  /\ UNCHANGED scenario
  /\ \/ scenario = "moving" /\ Moving' /\ UNCHANGED confirmed
     \/ scenario = "failing" /\ Failing' /\ UNCHANGED members

ScenarioSpec == ScenarioInit /\ [][ScenarioNext]_<<vars, scenario>>

=============================================================================
