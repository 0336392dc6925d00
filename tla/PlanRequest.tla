---------------------------- MODULE PlanRequest ----------------------------
(***************************************************************************)
(* What a server is promised of a request to plan a goal, and nothing of   *)
(* how: the request has the planner work on one of its plans at a time,    *)
(* and answers once, when the planner works on none; an answered request   *)
(* never goes back to the planner.                                         *)
(***************************************************************************)
CONSTANTS
  Requests,   \* planning requests
  Legs        \* the plans each may need

VARIABLES asked, working, answers

requestVars == <<asked, working, answers>>

Init ==
  /\ asked = {}
  /\ working = [r \in Requests |-> {}]
  /\ answers = [r \in Requests |-> 0]

Ask(r) ==
  /\ r \notin asked
  /\ asked' = asked \cup {r}
  /\ UNCHANGED <<working, answers>>

\* Open requests with nothing at the planner.
Between(r) == r \in asked /\ answers[r] = 0 /\ working[r] = {}

Plan(r, leg) ==
  /\ Between(r)
  /\ working' = [working EXCEPT ![r] = {leg}]
  /\ UNCHANGED <<asked, answers>>

Planned(r) ==
  /\ working[r] # {}
  /\ working' = [working EXCEPT ![r] = {}]
  /\ UNCHANGED <<asked, answers>>

Answer(r) ==
  /\ Between(r)
  /\ answers' = [answers EXCEPT ![r] = 1]
  /\ UNCHANGED <<asked, working>>

Next ==
  \E r \in Requests :
    Ask(r) \/ Planned(r) \/ Answer(r) \/ \E leg \in Legs[r] : Plan(r, leg)

Spec == Init /\ [][Next]_requestVars
=============================================================================
