----------------------------- MODULE RclcppGoal -----------------------------
(***************************************************************************)
(* The server-side goal handle of rclcpp_action, as the action servers of  *)
(* this node use it.  rclcpp_action is a library: the states and the legal *)
(* terminal transitions below are the ones its state machine has, and the  *)
(* servers rely on (a transition out of any other state throws).           *)
(***************************************************************************)

Live == {"executing", "canceling"}

Ended == {"succeeded", "aborted", "canceled"}

HandleStates == {"none", "rejected"} \cup Live \cup Ended

\* The three terminal calls: gh->succeed(), gh->abort(), gh->canceled().
TerminalCalls == {"succeed", "abort", "canceled"}

\* canceled() is legal only from CANCELING; succeed() and abort() from both
\* live states.  Every other call throws.
LegalCall(state, call) ==
  \/ state = "canceling"
  \/ state = "executing" /\ call # "canceled"

EndState(call) ==
  CASE call = "succeed" -> "succeeded"
    [] call = "abort" -> "aborted"
    [] OTHER -> "canceled"
=============================================================================
