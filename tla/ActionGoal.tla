----------------------------- MODULE ActionGoal -----------------------------
(***************************************************************************)
(* What an action server of this node promises the clients of its goals,   *)
(* and nothing of how: a goal is rejected, or it is accepted and ends      *)
(* exactly once with one result; a cancel is acknowledged only while the   *)
(* goal runs; only a goal whose cancel was acknowledged ends CANCELED, one *)
(* that ends SUCCEEDED reports Successful and one that ends ABORTED does   *)
(* not.                                                                    *)
(***************************************************************************)
CONSTANTS Goals, Codes

VARIABLES handle, result, ackedCancel

contractVars == <<handle, result, ackedCancel>>

Running(g) == handle[g] \in {"executing", "canceling"}

Init ==
  /\ handle = [g \in Goals |-> "none"]
  /\ result = [g \in Goals |-> "none"]
  /\ ackedCancel = {}

Reject(g) ==
  /\ handle[g] = "none"
  /\ handle' = [handle EXCEPT ![g] = "rejected"]
  /\ UNCHANGED <<result, ackedCancel>>

Accept(g) ==
  /\ handle[g] = "none"
  /\ handle' = [handle EXCEPT ![g] = "executing"]
  /\ UNCHANGED <<result, ackedCancel>>

AckCancel(g) ==
  /\ handle[g] = "executing"
  /\ handle' = [handle EXCEPT ![g] = "canceling"]
  /\ ackedCancel' = ackedCancel \cup {g}
  /\ UNCHANGED result

Finish(g, status, code) ==
  /\ Running(g)
  /\ status = "canceled" => handle[g] = "canceling"
  /\ status = "succeeded" => code = "Successful"
  /\ status = "aborted" => code # "Successful"
  /\ handle' = [handle EXCEPT ![g] = status]
  /\ result' = [result EXCEPT ![g] = code]
  /\ UNCHANGED ackedCancel

End(g) ==
  \E status \in {"succeeded", "aborted", "canceled"}, code \in Codes :
    Finish(g, status, code)

Next == \E g \in Goals : Reject(g) \/ Accept(g) \/ AckCancel(g) \/ End(g)

SafeSpec == Init /\ [][Next]_contractVars

Spec == SafeSpec /\ \A g \in Goals : WF_contractVars(End(g))
=============================================================================
