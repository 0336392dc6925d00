-------------------------- MODULE CuroboPlanClient --------------------------
(***************************************************************************)
(* CuroboPlanClient: what dispatch_plan() and cancel() do with the planner *)
(* and with the one cancel slot every plan shares.                         *)
(*                                                                         *)
(* The planner is an action server of another process: it may be absent,   *)
(* refuse a plan, answer any plan it took in any order, and answer a plan  *)
(* it was asked to cancel.  rclcpp_action runs a plan's goal response      *)
(* callback before it asks for the plan's result.                          *)
(***************************************************************************)
CONSTANTS
  Plans,      \* the plans that may be dispatched
  NoPlan,     \* an empty active_cancel_
  Cancelers   \* the threads that may call cancel(), one per goal

ASSUME PlanAssumption == NoPlan \notin Plans

VARIABLES
  plan,       \* where each plan is
  slot,       \* active_cancel_: the plan it cancels, or NoPlan
  copied,     \* cancel()'s local copy of the slot
  told        \* the plans each has asked the planner to give up

cancelVars == <<copied, told>>
clientVars == <<plan, slot, cancelVars>>

Answered == {"ok", "failed"}

PlanStates == {"none", "sent", "inflight"} \cup Answered

ClientTypeOK ==
  /\ plan \in [Plans -> PlanStates]
  /\ slot \in Plans \cup {NoPlan}
  /\ copied \in [Cancelers -> Plans \cup {NoPlan}]
  /\ told \in [Cancelers -> SUBSET Plans]

ClientInit ==
  /\ plan = [p \in Plans |-> "none"]
  /\ slot = NoPlan
  /\ copied = [c \in Cancelers |-> NoPlan]
  /\ told = [c \in Cancelers |-> {}]

MovePlan(p, from, to) ==
  /\ plan[p] = from
  /\ plan' = [plan EXCEPT ![p] = to]

\* wait_for_action_server(200 ms), then async_send_goal; an absent server
\* fails the plan on the caller's thread.
DispatchPlan(p) ==
  /\ MovePlan(p, "none", "sent") \/ MovePlan(p, "none", "failed")
  /\ UNCHANGED <<slot, cancelVars>>

\* Slip: the accepted plan does not take the slot.
LeavesSlotEmpty(p) ==
  /\ MovePlan(p, "sent", "inflight") \/ MovePlan(p, "sent", "failed")
  /\ UNCHANGED <<slot, cancelVars>>

\* goal_response_callback: an accepted plan takes the slot over.
GoalResponse(p) ==
  /\ \/ MovePlan(p, "sent", "inflight") /\ slot' = p
     \/ MovePlan(p, "sent", "failed") /\ UNCHANGED slot
  /\ UNCHANGED cancelVars

\* Slip: the slot outlives its plan.
KeepsSlot(p) ==
  /\ \E answer \in Answered : MovePlan(p, "inflight", answer)
  /\ UNCHANGED <<slot, cancelVars>>

\* result_callback: the slot is emptied, whoever's it is by now.
PlanResult(p) ==
  /\ \E answer \in Answered : MovePlan(p, "inflight", answer)
  /\ slot' = NoPlan
  /\ UNCHANGED cancelVars

\* cancel(): the slot is copied under m_ ...
CopySlot(c) ==
  /\ copied' = [copied EXCEPT ![c] = slot]
  /\ UNCHANGED <<plan, slot, told>>

\* Slip: what is called is the slot as it is by then.
CallSlot(c) ==
  /\ told' = [told EXCEPT ![c] = {slot} \ {NoPlan}]
  /\ UNCHANGED <<plan, slot, copied>>

\* ... and the copy, if there is one, is called after it: async_cancel_goal().
\* The planner may give the plan up then, which it may do anyway, or have
\* answered it by now.
CallCopy(c) ==
  /\ told' = [told EXCEPT ![c] = {copied[c]} \ {NoPlan}]
  /\ UNCHANGED <<plan, slot, copied>>
=============================================================================
