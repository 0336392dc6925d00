------------------------------ MODULE PlanLegs ------------------------------
(***************************************************************************)
(* Planning a goal: plan_legs() chains one plan per target and a blend for *)
(* the many-target servers, the single-target servers send one plan, and   *)
(* all of them share one CuroboPlanClient.                                 *)
(*                                                                         *)
(* A chain runs on whatever executor thread delivers the plan it waits     *)
(* for; a cancel of its goal runs beside it on another (canceler).  The    *)
(* goal counts as canceling, which is what the chain asks, only after      *)
(* handle_cancel has called planner_.cancel() and returned.                *)
(*                                                                         *)
(* Left out: the trajectories, feedback and failure texts.                 *)
(***************************************************************************)
EXTENDS Naturals, CuroboPlanClient

CONSTANTS
  Chains,     \* GoTo goals
  Targets,    \* how many targets each has
  Many        \* the goals of the many-target servers

ASSUME ChainAssumption ==
  /\ Targets \in [Chains -> Nat \ {0}]
  /\ Many \subseteq Chains
  /\ \A c \in Chains \ Many : Targets[c] = 1
  /\ Cancelers = Chains
  /\ Plans = UNION {{c} \X (1 .. Targets[c] + 1) : c \in Chains}

VARIABLES
  phase,      \* where each chain is
  step,       \* the leg it is at; the blend comes after the last
  answers,    \* history: how often its on_done has been called
  canceling,  \* goals whose handle is CANCELING
  canceler,   \* where the cancel thread of each goal is
  late,       \* history: plans dispatched although the goal was canceling
  found,      \* history: the plans in flight when the goal's cancel read the
              \* slot
  alone       \* history: goals canceled before any other had begun to plan

chainVars == <<phase, step, answers, late>>
handleVars == <<canceling, canceler, found, alone>>
vars == <<clientVars, chainVars, handleVars>>

TypeOK ==
  /\ ClientTypeOK
  /\ phase \in [Chains -> {"idle", "asking", "dispatching", "waiting", "done"}]
  /\ step \in [Chains -> Nat] /\ \A c \in Chains : step[c] \in 1 .. Targets[c] + 1
  /\ answers \in [Chains -> Nat]
  /\ canceling \subseteq Chains
  /\ canceler \in [Chains -> {"idle", "copied", "called", "acked"}]
  /\ late \in [Chains -> Nat]
  /\ found \in [Chains -> SUBSET Plans]
  /\ alone \subseteq Chains

Init ==
  /\ ClientInit
  /\ phase = [c \in Chains |-> "idle"]
  /\ step = [c \in Chains |-> 1]
  /\ answers = [c \in Chains |-> 0]
  /\ canceling = {}
  /\ canceler = [c \in Chains |-> "idle"]
  /\ late = [c \in Chains |-> 0]
  /\ found = [c \in Chains |-> {}]
  /\ alone = {}

Enter(c, point) == phase' = [phase EXCEPT ![c] = point]

\* c.on_done(...)
OnDone(c) ==
  /\ answers' = [answers EXCEPT ![c] = @ + 1]
  /\ Enter(c, "done")

-----------------------------------------------------------------------------
(* The chain.                                                              *)

\* start_plan(): a chain begins with plan_leg(0), a single plan() at once.
StartPlan(c) ==
  /\ phase[c] = "idle"
  /\ Enter(c, IF c \in Many THEN "asking" ELSE "dispatching")
  /\ UNCHANGED <<clientVars, step, answers, late, handleVars>>

\* Slips: a canceled chain answers and goes on; a cancel is not looked at.
AnswersAndGoesOn(c) ==
  /\ phase[c] = "asking"
  /\ answers' = [answers EXCEPT ![c] = IF c \in canceling THEN @ + 1 ELSE @]
  /\ Enter(c, "dispatching")
  /\ UNCHANGED <<clientVars, step, late, handleVars>>

NeverAsks(c) ==
  /\ phase[c] = "asking"
  /\ Enter(c, "dispatching")
  /\ UNCHANGED <<clientVars, step, answers, late, handleVars>>

\* stop_if_canceled(), before every leg and the blend.
Ask(c) ==
  /\ phase[c] = "asking"
  /\ \/ c \in canceling /\ OnDone(c)
     \/ c \notin canceling /\ Enter(c, "dispatching") /\ UNCHANGED answers
  /\ UNCHANGED <<clientVars, step, late, handleVars>>

\* Slip: one plan at a time, because they share one cancel slot.
DispatchWhenFree(c) ==
  /\ phase[c] = "dispatching" /\ slot = NoPlan
  /\ DispatchPlan(<<c, step[c]>>)
  /\ late' = [late EXCEPT ![c] = IF c \in canceling THEN @ + 1 ELSE @]
  /\ Enter(c, "waiting")
  /\ UNCHANGED <<step, answers, handleVars>>

\* plan(), plan_to_joints() or blend()
Dispatch(c) ==
  /\ phase[c] = "dispatching"
  /\ DispatchPlan(<<c, step[c]>>)
  /\ late' = [late EXCEPT ![c] = IF c \in canceling THEN @ + 1 ELSE @]
  /\ Enter(c, "waiting")
  /\ UNCHANGED <<step, answers, handleVars>>

\* The plan's DoneCb: the next leg, the blend after the last one, or on_done.
Continue(c) ==
  /\ phase[c] = "waiting"
  /\ LET answer == plan[<<c, step[c]>>]
         last == step[c] >= IF c \in Many THEN Targets[c] + 1 ELSE Targets[c] IN
       /\ answer \in Answered
       /\ \/ (answer = "failed" \/ last) /\ OnDone(c) /\ UNCHANGED step
          \/ /\ answer = "ok" /\ ~last
             /\ step' = [step EXCEPT ![c] = @ + 1]
             /\ Enter(c, "asking")
             /\ UNCHANGED answers
  /\ UNCHANGED <<clientVars, late, handleVars>>

-----------------------------------------------------------------------------
(* handle_cancel for a goal that is planning.                              *)

InFlight == {p \in Plans : plan[p] = "inflight"}

OthersIdle(c) == \A d \in Chains \ {c} : phase[d] = "idle"

CancelPlanning(c) ==
  /\ canceler[c] = "idle" /\ phase[c] # "idle"
  /\ CopySlot(c)
  /\ found' = [found EXCEPT ![c] = InFlight]
  /\ alone' = IF OthersIdle(c) THEN alone \cup {c} ELSE alone
  /\ canceler' = [canceler EXCEPT ![c] = "copied"]
  /\ UNCHANGED <<chainVars, canceling>>

CallCancel(c) ==
  /\ canceler[c] = "copied"
  /\ CallCopy(c)
  /\ canceler' = [canceler EXCEPT ![c] = "called"]
  /\ UNCHANGED <<chainVars, canceling, found, alone>>

\* handle_cancel has returned ACCEPT: the handle is CANCELING.
AckCancel(c) ==
  /\ canceler[c] = "called"
  /\ canceler' = [canceler EXCEPT ![c] = "acked"]
  /\ canceling' = canceling \cup {c}
  /\ UNCHANGED <<clientVars, chainVars, found, alone>>

-----------------------------------------------------------------------------
ChainStep(c) == Ask(c) \/ Dispatch(c) \/ Continue(c)

CancelStep(c) == CallCancel(c) \/ AckCancel(c)

PlannerStep(p) ==
  /\ GoalResponse(p) \/ PlanResult(p)
  /\ UNCHANGED <<chainVars, handleVars>>

\* The planner answers what the goal's own chain has sent it.
PlannerServes(c) == \E k \in 1 .. Targets[c] + 1 : PlannerStep(<<c, k>>)

Next ==
  \/ \E c \in Chains : \/ StartPlan(c) \/ ChainStep(c)
                       \/ CancelPlanning(c) \/ CancelStep(c)
  \/ \E p \in Plans : PlannerStep(p)

Spec == Init /\ [][Next]_vars

\* Executor threads go on with what they started.  Nothing obliges the planner
\* to answer: it is another process, and no timeout is set on its plans.
FairSpec ==
  /\ Spec
  /\ \A c \in Chains : WF_vars(ChainStep(c)) /\ WF_vars(CancelStep(c))
-----------------------------------------------------------------------------
(* Properties.                                                             *)

\* "on_done fires EXACTLY ONCE": a chain of legs and a blend is, for its server,
\* one request with at most one plan at the planner, which answers at most
\* once, whatever path it ends on, and leaves no plan behind.
AtPlanner(c) == {k \in 1 .. Targets[c] + 1 : plan[<<c, k>>] \in {"sent", "inflight"}}

Request == INSTANCE PlanRequest WITH
  Requests <- Chains,
  Legs <- [c \in Chains |-> 1 .. Targets[c] + 1],
  asked <- {c \in Chains : phase[c] # "idle"},
  working <- [c \in Chains |-> AtPlanner(c)],
  answers <- answers

ImplementsRequest == Request!Spec

\* A canceled goal costs the planner at most one more plan: the one a chain
\* had already been cleared to dispatch when the cancel was acknowledged.
OnePlanPastCancel == \A c \in Chains : late[c] <= 1

OwnPlans(c) == {c} \X (1 .. Targets[c] + 1)

\* "Cancels whichever plan is in flight": a cancel of a planning goal asks the
\* planner to give up nothing but the plan that was in flight when it read the
\* slot, whatever is answered, accepted and dispatched before it calls; and if no
\* other goal had begun to plan, it asks for every plan that was, which is the
\* goal's own.  In flight is accepted: a plan that is sent and not yet accepted,
\* or dispatched later, is at the planner and missed.  Beside another goal a
\* cancel may reach that goal's plan, or, once one of the two was answered,
\* neither.
CancelReachesThePlan ==
  \A c \in Chains :
    canceler[c] \in {"called", "acked"} =>
      /\ told[c] \subseteq found[c]
      /\ c \in alone => told[c] = found[c] /\ found[c] \subseteq OwnPlans(c)

\* A planner that dies on one goal holds up no other: a goal gets its answer if
\* its own plans are answered, whatever becomes of the others' and whatever is
\* canceled when.
OthersHoldUpNobody ==
  \A c \in Chains :
    WF_vars(PlannerServes(c)) => (phase[c] # "idle" ~> answers[c] = 1)

-----------------------------------------------------------------------------
(* The inductive invariant behind the safety properties.                   *)

\* How far each chain is in its plans: those behind it are answered, those
\* ahead of it are not yet dispatched.
ProgressInv(c) ==
  /\ answers[c] = IF phase[c] = "done" THEN 1 ELSE 0
  /\ \A k \in 1 .. Targets[c] + 1 :
       /\ k < step[c] => plan[<<c, k>>] \in Answered
       /\ k > step[c] => plan[<<c, k>>] = "none"
  /\ phase[c] \in {"idle", "asking", "dispatching"} =>
       plan[<<c, step[c]>>] = "none"
  /\ phase[c] = "done" => plan[<<c, step[c]>>] \in {"none"} \cup Answered

\* A chain cleared to dispatch was not canceled when it asked.
LateInv(c) ==
  /\ late[c] <= 1
  /\ c \notin canceling \/ phase[c] \in {"idle", "dispatching"} => late[c] = 0

\* active_cancel_ never outlives its plan: whatever interleaving of plans, the
\* slot names one the planner still has.
SlotIsLive == slot # NoPlan => plan[slot] = "inflight"

\* Until a second goal begins to plan, the accepted plan is in the slot.
InFlightIsCancelable ==
  \A c \in Chains : OthersIdle(c) => \A p \in InFlight : slot = p

\* What a cancel has read, and what it has called.
CancelInv(c) ==
  /\ copied[c] # NoPlan => copied[c] \in found[c]
  /\ c \in alone =>
       /\ canceler[c] # "idle"
       /\ found[c] \subseteq {copied[c]} /\ found[c] \subseteq OwnPlans(c)
  /\ canceler[c] \in {"called", "acked"} => told[c] = {copied[c]} \ {NoPlan}

\* The chains, their plans and the slot, without what the cancels have read.
ChainsInv ==
  /\ TypeOK /\ SlotIsLive
  /\ \A c \in Chains : ProgressInv(c) /\ LateInv(c)

IInv ==
  /\ ChainsInv /\ InFlightIsCancelable
  /\ \A c \in Chains : CancelInv(c)
=============================================================================
