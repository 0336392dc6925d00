------------------------- MODULE PlannedMoveServer -------------------------
(***************************************************************************)
(* PlannedMoveServer<ActionT> with the GoalRouter: the plan -> execute ->  *)
(* settle lifecycle of every GoTo action.                                  *)
(*                                                                         *)
(* Four kinds of thread touch a goal: the executor thread that accepts it  *)
(* and later runs its plan callback (pc), an executor thread serving a     *)
(* cancel request for it (canceler; all GoTo callbacks share a Reentrant   *)
(* group, so it runs beside the first), the Supervisor's sampler thread    *)
(* that settles what the driver owned (settling), and the planner that     *)
(* answers.  Each lock region and each call out of the server is a step of *)
(* its own; the code holds m_ across neither.                              *)
(*                                                                         *)
(* Left out: feedback, messages and log lines, the mapping of the planned  *)
(* trajectory, and a second cancel request that overlaps the first for the *)
(* same goal (it would repeat the same idempotent steps).                  *)
(***************************************************************************)
EXTENDS Driver, RclcppGoal

VARIABLES
  handle,           \* the goal's rclcpp handle
  result,           \* error_code of the result its client got, or "none"
  ackedCancel,      \* goals whose client was told its cancel is accepted
  goals,            \* keys of goals_ (guarded by m_)
  executing,        \* goals_[g].executing
  cancelRequested,  \* goals_[g].cancel_requested
  token,            \* goals_[g].token
  owners,           \* keys of GoalRouter::owners_
  pc,               \* the accepting / planning thread of each goal
  canceler,         \* the cancel thread of each goal
  ending,           \* terminal() on pc's thread: the code and the chosen call
  settling,         \* terminal() on the sampler thread
  unhanded,         \* history: goals whose handover the Arbiter dropped
  threw             \* history: goals with a terminal call that threw

clientVars == <<handle, result, ackedCancel>>
entryVars == <<goals, executing, cancelRequested, token>>
histVars == <<unhanded, threw>>
vars == <<driverVars, clientVars, entryVars, histVars,
          owners, pc, canceler, ending, settling>>

PlanPoints == {"planning", "submitting", "marking", "registering", "handing",
               "rereading", "recanceling", "deciding", "ending", "erasing"}
CancelPoints == {"idle", "to_driver", "to_planner", "transition"}
SettlePoints == {"idle", "routing", "looking", "deciding", "ending"}

TypeOK ==
  /\ DriverTypeOK
  /\ handle \in [Goals -> HandleStates]
  /\ result \in [Goals -> Codes \cup {"none"}]
  /\ ackedCancel \subseteq Goals
  /\ goals \subseteq Goals
  /\ executing \in [Goals -> BOOLEAN]
  /\ cancelRequested \in [Goals -> BOOLEAN]
  /\ token \in [Goals -> Tokens]
  /\ owners \subseteq Goals
  /\ pc \in [Goals -> {"none", "accepted", "returned"} \cup PlanPoints]
  /\ canceler \in [Goals -> CancelPoints]
  /\ ending \in [Goals -> [code : Codes, call : TerminalCalls]]
  /\ settling \in [at : SettlePoints, goal : Goals \cup {NoGoal},
                   code : Codes, call : TerminalCalls]
  /\ unhanded \subseteq Goals
  /\ threw \subseteq Goals

NoEnding == [code |-> "Successful", call |-> "abort"]
NotSettling == [at |-> "idle", goal |-> NoGoal, code |-> "Successful",
                call |-> "abort"]

Init ==
  /\ DriverInit
  /\ handle = [g \in Goals |-> "none"]
  /\ result = [g \in Goals |-> "none"]
  /\ ackedCancel = {}
  /\ goals = {}
  /\ executing = [g \in Goals |-> FALSE]
  /\ cancelRequested = [g \in Goals |-> FALSE]
  /\ token \in [Goals -> Tokens]
  /\ owners = {}
  /\ pc = [g \in Goals |-> "none"]
  /\ canceler = [g \in Goals |-> "idle"]
  /\ ending = [g \in Goals |-> NoEnding]
  /\ settling = NotSettling
  /\ unhanded = {}
  /\ threw = {}

GoTo(g, point) == pc' = [pc EXCEPT ![g] = point]

\* goals_.erase(g): the entry goes with its flags.
EraseEntry(g) ==
  /\ goals' = goals \ {g}
  /\ executing' = [executing EXCEPT ![g] = FALSE]
  /\ cancelRequested' = [cancelRequested EXCEPT ![g] = FALSE]

-----------------------------------------------------------------------------
(* terminal(): the handle is read, then one of three calls is made.        *)

\* Slips: the latched request in place of the handle's state; a failure
\* reported as a success.
ChoosesByRequest(g, code) ==
  CASE cancelRequested[g] -> "canceled"
    [] ~cancelRequested[g] /\ code = "Successful" -> "succeed"
    [] OTHER -> "abort"

NeverAborts(g, code) ==
  IF handle[g] = "canceling" THEN "canceled" ELSE "succeed"

ChosenCall(g, code) ==
  CASE handle[g] = "canceling" -> "canceled"
    [] handle[g] # "canceling" /\ code = "Successful" -> "succeed"
    [] OTHER -> "abort"

\* The call itself.  A throw is caught: the transition is dropped.
TerminalCall(g, e) ==
  IF LegalCall(handle[g], e.call)
  THEN /\ handle' = [handle EXCEPT ![g] = EndState(e.call)]
       /\ result' = [result EXCEPT ![g] = e.code]
       /\ UNCHANGED <<threw, ackedCancel>>
  ELSE /\ threw' = threw \cup {g}
       /\ UNCHANGED clientVars

-----------------------------------------------------------------------------
(* Accepting a goal.                                                       *)

\* handle_goal: no sink, no measured state, bad mode or gains, a latched
\* contact stop, or a goal the concrete server's validate() refuses.
RejectGoal(g) ==
  /\ handle[g] = "none"
  /\ handle' = [handle EXCEPT ![g] = "rejected"]
  /\ UNCHANGED <<driverVars, result, ackedCancel, entryVars, histVars, owners,
                 pc, canceler, ending, settling>>

\* handle_goal returns ACCEPT_AND_EXECUTE: rclcpp makes the handle, which a
\* cancel request can already find, and only then calls handle_accepted.
AcceptGoal(g) ==
  /\ handle[g] = "none"
  /\ ~contact
  /\ handle' = [handle EXCEPT ![g] = "executing"]
  /\ GoTo(g, "accepted")
  /\ UNCHANGED <<driverVars, result, ackedCancel, entryVars, histVars, owners,
                 canceler, ending, settling>>

\* handle_accepted: the entry with both flags cleared, then start_plan().
HandleAccepted(g) ==
  /\ pc[g] = "accepted"
  /\ goals' = goals \cup {g}
  /\ executing' = [executing EXCEPT ![g] = FALSE]
  /\ cancelRequested' = [cancelRequested EXCEPT ![g] = FALSE]
  /\ GoTo(g, "planning")
  /\ UNCHANGED <<driverVars, clientVars, token, histVars, owners, canceler,
                 ending, settling>>

-----------------------------------------------------------------------------
(* on_plan_done.                                                           *)

SettleLocal(g, code) ==
  /\ ending' = [ending EXCEPT ![g] = [code |-> code, call |-> "abort"]]
  /\ GoTo(g, "deciding")

\* Slip: a return without settle_local.
ForgetsFailure(g, usable) ==
  /\ pc[g] = "planning"
  /\ GoTo(g, IF usable /\ g \in goals THEN "submitting" ELSE "returned")
  /\ UNCHANGED <<driverVars, clientVars, entryVars, histVars, owners, canceler,
                 ending, settling>>

\* The planner answered.  `usable` stands for outcome.ok and every check of
\* the planned trajectory (check_plan, empty, width, joint names).
PlanDone(g, usable) ==
  /\ pc[g] = "planning"
  /\ \/ /\ g \notin goals
        /\ GoTo(g, "returned")
        /\ UNCHANGED ending
     \/ /\ g \in goals
        /\ handle[g] = "canceling"
        /\ SettleLocal(g, "Preempted")
     \/ /\ g \in goals
        /\ handle[g] # "canceling"
        /\ ~usable
        /\ SettleLocal(g, "PlanningFailed")
     \/ /\ g \in goals
        /\ handle[g] # "canceling"
        /\ usable
        /\ GoTo(g, "submitting")
        /\ UNCHANGED ending
  /\ UNCHANGED <<driverVars, clientVars, entryVars, histVars, owners, canceler,
                 settling>>

\* sink_->on_trajectory_goal(tg).  A refusal is settled here; the latch is
\* read again after it, so the code may be either one.
Submit(g) ==
  /\ pc[g] = "submitting"
  /\ \E response \in GoalResponses(token[g]) :
       \/ /\ response = "accept"
          /\ GoTo(g, "marking")
          /\ UNCHANGED ending
       \/ /\ response = "reject"
          /\ \E code \in {"ContactStop", "InvalidGoal"} : SettleLocal(g, code)
  /\ UNCHANGED <<driverVars, clientVars, entryVars, histVars, owners, canceler,
                 settling>>

\* Slips: the entry never says executing; the goal is not registered.
NeverExecuting(g) ==
  /\ pc[g] = "marking"
  /\ GoTo(g, "registering")
  /\ UNCHANGED <<driverVars, clientVars, entryVars, histVars, owners, canceler,
                 ending, settling>>

SkipsRegistration(g) ==
  /\ pc[g] = "marking"
  /\ executing' = [executing EXCEPT ![g] = @ \/ g \in goals]
  /\ GoTo(g, "handing")
  /\ UNCHANGED <<driverVars, clientVars, goals, cancelRequested, token,
                 histVars, owners, canceler, ending, settling>>

MarkExecuting(g) ==
  /\ pc[g] = "marking"
  /\ executing' = [executing EXCEPT ![g] = @ \/ g \in goals]
  /\ GoTo(g, "registering")
  /\ UNCHANGED <<driverVars, clientVars, goals, cancelRequested, token,
                 histVars, owners, canceler, ending, settling>>

RegisterOwner(g) ==
  /\ pc[g] = "registering"
  /\ owners' = owners \cup {g}
  /\ GoTo(g, "handing")
  /\ UNCHANGED <<driverVars, clientVars, entryVars, histVars, canceler, ending,
                 settling>>

\* sink_->on_trajectory_accepted(id, tg): gated like every call that can
\* command motion, and void, so a refusal leaves no trace here.
HandOver(g) ==
  /\ pc[g] = "handing"
  /\ PostGated(GoalMsg(g), token[g])
  /\ unhanded' = IF token[g] \in admits THEN unhanded ELSE unhanded \cup {g}
  /\ GoTo(g, "rereading")
  /\ UNCHANGED <<admits, contact, active, disturbances, clientVars, entryVars,
                 threw, owners, canceler, ending, settling>>

\* Slips: the flag is not read again; a latched cancel settles the goal the
\* driver already owns.
NeverRereads(g) ==
  /\ pc[g] = "rereading"
  /\ GoTo(g, "returned")
  /\ UNCHANGED <<driverVars, clientVars, entryVars, histVars, owners, canceler,
                 ending, settling>>

SettlesOwnedGoal(g) ==
  /\ pc[g] = "rereading"
  /\ IF g \in goals /\ cancelRequested[g] THEN SettleLocal(g, "Preempted")
     ELSE GoTo(g, "returned") /\ UNCHANGED ending
  /\ UNCHANGED <<driverVars, clientVars, entryVars, histVars, owners, canceler,
                 settling>>

\* cancel_requested, read again under m_ now that the driver owns the goal.
RereadCancel(g) ==
  /\ pc[g] = "rereading"
  /\ GoTo(g, IF g \in goals /\ cancelRequested[g] THEN "recanceling"
             ELSE "returned")
  /\ UNCHANGED <<driverVars, clientVars, entryVars, histVars, owners, canceler,
                 ending, settling>>

ReissueCancel(g) ==
  /\ pc[g] = "recanceling"
  /\ PostGated(CancelMsg(g), token[g])
  /\ GoTo(g, "returned")
  /\ UNCHANGED <<admits, contact, active, disturbances, clientVars, entryVars,
                 histVars, owners, canceler, ending, settling>>

\* settle_local -> terminal(): is_canceling(), the call, then erase(id).
DecideLocal(g) ==
  /\ pc[g] = "deciding"
  /\ ending' = [ending EXCEPT ![g] =
                  [code |-> @.code, call |-> ChosenCall(g, @.code)]]
  /\ GoTo(g, "ending")
  /\ UNCHANGED <<driverVars, clientVars, entryVars, histVars, owners, canceler,
                 settling>>

EndLocal(g) ==
  /\ pc[g] = "ending"
  /\ TerminalCall(g, ending[g])
  /\ ending' = [ending EXCEPT ![g] = NoEnding]
  /\ GoTo(g, "erasing")
  /\ UNCHANGED <<driverVars, entryVars, unhanded, owners, canceler, settling>>

Erase(g) ==
  /\ pc[g] = "erasing"
  /\ EraseEntry(g)
  /\ GoTo(g, "returned")
  /\ UNCHANGED <<driverVars, clientVars, token, histVars, owners, canceler,
                 ending, settling>>

-----------------------------------------------------------------------------
(* A cancel request for g, on another executor thread.                     *)

\* rclcpp offers handle_cancel only a goal that can still be canceled.  Under
\* m_: latch the request and learn who has the goal.  A goal with no entry
\* (yet) counts as planning and latches nothing.
HandleCancel(g) ==
  /\ canceler[g] = "idle"
  /\ handle[g] = "executing"
  /\ cancelRequested' = [cancelRequested EXCEPT ![g] = @ \/ g \in goals]
  /\ canceler' = [canceler EXCEPT ![g] =
                    IF g \in goals /\ executing[g] THEN "to_driver"
                    ELSE "to_planner"]
  /\ UNCHANGED <<driverVars, clientVars, goals, executing, token, histVars,
                 owners, pc, ending, settling>>

CancelAtDriver(g) ==
  /\ canceler[g] = "to_driver"
  /\ PostGated(CancelMsg(g), token[g])
  /\ canceler' = [canceler EXCEPT ![g] = "transition"]
  /\ UNCHANGED <<admits, contact, active, disturbances, clientVars, entryVars,
                 histVars, owners, pc, ending, settling>>

\* planner_.cancel(): it can only make the planner answer sooner, and the
\* planner may answer anything at any time here (PlanLegs models the slot).
CancelAtPlanner(g) ==
  /\ canceler[g] = "to_planner"
  /\ canceler' = [canceler EXCEPT ![g] = "transition"]
  /\ UNCHANGED <<driverVars, clientVars, entryVars, histVars, owners, pc,
                 ending, settling>>

\* handle_cancel returned ACCEPT: rclcpp moves the handle to CANCELING and
\* acknowledges, or rejects the cancel if the goal has ended meanwhile.
CancelTransition(g) ==
  /\ canceler[g] = "transition"
  /\ canceler' = [canceler EXCEPT ![g] = "idle"]
  /\ \/ /\ handle[g] = "executing"
        /\ handle' = [handle EXCEPT ![g] = "canceling"]
        /\ ackedCancel' = ackedCancel \cup {g}
     \/ /\ handle[g] # "executing"
        /\ UNCHANGED <<handle, ackedCancel>>
  /\ UNCHANGED <<driverVars, result, entryVars, histVars, owners, pc, ending,
                 settling>>

-----------------------------------------------------------------------------
(* The Supervisor's sampler thread.                                        *)

BeginSettle(g, code) ==
  settling' = [at |-> "routing", goal |-> g, code |-> code, call |-> "abort"]

PopInbox == inbox' = Tail(inbox)

\* A goal message: LATEST_WINS replaces the running goal, which settles
\* preempted; or the Supervisor no longer wants it and settles it at once.
DrainGoal ==
  /\ settling.at = "idle"
  /\ inbox # <<>> /\ Head(inbox).kind = "goal"
  /\ PopInbox
  /\ LET g == Head(inbox).goal IN
       \/ /\ active' = g
          /\ IF active = NoGoal THEN UNCHANGED settling
             ELSE BeginSettle(active, "Preempted")
       \/ /\ \E code \in {"InvalidGoal", "ContactStop"} :
               BeginSettle(g, code)
          /\ UNCHANGED active
  /\ UNCHANGED <<admits, contact, disturbances, clientVars, entryVars,
                 histVars, owners, pc, canceler, ending>>

\* A cancel for anything but the running goal drains against nothing.
DrainCancel ==
  /\ settling.at = "idle"
  /\ inbox # <<>> /\ Head(inbox).kind = "cancel"
  /\ PopInbox
  /\ IF active = Head(inbox).goal
     THEN BeginSettle(active, "Preempted") /\ active' = NoGoal
     ELSE UNCHANGED <<active, settling>>
  /\ UNCHANGED <<admits, contact, disturbances, clientVars, entryVars,
                 histVars, owners, pc, canceler, ending>>

DrainHalt ==
  /\ settling.at = "idle"
  /\ inbox # <<>> /\ Head(inbox).kind = "halt"
  /\ PopInbox
  /\ IF active = NoGoal THEN UNCHANGED <<active, settling>>
     ELSE BeginSettle(active, Head(inbox).code) /\ active' = NoGoal
  /\ UNCHANGED <<admits, contact, disturbances, clientVars, entryVars,
                 histVars, owners, pc, canceler, ending>>

\* The trajectory ends on its own, or the goal or the session of another
\* server takes the arm.
FinishMotion ==
  /\ settling.at = "idle"
  /\ active # NoGoal
  /\ \E code \in {"Successful", "PathTolerance", "Preempted"} :
       BeginSettle(active, code)
  /\ active' = NoGoal
  /\ UNCHANGED <<admits, contact, inbox, disturbances, clientVars, entryVars,
                 histVars, owners, pc, canceler, ending>>

\* GoalRouter::settle.  An unregistered goal goes to the default port, which
\* has no handle of that id and drops the result.
Route ==
  /\ settling.at = "routing"
  /\ owners' = owners \ {settling.goal}
  /\ settling' = IF settling.goal \in owners
                 THEN [settling EXCEPT !.at = "looking"] ELSE NotSettling
  /\ UNCHANGED <<driverVars, clientVars, entryVars, histVars, pc, canceler,
                 ending>>

\* settle(): find and erase under m_.
LookUp ==
  /\ settling.at = "looking"
  /\ EraseEntry(settling.goal)
  /\ settling' = IF settling.goal \in goals
                 THEN [settling EXCEPT !.at = "deciding"] ELSE NotSettling
  /\ UNCHANGED <<driverVars, clientVars, token, histVars, owners, pc, canceler,
                 ending>>

Decide ==
  /\ settling.at = "deciding"
  /\ settling' = [settling EXCEPT !.at = "ending",
                     !.call = ChosenCall(settling.goal, settling.code)]
  /\ UNCHANGED <<driverVars, clientVars, entryVars, histVars, owners, pc,
                 canceler, ending>>

End ==
  /\ settling.at = "ending"
  /\ TerminalCall(settling.goal, settling)
  /\ settling' = NotSettling
  /\ UNCHANGED <<driverVars, entryVars, unhanded, owners, pc, canceler, ending>>

-----------------------------------------------------------------------------
Environment ==
  /\ ChangeAuthority \/ LatchContact \/ ClearContact
  /\ UNCHANGED <<clientVars, entryVars, histVars, owners, pc, canceler, ending,
                 settling>>

PlanCallback(g) ==
  \/ Submit(g) \/ MarkExecuting(g) \/ RegisterOwner(g) \/ HandOver(g)
  \/ RereadCancel(g) \/ ReissueCancel(g)
  \/ DecideLocal(g) \/ EndLocal(g) \/ Erase(g)

CancelThread(g) ==
  CancelAtDriver(g) \/ CancelAtPlanner(g) \/ CancelTransition(g)

Drain == DrainGoal \/ DrainCancel \/ DrainHalt

Sampler == Drain \/ Route \/ LookUp \/ Decide \/ End

Next ==
  \/ \E g \in Goals : \/ RejectGoal(g) \/ AcceptGoal(g) \/ HandleAccepted(g)
                      \/ \E usable \in BOOLEAN : PlanDone(g, usable)
                      \/ PlanCallback(g)
                      \/ HandleCancel(g) \/ CancelThread(g)
  \/ Sampler \/ FinishMotion
  \/ Environment

Spec == Init /\ [][Next]_vars

\* Executor threads and the sampler keep running what they started, and the
\* planner answers every plan it was sent.
Fairness ==
  /\ \A g \in Goals :
       /\ WF_vars(HandleAccepted(g))
       /\ WF_vars(\E usable \in BOOLEAN : PlanDone(g, usable))
       /\ WF_vars(PlanCallback(g))
       /\ WF_vars(CancelThread(g))
  /\ WF_vars(Sampler)

FairSpec == Spec /\ Fairness

\* ... and every trajectory comes to an end by itself.
MotionEndsSpec == FairSpec /\ WF_vars(FinishMotion)
-----------------------------------------------------------------------------
(* Who owes a goal its result.                                             *)

\* The accepting or planning thread will settle g, or hand it over.
HeldByCallback(g) ==
  pc[g] \in {"accepted", "planning", "submitting", "marking", "registering",
             "handing", "deciding", "ending"}

Posted(g) == Occurs(GoalMsg(g), inbox)

\* The driver will settle g: it is in the inbox, running, or being settled.
HeldByDriver(g) == Posted(g) \/ active = g \/ settling.goal = g

\* ... and the router has not yet been asked whose it is.
AwaitsRouting(g) ==
  \/ Posted(g)
  \/ active = g
  \/ settling.goal = g /\ settling.at = "routing"

-----------------------------------------------------------------------------
(* Properties.                                                             *)

\* The catch in terminal() is never taken: no goal handle gets a second
\* terminal call, and canceled() is never called on a handle that is not
\* CANCELING, however a cancel races the check ("never twice: rclcpp throws").
NoTerminalThrow == threw = {}

\* A live goal is owed its result by exactly one of its plan callback and the
\* driver, and nobody still means to settle a goal that has ended.  The one
\* exception is a goal whose handover the Arbiter dropped.
ExactlyOneSettler ==
  \A g \in Goals :
    /\ ~(HeldByCallback(g) /\ HeldByDriver(g))
    /\ handle[g] \in Live /\ g \notin unhanded =>
         HeldByCallback(g) \/ HeldByDriver(g)
    /\ handle[g] \notin Live => ~HeldByCallback(g) /\ ~HeldByDriver(g)

\* Everything the driver has yet to settle is registered with the router and
\* still in goals_, so no result falls through to the default port or is
\* dropped by the lookup.
DriverGoalsRoutable ==
  \A g \in Goals :
    /\ AwaitsRouting(g) => g \in owners /\ g \in goals
    /\ settling.goal = g /\ settling.at = "looking" => g \in goals

\* Both threads that could still post g's cancel are past doing so.
CancelPosted(g) ==
  pc[g] \notin {"rereading", "recanceling"} /\ canceler[g] # "to_driver"

\* A cancel latched in goals_ is never lost in the handover: once nobody is
\* about to post it, the driver cannot run the goal past it.  (A cancel the
\* Arbiter refuses is one whose authority was lost, and that halted the arm.)
LatchedCancelPursued ==
  \A g \in Goals :
    g \in goals /\ cancelRequested[g] /\ CancelPosted(g)
      /\ (Posted(g) \/ active = g) => StopAhead(g, inbox)

\* A latched cancel ends its goal although the motion itself never ends.
LatchedCancelEnds ==
  \A g \in Goals :
    g \in goals /\ cancelRequested[g] ~> handle[g] \in Ended \/ g \in unhanded

\* The goals and their results are an ActionGoal: this server implements the
\* contract its clients rely on, and with no authority lost on the way also
\* the promise that every accepted goal ends.
Contract == INSTANCE ActionGoal WITH
  Goals <- Goals, Codes <- Codes,
  handle <- handle, result <- result, ackedCancel <- ackedCancel

ImplementsContract == Contract!SafeSpec

ImplementsContractLive == Contract!Spec

\* planned_move_server.h:39-41: "every goal terminals its ServerGoalHandle
\* EXACTLY once - never zero (the client hangs)".
EveryAcceptedGoalEnds ==
  \A g \in Goals : handle[g] \in Live ~> handle[g] \in Ended

\* planned_move_server.h:376-380: a cancel accepted before the driver owns
\* the goal is re-issued once it does, so no accepted cancel is lost.
AckedCancelPursued ==
  \A g \in Goals :
    g \in ackedCancel /\ CancelPosted(g) /\ (Posted(g) \/ active = g)
      => StopAhead(g, inbox)
-----------------------------------------------------------------------------
(* The inductive invariant behind the properties above.                    *)

\* A call chosen in terminal() stays legal and fits the code it reports.
ChosenInv(g, e) ==
  /\ e.call = "canceled" => handle[g] = "canceling"
  /\ e.call = "succeed" => e.code = "Successful"
  /\ e.call = "abort" => e.code # "Successful"

\* What each point of the plan callback knows of its goal.
CallbackInv(g) ==
  /\ pc[g] # "none" <=> handle[g] \in Live \cup Ended
  /\ HeldByCallback(g) => handle[g] \in Live /\ ~HeldByDriver(g)
  /\ HeldByCallback(g) /\ pc[g] # "accepted" => g \in goals
  /\ pc[g] = "handing" => g \in owners
  /\ pc[g] = "ending" => ChosenInv(g, ending[g])
  /\ pc[g] = "erasing" => handle[g] \in Ended

\* What the driver holding a goal implies, and that it holds it in one place.
DriverInv(g) ==
  /\ HeldByDriver(g) => handle[g] \in Live
                        /\ pc[g] \in {"rereading", "recanceling", "returned"}
  /\ AwaitsRouting(g) => g \in owners /\ g \in goals
  /\ settling.goal = g /\ settling.at = "looking" => g \in goals
  /\ settling.goal = g /\ settling.at = "ending" => ChosenInv(g, settling)
  /\ AtMostOnce(GoalMsg(g), inbox)
  /\ active = g => ~Posted(g)
  /\ settling.goal = g => ~Posted(g) /\ active # g

\* A goal that is live past its handover is with the driver, unless the
\* Arbiter dropped it there.
OwedInv(g) ==
  handle[g] \in Live /\ g \notin unhanded => HeldByCallback(g) \/ HeldByDriver(g)

\* The sampler has a goal in hand exactly while it settles one.
SettlingInv == settling.at = "idle" <=> settling.goal = NoGoal

\* What a latched cancel can count on: a goal handed over is marked executing,
\* so that a later request goes to the driver; and one the Arbiter no longer
\* admits has a halt behind it, so that its cancel may be refused.
CancelInv(g) ==
  /\ pc[g] \in {"registering", "handing", "rereading", "recanceling", "returned"}
       /\ g \in goals => executing[g]
  /\ (Posted(g) \/ active = g) /\ token[g] \notin admits => StopAhead(g, inbox)

IInv ==
  /\ TypeOK
  /\ NoTerminalThrow
  /\ SettlingInv
  /\ \A g \in Goals : CallbackInv(g) /\ DriverInv(g) /\ OwedInv(g)
=============================================================================
