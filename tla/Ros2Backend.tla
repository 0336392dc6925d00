----------------------------- MODULE Ros2Backend -----------------------------
(***************************************************************************)
(* Ros2Backend as the server of execute_joint_trajectory, and the default  *)
(* port behind the GoalRouter.                                             *)
(*                                                                         *)
(* The goal, cancel and accepted callbacks share the node's default        *)
(* mutually exclusive group, and rclcpp_action runs handle_goal, the       *)
(* making of the handle and handle_accepted in one of them: at most one    *)
(* request is in progress (executor).  Beside it the Supervisor's sampler  *)
(* thread settles goals (settling) and the environment takes authority     *)
(* away.  Each lock region and each call out is a step of its own.         *)
(*                                                                         *)
(* Left out: /set_gains, feedback, the state topics and diagnostics, and   *)
(* the mapping of the goal's contents.                                     *)
(***************************************************************************)
EXTENDS Driver, RclcppGoal

VARIABLES
  handle,           \* the goal's rclcpp handle
  result,           \* error_code of the result its client got, or "none"
  ackedCancel,      \* goals whose client was told its cancel is accepted
  handles,          \* keys of handles_ (guarded by m_)
  token,            \* the token each goal carries, and its entry keeps
  executor,         \* the request the callback group is serving
  settling,         \* settle() on the sampler thread
  unhanded,         \* history: goals whose handover the Arbiter dropped
  threw             \* history: goals with a terminal call that threw

clientVars == <<handle, result, ackedCancel>>
histVars == <<unhanded, threw>>
vars == <<driverVars, clientVars, histVars, handles, token, executor, settling>>

ExecutorPoints == {"idle", "submitting", "storing", "handing", "canceling",
                   "acknowledging"}
SettlePoints == {"idle", "looking", "deciding", "ending"}

\* known: handle_cancel found the goal's entry, and with it its token.
Idle == [at |-> "idle", goal |-> NoGoal, known |-> FALSE]
NotSettling == [at |-> "idle", goal |-> NoGoal, code |-> "Successful",
                call |-> "abort"]

TypeOK ==
  /\ DriverTypeOK
  /\ handle \in [Goals -> HandleStates]
  /\ result \in [Goals -> Codes \cup {"none"}]
  /\ ackedCancel \subseteq Goals
  /\ handles \subseteq Goals
  /\ token \in [Goals -> Tokens]
  /\ executor \in [at : ExecutorPoints, goal : Goals \cup {NoGoal},
                   known : BOOLEAN]
  /\ settling \in [at : SettlePoints, goal : Goals \cup {NoGoal},
                   code : Codes, call : TerminalCalls]
  /\ unhanded \subseteq Goals
  /\ threw \subseteq Goals

Init ==
  /\ DriverInit
  /\ handle = [g \in Goals |-> "none"]
  /\ result = [g \in Goals |-> "none"]
  /\ ackedCancel = {}
  /\ handles = {}
  /\ token \in [Goals -> Tokens]
  /\ executor = Idle
  /\ settling = NotSettling
  /\ unhanded = {}
  /\ threw = {}

Serve(point, g, known) ==
  executor' = [at |-> point, goal |-> g, known |-> known]

-----------------------------------------------------------------------------
(* A goal request.                                                         *)

\* handle_goal's own checks: no sink, points, joint names, speed_scale, mode
\* and gains, or a latched contact stop.
RejectGoal(g) ==
  /\ executor.at = "idle" /\ handle[g] = "none"
  /\ handle' = [handle EXCEPT ![g] = "rejected"]
  /\ UNCHANGED <<driverVars, result, ackedCancel, histVars, handles, token,
                 executor, settling>>

PassChecks(g) ==
  /\ executor.at = "idle" /\ handle[g] = "none"
  /\ ~contact
  /\ Serve("submitting", g, FALSE)
  /\ UNCHANGED <<driverVars, clientVars, histVars, handles, token, settling>>

\* sink_->on_trajectory_goal, and the handle rclcpp makes of an acceptance.
Submit(g) ==
  /\ executor.at = "submitting" /\ executor.goal = g
  /\ \E response \in GoalResponses(token[g]) :
       \/ /\ response = "accept"
          /\ handle' = [handle EXCEPT ![g] = "executing"]
          /\ Serve("storing", g, FALSE)
       \/ /\ response = "reject"
          /\ handle' = [handle EXCEPT ![g] = "rejected"]
          /\ executor' = Idle
  /\ UNCHANGED <<driverVars, result, ackedCancel, histVars, handles, token,
                 settling>>

\* Slips: no entry is made; the goal is never handed over.
StoresNothing(g) ==
  /\ executor.at = "storing" /\ executor.goal = g
  /\ Serve("handing", g, FALSE)
  /\ UNCHANGED <<driverVars, clientVars, histVars, handles, token, settling>>

StopsAfterStoring(g) ==
  /\ executor.at = "storing" /\ executor.goal = g
  /\ handles' = handles \cup {g}
  /\ executor' = Idle
  /\ UNCHANGED <<driverVars, clientVars, histVars, token, settling>>

\* handle_accepted: the entry with the goal's token ...
StoreHandle(g) ==
  /\ executor.at = "storing" /\ executor.goal = g
  /\ handles' = handles \cup {g}
  /\ Serve("handing", g, FALSE)
  /\ UNCHANGED <<driverVars, clientVars, histVars, token, settling>>

\* ... then sink_->on_trajectory_accepted, gated and void.
HandOver(g) ==
  /\ executor.at = "handing" /\ executor.goal = g
  /\ PostGated(GoalMsg(g), token[g])
  /\ unhanded' = IF token[g] \in admits THEN unhanded ELSE unhanded \cup {g}
  /\ executor' = Idle
  /\ UNCHANGED <<admits, contact, active, disturbances, clientVars, threw,
                 handles, token, settling>>

-----------------------------------------------------------------------------
(* A cancel request.                                                       *)

\* handle_cancel, under m_: the token to replay.
FindToken(g) ==
  /\ executor.at = "idle" /\ handle[g] = "executing"
  /\ Serve("canceling", g, g \in handles)
  /\ UNCHANGED <<driverVars, clientVars, histVars, handles, token, settling>>

\* The zero token of a goal with no entry passes only unenforced.
CancelAdmitted(g) ==
  IF executor.known THEN token[g] \in admits ELSE ~Enforced /\ admits # {}

\* Slip: the client is told yes, the driver nothing.
TellsOnlyClient(g) ==
  /\ executor.at = "canceling" /\ executor.goal = g
  /\ Serve("acknowledging", g, executor.known)
  /\ UNCHANGED <<driverVars, clientVars, histVars, handles, token, settling>>

\* sink_->on_trajectory_cancel: what the Arbiter refuses is refused here.
CancelAtSink(g) ==
  /\ executor.at = "canceling" /\ executor.goal = g
  /\ \/ /\ CancelAdmitted(g)
        /\ inbox' = Append(inbox, CancelMsg(g))
        /\ Serve("acknowledging", g, executor.known)
     \/ /\ ~CancelAdmitted(g)
        /\ executor' = Idle
        /\ UNCHANGED inbox
  /\ UNCHANGED <<admits, contact, active, disturbances, clientVars, histVars,
                 handles, token, settling>>

\* ACCEPT: rclcpp moves the handle to CANCELING, unless it has ended.
Acknowledge(g) ==
  /\ executor.at = "acknowledging" /\ executor.goal = g
  /\ \/ /\ handle[g] = "executing"
        /\ handle' = [handle EXCEPT ![g] = "canceling"]
        /\ ackedCancel' = ackedCancel \cup {g}
     \/ /\ handle[g] # "executing"
        /\ UNCHANGED <<handle, ackedCancel>>
  /\ executor' = Idle
  /\ UNCHANGED <<driverVars, result, histVars, handles, token, settling>>

-----------------------------------------------------------------------------
(* The Supervisor's sampler thread: the driver ends a goal, settle() tells *)
(* its client.                                                             *)

BeginSettle(g, code) ==
  settling' = [at |-> "looking", goal |-> g, code |-> code, call |-> "abort"]

\* LATEST_WINS preempts the running goal; a goal no longer wanted ends at once.
TakeGoal(g) ==
  \/ /\ active' = g
     /\ IF active = NoGoal THEN UNCHANGED settling
        ELSE BeginSettle(active, "Preempted")
  \/ /\ \E code \in {"InvalidGoal", "ContactStop"} : BeginSettle(g, code)
     /\ UNCHANGED active

StopActive(code) ==
  BeginSettle(active, code) /\ active' = NoGoal

Drain ==
  /\ settling.at = "idle" /\ inbox # <<>>
  /\ inbox' = Tail(inbox)
  /\ LET m == Head(inbox) IN
       \/ m.kind = "goal" /\ TakeGoal(m.goal)
       \/ m.kind = "cancel" /\ active = m.goal /\ StopActive("Preempted")
       \/ m.kind = "cancel" /\ active # m.goal /\ UNCHANGED <<active, settling>>
       \/ m.kind = "halt" /\ active # NoGoal /\ StopActive(m.code)
       \/ m.kind = "halt" /\ active = NoGoal /\ UNCHANGED <<active, settling>>
  /\ UNCHANGED <<admits, contact, disturbances, clientVars, histVars, handles,
                 token, executor>>

\* The trajectory ends on its own, or the goal or the session of another
\* server takes the arm.
FinishMotion ==
  /\ settling.at = "idle" /\ active # NoGoal
  /\ \E code \in {"Successful", "PathTolerance", "Preempted"} : StopActive(code)
  /\ UNCHANGED <<admits, contact, inbox, disturbances, clientVars, histVars,
                 handles, token, executor>>

\* settle(): find and erase under m_ ...
LookUp ==
  /\ settling.at = "looking"
  /\ handles' = handles \ {settling.goal}
  /\ settling' = IF settling.goal \in handles
                 THEN [settling EXCEPT !.at = "deciding"] ELSE NotSettling
  /\ UNCHANGED <<driverVars, clientVars, histVars, token, executor>>

\* Slips: a preempted goal taken for a canceled one; a failure reported as a
\* success.
ChoosesByCode(g, code) ==
  CASE code = "Preempted" -> "canceled"
    [] code = "Successful" -> "succeed"
    [] OTHER -> "abort"

NeverAborts(g, code) ==
  IF handle[g] = "canceling" THEN "canceled" ELSE "succeed"

\* ... is_canceling() and the error code choose the call ...
ChosenCall(g, code) ==
  CASE handle[g] = "canceling" -> "canceled"
    [] handle[g] # "canceling" /\ code = "Successful" -> "succeed"
    [] OTHER -> "abort"

Decide ==
  /\ settling.at = "deciding"
  /\ settling' = [settling EXCEPT !.at = "ending",
                     !.call = ChosenCall(settling.goal, settling.code)]
  /\ UNCHANGED <<driverVars, clientVars, histVars, handles, token, executor>>

\* ... and a call that throws is caught: the transition is dropped.
End ==
  /\ settling.at = "ending"
  /\ LET g == settling.goal IN
       \/ /\ LegalCall(handle[g], settling.call)
          /\ handle' = [handle EXCEPT ![g] = EndState(settling.call)]
          /\ result' = [result EXCEPT ![g] = settling.code]
          /\ UNCHANGED threw
       \/ /\ ~LegalCall(handle[g], settling.call)
          /\ threw' = threw \cup {g}
          /\ UNCHANGED <<handle, result>>
  /\ settling' = NotSettling
  /\ UNCHANGED <<driverVars, ackedCancel, unhanded, handles, token, executor>>

-----------------------------------------------------------------------------
Environment ==
  /\ ChangeAuthority \/ LatchContact \/ ClearContact
  /\ UNCHANGED <<clientVars, histVars, handles, token, executor, settling>>

Request(g) ==
  \/ Submit(g) \/ StoreHandle(g) \/ HandOver(g)
  \/ CancelAtSink(g) \/ Acknowledge(g)

Settle == LookUp \/ Decide \/ End

Next ==
  \/ \E g \in Goals : \/ RejectGoal(g) \/ PassChecks(g) \/ FindToken(g)
                      \/ Request(g)
  \/ Drain \/ Settle \/ FinishMotion
  \/ Environment

Spec == Init /\ [][Next]_vars

\* The executor finishes what it started; the sampler keeps running.
FairSpec ==
  /\ Spec
  /\ WF_vars(\E g \in Goals : Request(g))
  /\ WF_vars(Drain \/ Settle)
-----------------------------------------------------------------------------
(* Who owes a goal its result.                                             *)

\* The request that made the handle has still to hand the goal over.
HeldByRequest(g) ==
  executor.at \in {"storing", "handing"} /\ executor.goal = g

Posted(g) == Occurs(GoalMsg(g), inbox)

HeldByDriver(g) == Posted(g) \/ active = g \/ settling.goal = g

-----------------------------------------------------------------------------
(* Properties.                                                             *)

\* The catch in settle() is never taken.  is_canceling() can flip between the
\* check and the call, but only to CANCELING, from which every call is legal.
NoTerminalThrow == threw = {}

\* A live goal is owed its result by exactly one of its request and the
\* driver, and nobody still means to settle one that has ended or was never
\* accepted (but for a goal whose handover the Arbiter dropped).
ExactlyOneSettler ==
  \A g \in Goals :
    /\ ~(HeldByRequest(g) /\ HeldByDriver(g))
    /\ handle[g] \in Live /\ g \notin unhanded =>
         HeldByRequest(g) \/ HeldByDriver(g)
    /\ handle[g] \notin Live => ~HeldByRequest(g) /\ ~HeldByDriver(g)

\* A goal the driver has is known here until its settle() looks it up, so its
\* result is not dropped and a cancel for it replays the token it came with
\* ("a zero token ... be REFUSED under kEnforced").
DriverGoalsKnown ==
  \A g \in Goals :
    /\ Posted(g) \/ active = g => g \in handles
    /\ executor = [at |-> "canceling", goal |-> g, known |-> FALSE] =>
         ~Posted(g) /\ active # g

\* An acknowledged cancel is one the driver was told of, behind the goal it
\* is for: as long as the driver has the goal, a stop is still ahead of it.
\* (The arm is never left running a goal its client believes cancelled.)
AckedCancelPursued ==
  \A g \in ackedCancel : Posted(g) \/ active = g => StopAhead(g, inbox)

\* So it ends the goal although the motion itself never ends.
AckedCancelEnds ==
  \A g \in Goals :
    g \in ackedCancel ~> handle[g] \in Ended \/ g \in unhanded

\* execute_joint_trajectory keeps the contract of an action of this node.
Contract == INSTANCE ActionGoal WITH
  Goals <- Goals, Codes <- Codes,
  handle <- handle, result <- result, ackedCancel <- ackedCancel

ImplementsContract == Contract!SafeSpec
-----------------------------------------------------------------------------
(* The inductive invariant behind the safety properties.                   *)

\* Each thread has a goal in hand exactly while it is busy.
ThreadsInv ==
  /\ settling.at = "idle" <=> settling.goal = NoGoal
  /\ executor.at = "idle" <=> executor.goal = NoGoal

\* What each point of a request knows of its goal.
RequestInv(g) ==
  /\ executor.goal = g /\ executor.at = "submitting" => handle[g] = "none"
  /\ HeldByRequest(g) => handle[g] = "executing" /\ ~HeldByDriver(g)
  /\ executor.goal = g /\ executor.at = "handing" => g \in handles

\* What the driver holding a goal implies, and that it holds it in one place.
DriverInv(g) ==
  /\ HeldByDriver(g) => handle[g] \in Live
  /\ Posted(g) \/ active = g => g \in handles
  /\ settling.goal = g /\ settling.at = "ending" =>
       /\ settling.call = "canceled" => handle[g] = "canceling"
       /\ settling.call = "succeed" => settling.code = "Successful"
       /\ settling.call = "abort" => settling.code # "Successful"
  /\ settling.goal = g /\ settling.at = "looking" => g \in handles
  /\ AtMostOnce(GoalMsg(g), inbox)
  /\ active = g => ~Posted(g)
  /\ settling.goal = g => ~Posted(g) /\ active # g

\* The driver accepted a cancel of g, acknowledged to its client yet or not.
CancelTold(g) ==
  g \in ackedCancel \/ (executor.at = "acknowledging" /\ executor.goal = g)

\* Such a cancel is ahead of the sampler, and an acknowledged one shows.
CancelInv(g) ==
  /\ g \in ackedCancel => handle[g] \in {"canceling"} \cup Ended
  /\ CancelTold(g) /\ (Posted(g) \/ active = g) => StopAhead(g, inbox)

\* A live goal is owed by somebody, unless its handover was dropped.
OwedInv(g) ==
  handle[g] \in Live /\ g \notin unhanded => HeldByRequest(g) \/ HeldByDriver(g)

IInv ==
  /\ TypeOK
  /\ NoTerminalThrow
  /\ ThreadsInv
  /\ DriverGoalsKnown
  /\ \A g \in Goals : RequestInv(g) /\ DriverInv(g) /\ CancelInv(g) /\ OwedInv(g)
=============================================================================
