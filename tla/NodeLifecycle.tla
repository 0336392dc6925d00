--------------------------- MODULE NodeLifecycle ---------------------------
(***************************************************************************)
(* bringup_node: the main thread, which fetches the robot's model, builds  *)
(* and wires the node, runs the link and takes the node down; the signals  *)
(* that may reach it at any moment; the executor's thread and the          *)
(* telemetry drain thread, with /clear_faults as the one callback that may *)
(* wait.                                                                   *)
(*                                                                         *)
(* Until main installs on_sigint, rclcpp's own handler takes a signal: it  *)
(* shuts the context down, which ends the wait for the model, and no node, *)
(* publisher or service can be made any more.                              *)
(*                                                                         *)
(* Going down, main waits for the executor, the executor for the call in   *)
(* progress, the call for the link, and the link ran on main; the drain    *)
(* thread waits for g_stop.  What unties this knot is g_stop alone.        *)
(*                                                                         *)
(* Left out: which flag, model or parameter is wrong, and the callbacks    *)
(* other than /clear_faults, none of which waits on this node's threads.   *)
(***************************************************************************)
EXTENDS LinkServer

VARIABLES
  main,            \* where the main thread is
  executor,        \* the executor's thread: off, starting, spinning, canceled,
                   \* or joined
  drain,           \* the drain thread: off, popping, or returned
  context,         \* rclcpp's context: rclcpp::ok() while it is valid
  onSignal,        \* who takes a signal: rclcpp's handler or on_sigint
  status,          \* how main ends: its exit code, or the uncaught exception
  signaledIn       \* history: where main was when the first signal came

threadVars == <<executor, drain>>
startVars == <<context, onSignal, status>>
vars == <<linkVars, stop, callVars, main, threadVars, startVars, signaledIn>>

Starting == {"parsing", "creating", "waiting", "taking", "no model",
             "installing", "building", "configuring", "wiring", "setup"}

WindingDown == {"stopping", "disarming", "canceling", "joining spin", "joining drain"}

MainPoints == Starting \cup {"running"} \cup WindingDown \cup {"exited"}

\* An exception main does not catch is one that a misconfiguration throws, or
\* that a context already shut down does.
Statuses == {"none", "0", "1", "2", "misconfigured", "no context"}

TypeOK ==
  /\ LinkTypeOK
  /\ main \in MainPoints
  /\ executor \in {"off", "starting", "spinning", "canceled", "joined"}
  /\ drain \in {"off", "popping", "returned"}
  /\ context \in {"valid", "shut"}
  /\ onSignal \in {"rclcpp", "on_sigint"}
  /\ status \in Statuses
  /\ signaledIn \in MainPoints \cup {"never"}

Init ==
  /\ LinkInit
  /\ main = "parsing"
  /\ executor = "off" /\ drain = "off"
  /\ context = "valid" /\ onSignal = "rclcpp"
  /\ status = "none"
  /\ signaledIn = "never"

-----------------------------------------------------------------------------
(* Signals, and the start.                                                 *)

ok == context = "valid"

\* SIGINT or SIGTERM, at any time.  on_sigint only stores the flag.
Signal ==
  /\ main # "exited"
  /\ \/ onSignal = "rclcpp" /\ ok /\ context' = "shut" /\ UNCHANGED stop
     \/ onSignal = "on_sigint" /\ ~stop /\ stop' = TRUE /\ UNCHANGED context
  /\ signaledIn' = IF signaledIn = "never" THEN main ELSE signaledIn
  /\ UNCHANGED <<linkVars, callVars, main, threadVars, onSignal, status>>

Goto(from, to) ==
  /\ main = from
  /\ main' = to
  /\ UNCHANGED startVars

Exit(from, code) ==
  /\ main = from
  /\ main' = "exited"
  /\ status' = code
  /\ UNCHANGED <<context, onSignal>>

\* The command line: --urdf is refused, a number that is none throws.
Parse ==
  Goto("parsing", "creating") \/ Exit("parsing", "2") \/ Exit("parsing", "misconfigured")

\* The node and the subscription of wait_for_robot_description().
CreateNode ==
  IF ok THEN Goto("creating", "waiting") ELSE Exit("creating", "no context")

\* The loop's test: it goes on, or ends at its timeout or by a signal.
Wait == (ok /\ Goto("waiting", "taking")) \/ Goto("waiting", "no model")

\* spin_once takes the model, or nothing: a signal does not stop it half-way.
Take == Goto("taking", "installing") \/ Goto("taking", "waiting")

\* rclcpp::ok() is read again: was the wait interrupted?
NoModel == Exit("no model", IF ok THEN "1" ELSE "0")

\* Slip: std::signal after the servers are wired.
InstallsLater ==
  \/ Goto("installing", "building")
  \/ /\ main = "setup" /\ onSignal = "rclcpp"
     /\ onSignal' = "on_sigint"
     /\ UNCHANGED <<main, context, status>>

\* std::signal(SIGINT, on_sigint) and the same for SIGTERM
InstallHandlers ==
  /\ main = "installing"
  /\ main' = "building"
  /\ onSignal' = "on_sigint"
  /\ UNCHANGED <<context, status>>

\* Dynamics and joint_state_names() throw on a model they cannot use, which is
\* reported; the watch on the model's topic throws without a context.
Build ==
  \/ Exit("building", "1")
  \/ IF ok THEN Goto("building", "configuring") ELSE Exit("building", "no context")

\* Transport, modes, contact detection, arbitration mode: what is misconfigured
\* is reported, or throws.
Configure ==
  \/ Goto("configuring", "wiring")
  \/ \E code \in {"1", "2", "misconfigured"} : Exit("configuring", code)

\* Servers, Supervisor, Arbiter, the speed scale and the link.
Wire ==
  \/ Goto("wiring", "setup")
  \/ \E code \in {"1", "misconfigured"} : Exit("wiring", code)

\* A signal during setup is a requested stop: do not connect to the arm.
ReturnEarly == stop /\ Exit("setup", "0")

Start ==
  /\ \/ Parse \/ CreateNode \/ Wait \/ Take \/ NoModel
     \/ InstallHandlers \/ Build \/ Configure \/ Wire \/ ReturnEarly
  /\ UNCHANGED <<linkVars, stop, callVars, threadVars, signaledIn>>

-----------------------------------------------------------------------------
(* Running, and going down.                                                *)

\* sup.start() and the two threads; then link.run(g_stop).
StartThreads ==
  /\ ~stop /\ Goto("setup", "running")
  /\ executor' = "starting"
  /\ drain' = "popping"
  /\ UNCHANGED <<linkVars, stop, callVars, signaledIn>>

\* ex.spin() is reached on its own thread, some time later.
SpinBegins ==
  /\ executor = "starting"
  /\ executor' = "spinning"
  /\ UNCHANGED <<linkVars, stop, callVars, main, drain, startVars, signaledIn>>

LinkReturns ==
  /\ stop /\ Goto("running", "stopping")
  /\ UNCHANGED <<linkVars, stop, callVars, threadVars, signaledIn>>

\* Slip: the catch does not set g_stop.
LeavesStopUnset ==
  /\ main = "running" /\ link = "connecting"
  /\ main' = "stopping" /\ status' = "1"
  /\ UNCHANGED <<linkVars, stop, callVars, threadVars, context, onSignal, signaledIn>>

\* link.run throws a configuration error (it cannot drive this arm).
LinkThrows ==
  /\ main = "running" /\ link = "connecting"
  /\ main' = "stopping" /\ status' = "1"
  /\ stop' = TRUE
  /\ UNCHANGED <<linkVars, callVars, threadVars, context, onSignal, signaledIn>>

\* sup.stop(), then base->safe_shutdown(): callbacks are still served.
MakeSafe ==
  /\ Goto("stopping", "disarming") \/ Goto("disarming", "canceling")
  /\ UNCHANGED <<linkVars, stop, callVars, threadVars, signaledIn>>

\* ex.cancel(): no further callback is started.  rclcpp forgets a cancel that
\* comes before spin().
CancelExecutor ==
  /\ Goto("canceling", "joining spin")
  /\ executor' = IF executor = "spinning" THEN "canceled" ELSE executor
  /\ UNCHANGED <<linkVars, stop, callVars, drain, signaledIn>>

\* Slip: ros_spin is left to itself.
SkipsJoin ==
  /\ Goto("joining spin", "joining drain")
  /\ UNCHANGED <<linkVars, stop, callVars, threadVars, signaledIn>>

\* ros_spin.join(): spin() returns when the callbacks in progress have.
JoinSpin ==
  /\ executor = "canceled" /\ at = "idle"
  /\ Goto("joining spin", "joining drain")
  /\ executor' = "joined"
  /\ UNCHANGED <<linkVars, stop, callVars, drain, signaledIn>>

\* drain.join(), rclcpp::shutdown(), return rc.
JoinDrain ==
  /\ drain = "returned"
  /\ Exit("joining drain", IF status = "none" THEN "0" ELSE status)
  /\ UNCHANGED <<linkVars, stop, callVars, threadVars, signaledIn>>

\* The drain thread pops until g_stop, and once more after it.
DrainReturns ==
  /\ drain = "popping" /\ stop
  /\ drain' = "returned"
  /\ UNCHANGED <<linkVars, stop, callVars, main, executor, startVars, signaledIn>>

-----------------------------------------------------------------------------
Arm ==
  /\ main = "running"
  /\ ArmEvent \/ ContactEvent \/ ResolveClear
  /\ UNCHANGED <<stop, main, threadVars, startVars, signaledIn>>

ClearFaults ==
  /\ executor = "spinning"
  /\ CallClear
  /\ UNCHANGED <<main, threadVars, startVars, signaledIn>>

OnClear == ClearStep /\ UNCHANGED <<main, threadVars, startVars, signaledIn>>

Deadline == AnswerLate /\ UNCHANGED <<main, threadVars, startVars, signaledIn>>

MainStep ==
  \/ Start \/ StartThreads \/ LinkReturns
  \/ MakeSafe \/ CancelExecutor \/ JoinSpin \/ JoinDrain

Next ==
  \/ Signal \/ LinkThrows
  \/ MainStep \/ SpinBegins \/ DrainReturns
  \/ Arm
  \/ ClearFaults \/ OnClear \/ Deadline

Spec == Init /\ [][Next]_vars

\* The threads of the node keep running, and the wait for the model has a
\* timeout.  Nothing is asked of the arm, nor of the deadline of /clear_faults.
FairSpec ==
  Spec /\ WF_vars(MainStep) /\ WF_vars(DrainReturns) /\ WF_vars(OnClear)
-----------------------------------------------------------------------------
(* Properties.                                                             *)

\* What the threads use (the node, the servers, the ring) lives on main's
\* stack: when main returns neither thread runs and no call is in progress,
\* whichever way main left the link.
NothingOutlivesMain ==
  main = "exited" =>
    /\ executor \in {"off", "joined"} /\ at = "idle"
    /\ drain \in {"off", "returned"}

\* The node exits with 0 only when it was asked to stop, and a signal is always
\* such a request: no signal makes what is being created throw, and one during
\* the wait for the model is not reported as a missing model.  Two gaps are
\* left to rclcpp's handler: before the wait, and between the model's arrival,
\* in a spin_once under way, and std::signal.
StopsCleanly ==
  main = "exited" =>
    /\ status = "0" => signaledIn # "never"
    /\ signaledIn \in {"waiting", "no model"} => status = "0"
    /\ status = "no context" =>
         signaledIn \in {"parsing", "creating", "taking", "installing"}

\* The executor's thread had not reached spin() when it was canceled.
CancelLost == main = "joining spin" /\ executor \in {"starting", "spinning"}

\* Whenever the signal comes the node ends, and a link that gives up takes it
\* down: no wait for a model and no join lasts for ever, not even for a
\* /clear_faults whose deadline is far away and whose link will never take it
\* up ("rather than holding up shutdown").  The one exception is a stop so
\* early that the cancel comes before the spin.
ShutdownCompletes ==
  /\ signaledIn # "never" ~> main = "exited" \/ CancelLost
  /\ main \in WindingDown ~> main = "exited" \/ CancelLost

\* Every /clear_faults is answered, whatever the link does or does not do, if
\* only steady_clock passes the deadline of a call that goes on polling.
EveryClearAnswered == SF_vars(Deadline) => (at # "idle" ~> at = "idle")
-----------------------------------------------------------------------------
(* A premise of NodeEnds, ClearsEnd and SpinningNodesEnd.                      *)

\* When the actions the fairness is about are enabled: main at its joins and
\* while the link runs, the drain thread at its inbox, a poll of /clear_faults
\* with nothing to report.  It follows from their guards and claims nothing of
\* the code.
WaitsOnlyHere ==
  /\ ENABLED <<MainStep>>_vars <=>
       \/ main \in Starting \cup {"stopping", "disarming", "canceling"}
       \/ main = "running" /\ stop
       \/ main = "joining spin" /\ executor = "canceled" /\ at = "idle"
       \/ main = "joining drain" /\ drain = "returned"
  /\ ENABLED <<DrainReturns>>_vars <=> drain = "popping" /\ stop
  /\ ENABLED <<OnClear>>_vars <=> at # "idle"
  /\ ENABLED <<Deadline>>_vars <=> at = "judging" /\ seen.clears = before /\ ~stop
-----------------------------------------------------------------------------
(* The inductive invariant behind the safety properties.                   *)

\* Which threads exist at each point of main, and that an executor which is
\* not there serves no call.
ThreadsInv ==
  /\ main \in Starting => executor = "off" /\ drain = "off"
  /\ executor \in {"off", "starting", "joined"} => at = "idle"
  /\ main = "joining drain" => executor = "joined"
  /\ main = "exited" => executor \in {"off", "joined"}
                        /\ drain \in {"off", "returned"}

\* A context that is shut was shut by a signal before on_sigint was there, and
\* main gets no further than the wiring with it.
SignalInv ==
  /\ main \in {"parsing", "creating", "waiting", "taking", "no model", "installing"} =>
       onSignal = "rclcpp" /\ ~stop
  /\ main \in {"building", "configuring", "wiring", "setup", "running"} \cup WindingDown =>
       onSignal = "on_sigint"
  /\ main \in Starting \cup {"running"} => status = "none"
  /\ main \in WindingDown => stop /\ status \in {"none", "1"}
  /\ stop /\ signaledIn = "never" /\ main # "exited" => status = "1"
  /\ signaledIn = "never" => ok
  /\ ok /\ onSignal = "rclcpp" => signaledIn = "never"
  /\ ~ok /\ main # "exited" => signaledIn \in {"parsing", "creating", "waiting",
                                               "taking", "no model", "installing"}
  /\ ~ok /\ signaledIn \in {"waiting", "no model"} =>
       main \in {"waiting", "no model"} \/ (main = "exited" /\ status = "0")
  /\ signaledIn \in {"waiting", "no model"} => ~ok
  /\ StopsCleanly

\* A signal leaves its mark in the context or in g_stop, the threads that main
\* is about to join are there, and only main cancels and joins the executor.
WaitInv ==
  /\ signaledIn # "never" => ~ok \/ stop
  /\ main \in {"configuring", "wiring", "setup", "running"} \cup WindingDown => ok
  /\ main \in {"running"} \cup WindingDown => drain # "off"
  /\ main \in {"running", "stopping", "disarming", "canceling"} =>
       executor \in {"starting", "spinning"}
  /\ main = "joining spin" => executor \in {"starting", "spinning", "canceled"}
  /\ executor = "canceled" => main = "joining spin"

\* A running link has been seen running since the call in progress began.
CallInv ==
  /\ link = "running" => commanded
  /\ at = "judging" /\ seen.state = "running" => commanded
  /\ FaultSuccessMeansRunning

IInv == TypeOK /\ ThreadsInv /\ SignalInv /\ WaitInv /\ CallInv
=============================================================================
