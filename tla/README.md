# Verification of kinova-gen3-ros2

TLA+ models of the ROS 2 node in this repository (`kinova_gen3_ros2`), the TLC
configurations that check them on small instances, and TLAPS proofs of what
matters most for every size of instance. Paths below are relative to
`kinova_gen3_ros2/` unless they say otherwise; `.h` files are under
`include/kinova_gen3_ros2/`.

- [The system](#the-system)
- [What is hard about it](#what-is-hard-about-it)
- [The modules](#the-modules)
- [What the runs check](#what-the-runs-check)
- [Disagreements found](#disagreements-found)
- [What is proved](#what-is-proved)
- [What is not modelled](#what-is-not-modelled)

## The system

`bringup_node` is a ROS 2 shell around a driver core that lives in another
repository (`kinova-gen3-driver`). It owns almost no motion logic; it owns the
*protocol* between ROS clients and the core: who has which goal, who answers
it, who may command the arm, and what the latched topics say.

| Component (source) | State | Operations | Talks to |
|---|---|---|---|
| **Planned moves**, `planned_move_server.h`, `goal_router.cpp` | `goals_` (handle, token, `executing`, `cancel_requested`) under `m_`; `owners_` of the router | `handle_goal`, `handle_accepted`, `on_plan_done`, `handle_cancel`, `settle`, `publish_feedback` | planner client; Arbiter (goal, accepted, cancel); the Supervisor calls `settle` through the router |
| **Plan chains**, `plan_legs.h`, `curobo_plan_client.cpp` | the leg chain; one `active_cancel_` for every plan | `plan_legs`, `plan`, `plan_to_joints`, `blend`, `cancel` | an external planner node (action client) |
| **Concrete GoTo servers**, `goto_*_server.h` | presets | `validate`, `start_plan` | planned moves, planner client |
| **Trajectories**, `ros2_backend.cpp` | `handles_` under `m_`; `state_tick_`, counters | `handle_goal`, `handle_accepted`, `handle_cancel`, `settle`, `publish_feedback`, `publish_state`, `/set_gains` | Arbiter; the Supervisor |
| **Ownership and e-stop**, `arbitration_server.cpp` | `retained_token_`, `engaged_sources_`, `last_published_` under `m_` | `/acquire_control`, `/release_control`, `/revoke_control`, `/estop`, 10 Hz status | Arbiter |
| **Streaming**, `stream_server.cpp` | `open_controller_`, `last_published_` under `m_`; the controller registry | `/open_stream`, `/close_stream`, setpoints, 10 Hz status | Arbiter in front of the Supervisor's session |
| **Fault clearing**, `link_server.cpp` | none of its own | `/clear_faults` (polls), diagnostics | ArmLink on the main thread, contact latch |
| **Node lifecycle**, `bringup_node.cpp`, `robot_description.cpp` | rclcpp's context, `g_stop`, three threads | start (command line, model, parameters, wiring), signal, run, stop, join | everything |
| **Contact**, `contact_server.cpp`, `contact_params.cpp` | profiles and ceilings from parameters; the rest is the core's | `/set_contact_thresholds`, diagnostics | core contact monitor, behind the Arbiter |
| **Gripper**, `gripper_server.cpp` | none | setpoint | core contact monitor, Arbiter |
| **Speed scale**, `speed_scale_param.cpp` | the parameter, `value_` | on-set callback | Arbiter, Supervisor |
| **Arm health**, `ros2_backend.cpp` | `fault_`, `ever_published_`, `last_publish_ns_` | `publish_state`, `diagnostics` | the Supervisor's pump thread |
| **Message mapping**, `message_mapping.cpp`, `joint_point.h` | none (pure) | conversions with refusals | all servers |
| **Core** (external): Arbiter, Supervisor, ArmLink | owner, generation, e-stop latch; FIFO inbox, running goal; link state | gate, sampler thread, link loop | the action ports |

Threads. A multi-threaded executor runs the callbacks: the node's default
mutually exclusive group serves `execute_joint_trajectory`, the ownership
services, `/set_gains`, the 10 Hz timers; `/estop`, the stream services, the
setpoints, `/set_contact_thresholds` and `/clear_faults` have mutually exclusive
groups of their own; the five GoTo action servers and the planner client share one
**Reentrant** group. The Supervisor's sampler thread settles goals, a pump
thread publishes state, `main` runs the arm link, and a drain thread logs
telemetry.

What makes each component correct:

- *planned moves, trajectories*: every accepted goal gets exactly one terminal
  call on its handle, by exactly one of the threads that could make it; a cancel
  that was latched or acknowledged is never lost between planning and the
  driver; the driver never holds a goal the node cannot route its result to;
- *plan chains*: a goal is one request with one plan at the planner at a time
  and one answer, a cancel costs at most one more plan and reaches the plan that was in
  flight, and a planner that dies on one goal holds up no other;
- *ownership*: the arm is stopped exactly while somebody asks for it; the
  retained token lets the owner, and only the owner, release;
- *streaming*: once what the services have to say is out, the latched topic shows no
  session under another controller's name, and a teardown by core surfaces;
- *fault clearing, lifecycle*: success means the arm has been running; every call is
  answered; the exit code says whether the node was asked to stop; shutdown ends
  and nothing outlives `main`;
- *contact, gripper, speed scale, health*: what is answered, shown or reported is
  what is in force, also after a refusal and while other threads move.

## What is hard about it

`PROJECT.json` lists the hazards one by one. They come in six families:

1. **Three threads, one goal.** Plan callback, cancel and sampler each act on a
   goal; `m_` is held across none of the calls they make, so each call and
   each lock region is a point where the others may run.
2. **A gate that says nothing.** `on_trajectory_accepted` and `on_trajectory_cancel`
   are gated by the Arbiter and return `void`.
3. **Cancel before there is anything to cancel**: before the entry, before the
   planner has answered the goal request, before the driver has drained the goal.
4. **Compare and store under the lock, publish after it**, from two callback
   groups, on latched topics.
5. **Check, then act** against a monitor, a link or a set of atomics that another
   thread moves in between: gripper setpoints, threshold requests, speed scale
   sets, diagnostics, `/clear_faults`.
6. **Best effort and several sources** on `/estop`; **polling against a thread
   that has ended** in shutdown, and **signals** at any point of the start.

## The modules

| Module | Models | Notes |
|---|---|---|
| `GoalMessages` | the checks of every goal callback, presets, planner requests, the mapping to the driver's goal, `/set_gains` | values and refusals; no races between requests |
| `RclcppGoal` | the goal handle's state machine (rclcpp_action) | external: an illegal terminal call throws |
| `Driver` | Arbiter gate, Supervisor inbox and running goal, contact latch | external: taken from how `src/` uses it; every undocumented choice is nondeterministic |
| `ActionGoal` | what clients of an action server are promised | abstract specification |
| `PlannedMoveServer` | planned moves with the router | implements `ActionGoal` |
| `Ros2Backend` | execute_joint_trajectory | implements `ActionGoal` |
| `CuroboPlanClient` | the planner client and its cancel slot | extended by `PlanLegs` |
| `PlanRequest` | what a server is promised of a planning request | abstract specification |
| `PlanLegs` | chains of plans | implements `PlanRequest` |
| `ArbitrationServer` | ownership, `/estop`, latched status | Arbiter inlined as external actions |
| `StreamServer` | sessions, label, latched status | |
| `LinkServer` | `/clear_faults`, the link, the contact latch | extended by `NodeLifecycle` |
| `NodeLifecycle` | from the command line to the return of `main` | |
| `ContactMonitor` | the core's contact monitor and the parameters it starts with | external but for `declare_contact_params`; extended by the next two |
| `ContactServer` | `/set_contact_thresholds` | |
| `GripperServer` | gripper setpoints | |
| `SpeedScaleParam` | `global_speed_scale` | |
| `ArmHealth` | the "Arm" diagnostics entry against the pump thread | |
| `NodeServices` | the four above and `StreamServer` beside each other | one specification for what shares no state |
| `MC*` | the instances TLC checks | |
| `*Proofs` | the theorems of the module they extend | `DriverProofs` holds lemmas on inboxes |

Conventions. A variable is named after the member it stands for (`goals`,
`engagedSources` for `engaged_sources_`). A thread is a program counter (`pc`,
`canceler`, `settling`, `at`, `main`) whose value names what it does next. An
action is one lock region or one call out, with all it changes. History
variables, which no guard reads, are marked `history`. An operator commented
*Slip* is not part of any specification: it is the definition below it with one
plausible mistake, listed under `mutants` in `PROJECT.json` to show that a
property notices it.

**PlannedMoveServer.** `AcceptGoal` makes the handle (rclcpp does, when
`handle_goal` returns), `HandleAccepted` the entry: between the two a
cancel finds a handle and no entry. `PlanDone` to `ReissueCancel` are
`on_plan_done` in order: `Submit` (`on_trajectory_goal`), `MarkExecuting`,
`RegisterOwner`, `HandOver` (`on_trajectory_accepted`), `RereadCancel`,
`ReissueCancel`. `DecideLocal`, `EndLocal`, `Erase` are `terminal()` on that
thread; `Route`, `LookUp`, `Decide`, `End` are the router, `settle` and
`terminal()` on the sampler. `HandleCancel`, `CancelAtDriver` or
`CancelAtPlanner`, `CancelTransition` are a cancel request: latch, forward,
then rclcpp's own transition. The planned trajectory is reduced to *usable or
not*, which stands for each early return that settles `PlanningFailed`.
`FinishMotion` is the end of the running goal
other than by a message to it: it succeeds, aborts, or is preempted by a goal or a session
of another server on the same driver. Rejections in `handle_goal` are one action without a guard, as each comes from
the request's contents or the arm.

**Ros2Backend.** `RejectGoal`, `PassChecks`, `Submit`, `StoreHandle`,
`HandOver` are one goal request; `FindToken`, `CancelAtSink`, `Acknowledge` one
cancel request. They are served in a mutually exclusive group, so the module has
one `executor` where `PlannedMoveServer` has a thread per goal. That difference
is visible in the results: `AckedCancelPursued` is a theorem here and is
violated there.

**PlanLegs and CuroboPlanClient.** `Ask` is `stop_if_canceled()`; `Dispatch`
the plan or the blend; `GoalResponse` fills the slot, `PlanResult` empties it,
whoever's it is; `Continue` is the `DoneCb`. Cancel is `CancelPlanning` (copy the
slot under the lock), `CallCancel` (call the copy, `told`), `AckCancel`. What was in
flight when the slot was read (`found`), and whether another goal had begun to plan by
then (`alone`), are history. A planner may be absent,
refuse, fail or succeed, in any order across goals.

**ArbitrationServer.** Two threads: `service` (services and timer, one group)
and `estop`. `Acquire` is `grant()`, `StoreRetained` the later region under `m_`;
`Release` checks, `Revoke` acts, `ForgetToken` follows. `TakeEngage`,
`TakeWithdrawal` and `TakeClearAttempt` are the branches of `on_estop`;
`EstopLatch` and `EstopDropOwner` are the two halves of `Arbiter::estop`, which
latches without its mutex. `/estop` is a queue of depth `Depth` that drops its
oldest sample.

**StreamServer.** As above, with core's session as one variable that core may
clear at any time (`TearDown`). A close may be refused by core
(`CloseRefusals`): the code never learns it. `latest` and `overtaken` are history: who
stored the newest status, and whether an older one came out after it.

**LinkServer and NodeLifecycle.** `CallClear` … `AnswerLate` are `on_clear` read by
read; `Arm` is the link, which moves only while `main` runs it. `main` walks from
`Parse` through `CreateNode`, the wait for the model (`Wait`, `Take`, `NoModel`),
`InstallHandlers`, `Build`, `Configure` and `Wire`, each with its early exits, to
`StartThreads`, then through `link.run`, `sup.stop()`, `safe_shutdown()`,
`ex.cancel()` and the two joins; `LinkThrows` is the error path. `Signal` acts
through rclcpp's handler, which shuts the context down, until `InstallHandlers`,
and through `on_sigint` from then on. `SpinBegins` is the executor's thread
reaching `spin()`: a cancel before it is forgotten.

**ContactServer and GripperServer** share `ContactMonitor`. A threshold request is
mapped or not (`AskMapped`, `AskUnmappable`), then taken (`AnswerAccepted`) or
refused (`SinkRefuses`), and a refusal is answered by a second call
(`AnswerRefused`). A setpoint is checked (`CheckSetpoint`) and forwarded
(`ForwardSetpoint`) while the monitor arms, trips and is cleared (`MonitorStep`).

**SpeedScaleParam.** A set of entries is applied one by one (`Apply`, the call
into the core; `Store`, `value_`), ends at the first entry the core refuses
(`Refuse`), and is committed by rclcpp after the last (`Commit`). `applied` and
`partial` are history: whether the set has applied an entry, and whether one was refused
that had.

**ArmHealth.** `PublishState`, `StoreFault`, `StoreEver`, `StoreTime` are the pump
thread's stores; `ReadEver`, `ReadFault`, `Report` the loads of `diagnostics()`;
`Tick` is time passing since the last publication.

**NodeServices** puts the streams, the contact surface (thresholds, gripper and
monitor, which do interact), the speed scale and the health into one
specification. These four share no variable and call none of each other, so a
step of one is enabled, and does the same, whatever the others do: an invariant
over one of them holds of the product exactly if it holds when the others stand
still. `service` names the one that moves.

**GoalMessages.** One request from `Ask` to its verdict. An operator per check
(`SpeedAccepted` for `speed_scale_rejection`, and so on), `Valid` for the five
`validate()`, and `FillTrajectory`, `ToTrajectoryGoal`, `ToPlannedGoal`,
`ToImpedanceGains` for the conversions, which keep what the code would do with a
message that should have been refused (zero-fill, map by index, fall back to a
default): a property can then say that it never shows. A planned move is checked in two
steps, `PassContact` and `AcceptPlannedMove` (`validate()` comes last), and a contact may
trip between them. `PlanAnswers`,
`BlendAnswers` and `MapPlan` follow the plan; `Explain` is the second question to the
contact monitor after a refusal. Cancels and the driver's own results belong to
the modules above.

## What the runs check

All runs finish in under two and a half minutes on two cores.

| Run | Instance | Shows |
|---|---|---|
| `move_goals` | 2 goals, no disturbances; 688k states | `NoTerminalThrow`, `DriverGoalsRoutable`, `LatchedCancelPursued`; the server implements `ActionGoal` with its liveness |
| `move_authority` | 1 goal, 2 authority changes or contact stops; 26k | `ExactlyOneSettler`, the contract under disturbances, `LatchedCancelEnds` |
| `backend_goals` | 2 goals, 2 tokens, 2 disturbances, enforced; 1.2M | the safety properties of `Ros2Backend`, `AckedCancelEnds`, and the contract |
| `legs_chains` | a goal of 2 legs and a blend beside a single plan; 198k | every chain implements `PlanRequest`, at most one plan past a cancel, `CancelReachesThePlan` (a cancel gives up nothing but what was in flight when it read the slot, and all of it, its own, if no other goal had begun to plan), and no goal waits for another's planner |
| `arbitration_authority` | 2 tokens, 2 sources, 2 grants, 3 changes of mind, queue of 1; 268k | safety of the latch and of the token, and `ArmFollowsAsking`: asking stops and silence releases the arm through every loss |
| `node_services` | streams: 2 controllers, 2 opens; contact: 2 joints, 3 of 7 parameter files acceptable, 10 requests; speed: sets of up to 2 entries of 2 scales and NaN; health: stale after 1; 96k | `NeverMisnamed`, `SessionSurfaces`, `AnswersAreInForce`, `SilentDropsAreRaces`, `ScaleInForce`, `ReportHeld` |
| `goal_values` | 385 requests, wrong in up to two respects, chains of up to 2 legs, 7 planner answers, every set of preset parameters; 480k | `NeverMisread`, `ProfilesWhole`, `SpeedAppliedOnce`, `BytesAsAsked`, `PlansAreMeant`, `BlendIsMeant`, `ContactStopMeansTrip` |
| `lifecycle_shutdown` | 2 clears, 3 arm events, a signal anywhere from the command line on; 70k | `NothingOutlivesMain`, `StopsCleanly`, `FaultSuccessMeansRunning`, `ShutdownCompletes`, `EveryClearAnswered` |

No run checks a type invariant: each module that is proved about has one, and it
is part of the inductive invariant its proofs establish for every instance.

Why the bounds are enough. *Two goals*: the interesting interactions between goals are
pairwise (one preempts another; one message is in front of another in the
inbox), and a goal id is used once. *Two disturbances*: losing authority and
regaining it, or losing it twice in two different ways; `MaxDisturbances` bounds
the environment only, never the servers. `move_goals` has none so that every
goal ends; the same server under disturbances is `move_authority`, and the safety
part is proved for any number of goals and disturbances together. *Queue of
one*: the shallowest queue loses most; deeper ones only add samples that are
repeats. *Two targets*: the first leg, the last leg and the blend are the three
cases of `plan_leg`. *Two opens*: a label can only be stale with respect to one
earlier session; two controllers make it visible. *Two entries in a set*: one
applied, one refused. *Stale after 1*: before, at and past the limit are all there;
the age only saturates. *Two joints*: one joint may be in bounds while another
is not.

*Requests wrong in two respects*: each check is a conjunct of its own, so two
wrong fields are enough for one check to hide another.

Deadlock is checked where the system never stops (`ArbitrationServer`,
`NodeServices`: their timers and requests go on; `GoalMessages` takes the next
request). The others are finite by construction: each
goal id is sent once, the node exits.

### Fairness, and why the code justifies it

- *Executor threads and the sampler go on with what they started*
  (`WF` on each thread's steps): they are ordinary threads, no callback waits for
  another callback of its own group.
- *The planner answers* (`WF` on `PlanDone` in `PlannedMoveServer`): an assumption
  about another process. The code has no timeout on a plan; without this
  assumption a goal in planning can stay there for ever. `PlanLegs` does without
  it: `OthersHoldUpNobody` assumes of each goal in turn that its own plans are
  answered, and of the others nothing.
- *A motion ends* (`MotionEndsSpec`): the core's sampler reaches the end of a
  trajectory or aborts it. It is assumed only for `ImplementsContractLive` and
  `EveryAcceptedGoalEnds`; `LatchedCancelEnds` and `AckedCancelEnds` do without
  it, which is their point.
- *The stream status timer fires* (`WF` on `StatusTimer`): a 10 Hz wall timer in a
  group the stream services are not in. `ArbitrationServer` assumes nothing of its
  own timer.
- *`main` goes on, the drain thread sees `g_stop`, a call that polls polls again*
  (`NodeLifecycle`). The wait for the model ends by its timeout. Nothing is asked
  of the arm.
- *`/estop` samples of each source keep getting through* (`SF` on taking up a
  plain sample): best effort loses samples, not every one for ever; sources
  resend each period.
- *The deadline of `/clear_faults`* is assumed to pass only inside
  `EveryClearAnswered`; `ShutdownCompletes` holds without it, so the deadline is
  not what unties the shutdown.

## Disagreements found

Each is a run that TLC ends with a counterexample; `PROJECT.json` quotes the
text that disagrees. That the race of a run is the *only* way to its outcome is a
theorem, named under "The disagreements are sharp".

- `move_orphan` (`planned_move_server.h:374`): authority lost between
  `on_trajectory_goal` and `on_trajectory_accepted` drops the goal. It is marked
  executing, nobody owns it, no result is ever sent.
- `move_early_cancel` (`:222`): a cancel served before `handle_accepted` has made
  the entry is accepted, latched nowhere, and reaches no plan. If the plan callback
  then looks at the handle before rclcpp moves it to CANCELING, the goal is handed
  to the driver and runs on.
- `arbitration_topic` (`arbitration_server.cpp:228`): two groups publish the
  latched status after releasing `m_`. The older message may come last; the memo
  equals the Arbiter's state, so nobody repairs it.
- `goal_leg_frames` (`goto_ee_poses_server.h:50`): `check_plan` is asked about the
  blend. The legs of `GoToEEPoses` are pose plans like `GoToEEPose`'s, and a leg
  planned in another frame than `arm_mount` is executed when the blend that joins it
  is stamped `arm_mount`.

Seen while modelling and not kept as runs:

- `cancel()` "Cancels whichever plan is in flight" (`curobo_plan_client.h:93`). A plan
  between `async_send_goal` and its goal response is at the planner and the slot is
  empty (`curobo_plan_client.cpp:66`), so a cancel misses it; the goal then ends with
  what the planner answers. With two goals planning, the slot names the plan accepted
  last, so the cancel of one goal gives up the other's plan, and the answer to one plan
  empties the slot of the other (`:78`), which no cancel reaches from then on.
  `CancelReachesThePlan` says what remains true. The copied handle is called after `m_`
  is released, when its plan may have been answered; what rclcpp_action does with such a
  call is not modelled.
- `/stream_status` has the shape of `arbitration_topic`: a status the session's thread
  publishes may be followed by an older one of the timer's, and as the memo is right
  nothing is published again until something changes (`stream_server.cpp:321-322`).
  `stream_server.h:45-47` says that a teardown by core "still surfaces". `NeverMisnamed`
  and `SessionSurfaces` are about the topic and name this exception (`overtaken`).
- A timer that asked core before an open clears the label after it, and the session is
  shown open and unnamed until it is closed (`stream_server.cpp:310`); `NeverMisnamed`
  therefore allows no name.
- A `preemption` byte other than 0 and 1 becomes `QUEUE` where every other unknown byte
  is refused (`message_mapping.cpp:67`); `BytesAsAsked` says so.
- `GoToEEPose` passes a pose that is not finite to the planner; `GoToEEPoses` refuses it.
  `PlansAreMeant` names this exception.
- A goal whose cancel was accepted ends CANCELED with the code of whatever ended it, not
  always `-6` (`docs/guide-goto-actions.md:188-190`).
- An e-stop between `grant()` and the storing of its token leaves that token retained
  after the ownership has ended (the arbitration-tier design, lines 217-219);
  `OwnerCanRelease` shows that nobody is locked out by it.
- With a contact latch and a link that is still connecting `/clear_faults` answers
  success although nothing commands the arm (`README.md:294` of the repository promises
  more, `docs/interface.md:134` does not). `FaultSuccessMeansRunning` is therefore
  stated for the fault path.
- An atomic parameter set of `global_speed_scale` to 0.5 and then NaN is refused, and
  leaves the arm at 0.5 under a parameter that says something else until a later set is
  accepted (`speed_scale_param.cpp:52-57`), where `speed_scale_param.h:16` says "The
  parameter IS the value in force". `ScaleInForce` names this exception by its cause, an
  entry applied by a set that was then refused, so any other difference is a violation.
- A signal before the wait for the model, or between the model's arrival and
  `std::signal`, meets rclcpp's handler, and what is created next throws
  (`bringup_node.cpp:113-138`); `StopsCleanly` names the points.
- `ex.cancel()` is forgotten if the executor's thread has not reached `spin()`, and
  `main` then waits for it (`bringup_node.cpp:526`, `CancelLost`).
- `contact_debounce_cycles` is checked as 64 bits and stored as `int`: 2^32 becomes 0
  (`contact_params.cpp:65-68`).
- A diagnostics reading that the end of an outage overtakes may pair the last fault
  before the outage with the first time after it; `ReportHeld` names this exception,
  which lasts one report.
- A gripper setpoint checked before a contact stop moves the gripper after the stop if
  it has been cleared by then (`gripper_server.cpp:59-68`).

## What is proved

Every theorem holds for all values of the constants allowed by the named
assumptions (`DriverAssumption`: `NoGoal` is not a goal, `MaxDisturbances` is a
number; and the like in each module): any set of goals, tokens, sources,
controllers, chains of any length, inboxes of any length. Each follows the same
argument: `Init => IInv`, `IInv /\ [Next]_vars => IInv'` with one step per
action, and `IInv` implies the property. `IInv` is in the module it is
about.

| Theorem (module `…Proofs`) | States |
|---|---|
| `PlannedMoveServer`: `TypeCorrect`, `NeverThrows`, `OneSettler`, `Routable`, `CancelsPursued` | `TypeOK`, `NoTerminalThrow`, `ExactlyOneSettler`, `DriverGoalsRoutable`, `LatchedCancelPursued` |
| `PlannedMoveServer`: `Refinement` | `Spec => ImplementsContract` |
| `PlannedMoveServer`, `Ros2Backend`: `CancelsNear` | the measure of a cancel, see below |
| `Ros2Backend`: `NeverThrows`, `OneSettler`, `GoalsKnown`, `CancelsPursued` | `NoTerminalThrow`, `ExactlyOneSettler`, `DriverGoalsKnown`, `AckedCancelPursued` |
| `Ros2Backend`: `Refinement` | `Spec => ImplementsContract` |
| `PlanLegs`: `ChainsImplementRequests` | `Spec => ImplementsRequest` |
| `PlanLegs`: `CancelStopsChain`, `CancelsReachPlans` | `OnePlanPastCancel`, `CancelReachesThePlan` |
| `ArbitrationServer`: `StoppedWhileAsked`, `OwnersCanRelease`, `ReleasesSpareOthers` | `StoppedExactlyWhileAsked`, `OwnerCanRelease`, `ReleaseSparesOthers` |
| `NodeServices`: `NamesAgree` (of `StreamServer`), `AnswersTell`, `DropsAreRaces`, `ScaleIsInForce`, `ReportsHold` | `NeverMisnamed`, `AnswersAreInForce`, `SilentDropsAreRaces`, `ScaleInForce`, `ReportHeld` |
| `GoalMessages`: `NothingMisread`, `ProfilesAreWhole`, `SpeedsAppliedOnce`, `BytesAreAsAsked`, `PlansAreAsMeant`, `BlendsAreAsMeant`, `ContactStopsMeanTrips` | `NeverMisread`, `ProfilesWhole`, `SpeedAppliedOnce`, `BytesAsAsked`, `PlansAreMeant`, `BlendIsMeant`, `ContactStopMeansTrip` |
| `NodeLifecycle`: `MainReturnsLast`, `SignalsStopCleanly`, `SuccessMeansRunning` | `NothingOutlivesMain`, `StopsCleanly`, `FaultSuccessMeansRunning` |
| `NodeLifecycle`: `NodeEnds`, `ClearsEnd` (liveness) | `FairSpec /\ []WaitsOnlyHere => ShutdownCompletes`, and `=> EveryClearAnswered` |
| `NodeServices`: `SessionsSurface` (liveness) | `FairServices /\ []StreamsNeverWait => SessionSurfaces` |
| `PlannedMoveServer`, `Ros2Backend`: `ResultsAreFinal` | an action property: a goal rejected or ended keeps its state and its result |
| `PlannedMoveServer`: `GoalsAdvance`; `PlanLegs`: `ChainsAdvance` | the measures of a goal and of a chain, see below |
| `Only…` in five modules | see "The disagreements are sharp" |

The three refinements: `PlannedMoveServer` and `Ros2Backend` implement `ActionGoal`,
whose client state they carry; `PlanLegs` implements `PlanRequest` under the mapping
that takes a chain's plans at the planner to `working` and the chains that have
begun to `asked`.

Why the invariants are needed:

- *PlannedMoveServer.* `NoTerminalThrow` is not inductive: that `canceled()` is
  legal when it is called follows from a choice made a step earlier
  (`ChosenInv`: a handle never leaves CANCELING but by its settler), and that no
  second call follows needs the settler to be unique, which needs every goal in the
  inbox to be there once and never beside an unfinished callback
  (`CallbackInv`, `DriverInv`, `OwedInv`, and `DriverProofs` for queues).
  `LatchedCancelPursued` needs `CancelInv` beside it: a goal handed over is marked
  executing, so a request from then on goes to the driver, and a goal whose token is
  no longer admitted has a halt behind it, so a cancel the gate drops is not missed.
- *Ros2Backend.* `AckedCancelPursued` needs that a request in progress excludes the
  others (`ThreadsInv`) and that the stored token is the goal's, so that a gate
  that refuses the cancel has halted the arm since the goal was posted.
- *ArbitrationServer.* `LatchInv` says what the latch is at each point of
  `on_estop`; `RetainedInv` what the retained token, or the grant about to be
  retained, says of the owner.
- *PlanLegs.* `ProgressInv`: plans behind a chain are answered, those ahead are
  not dispatched, which is what a step of the contract needs to know of the plan it
  puts to or takes from the planner; `LateInv`: a chain cleared to dispatch was not
  canceled when it asked. `InFlightIsCancelable` rests on `OnePending`: with one goal
  planning the planner has one plan, the one the slot was last given; `SlotIsLive`: the
  slot never outlives its plan; `CancelInv`: what a cancel has read was in flight then.
- *NodeServices.* `NamesInv`: label, memo and session agree at rest, and an open
  in progress still has them ahead. `OrderInv`: the thread that stored the memo carries it
  to the topic, where it stays unless it is overtaken. `ContactInv`: what is in force is in bounds
  while a refusal waits for its query. `GripperInv`: a latch seen after the check
  came after the check. `SpeedInv`: the rest of a set ends with the value it would
  commit, and until an entry of it is applied the scale is what it was. `HealthInv`: what has been read so far leads to a level that held.
- *GoalMessages.* `DriverGoalMapped`: what the driver has is the mapping of a
  request, or of a plan, that passed its checks; two lemmas about `FillTrajectory`
  do the rest. `TripRecorded`: a latch seen past the goal's check for one came after it.
  `GainsMapped` and `PlansAsked`: the same for gains, and for each plan asked of
  the planner so far.
- *NodeLifecycle.* `ThreadsInv`: which threads exist at each point of `main`;
  `SignalInv`: who takes a signal there, and that a context shut by one takes `main`
  no further than the points that notice it; `CallInv`: a running link has been seen
  running since the call in progress began.

### The disagreements are sharp

A counterexample shows one way to a bad outcome. These theorems show that there is no
other: each takes one premise, which forbids exactly the steps of the race and leaves
every other behaviour in, and proves the property the run refutes, for every value of
the constants. So each also says what a repair has to ensure, and that it would be
enough.

| Theorem | Premise | Then always |
|---|---|---|
| `ArbitrationServer`: `OnlyOvertakingOutdates` | `PublishesInOrder`: no status is stored while another thread has one still to publish (what publishing under `m_` would give) | `LatchedTopicCurrent` |
| `PlannedMoveServer`: `OnlyEarlyCancelsAreLost` | `NoEarlyCancel`: no cancel is served between the making of the handle and `handle_accepted` making its entry | `AckedCancelPursued` |
| `PlannedMoveServer`, `Ros2Backend`: `OnlyRefusedHandoversOrphan` | `AuthorityKept`: a change of authority still admits the token of a goal that is between the driver's yes and its handover | `NoOrphans`: a live goal is owed its result by its callback or by the driver |
| `NodeLifecycle`: `OnlyLateSpinsLoseTheCancel` | `SpinsInTime`: the executor's thread spins when `main` cancels it | never `CancelLost` |
| `GoalMessages`: `OnlyLegsGoUnchecked` | the goal is not a `GoToEEPoses` | `PosePlansInArmMount`; what is executed is in `arm_mount` for `GoToEEPoses` too |

The premises are action formulas (`[][A]_vars`), not assumptions on the model: `Spec`
has behaviours that meet them and behaviours that do not, and the violation runs show
the latter. `SpinningNodesEnd` joins the fourth row to `NodeEnds`: with the executor
spinning in time the node ends whenever it should, with no exception left.

The invariants they need: `PublishInv` (what is about to be published is the memo, and
one thread at most is about to), `EarlyInv` (a cancel that was taken up is latched as
long as the goal has an entry), `HandOverInv` (a goal on its way to the driver is an
admitted one, so the gate hands it over), `FramesChecked` (what is executed passed
`check_plan`, and is the answer to the only plan of a goal with one target).

### Liveness

The prover knows nothing of `ENABLED`, and a weak fairness condition says something
only of an action that stays enabled. Three liveness properties are therefore proved
in two halves that meet in a named formula:

- `WaitsOnlyHere` and `StreamsNeverWait` say in plain state formulas where an action
  that fairness is assumed of can be taken. They follow from the guards of those actions
  and claim nothing of the code, so no run lists them as properties; TLC confirms them
  when they are added to the `INVARIANTS` of `lifecycle_shutdown` and `node_services`;
- the theorem takes that formula as a premise, and proves the rest for every value of
  the constants: what a fair step leads to, that no other step undoes it, and the
  chain of leads-to that results (`StartEnds`, `GoingDown`, `CallsEnd`, `DownEnds` for
  the node; `StreamSteps` for a session). A condition of `FairSpec` that is dropped
  makes the proof fail.

The two cancels, `LatchedCancelEnds` and `AckedCancelEnds`, wait for a queue of any
length to be drained, which is an induction over temporal formulas that the prover
cannot instantiate. What is proved of them is the measure of that induction. With
`StopWithin(g, inbox, n)` for a stop among the first `n` messages that is ahead of `g`:
a goal the driver has and whose cancel was latched or acknowledged has one within the length of
the inbox (`CancelsPursued`, `StopWithinLength`), no step takes it farther, and every
message the sampler drains takes it one nearer until the goal is being settled
(`CancelsNear`). The last inference, that a fair sampler then gets there, is TLC's.

The same is proved of the two properties about goals that end. `Left(g)` counts what
a live goal has left: the steps of its callback, its stay in the inbox, its motion and
the steps of its settling. `GoalsAdvance` says that each of them brings it nearer, that no step of another goal, of a cancel or
of the arbitration takes it farther, and that it has its result exactly when nothing
is left; a goal whose handover was refused is the one left out. `Left(c)` of `PlanLegs`
does so for a chain of any number of legs (`ChainsAdvance`): what other goals and the
cancels do never adds to it, which is what `OthersHoldUpNobody` rests on.

By TLC only: the premises `WaitsOnlyHere` and `StreamsNeverWait`, when asked;
`LatchedCancelEnds`, `AckedCancelEnds`, `ImplementsContractLive` and
`OthersHoldUpNobody` past their measures, for the same last inference;
`ArmFollowsAsking`, which needs strong fairness of every source's samples through a
queue of any depth.

## What is not modelled

Out of scope: the core's own control loops (another repository), message
contents beyond what decides a branch, log texts, the fields copied into state and
feedback topics, the model renderer and the launch files, the conformance tests.
The watcher of the model's topic logs and does nothing else.

Three compositions are left out, and what the project says instead:

- `PlannedMoveServer` and `Ros2Backend` as two owners of one driver through the
  router: each meets the other as a motion that ends `Preempted`, and `OneSettler`,
  `Routable` and `GoalsKnown` say that each settles what the router hands it;
- `PlannedMoveServer` over `PlanLegs` in place of its free planner: `PlanRequest` is
  what the one assumes of a planner and the other is proved to implement;
- the lifecycle over an action server (goals accepted after `sup.stop()`), which needs
  the core's answer to such a goal, and the core is another repository.
