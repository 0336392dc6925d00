---------------------------- MODULE GoalMessages ----------------------------
(***************************************************************************)
(* What the node makes of what a goal says: the checks of the six goal     *)
(* callbacks and of /set_gains, the planner requests and plans of a planned *)
(* move, and the mapping (message_mapping.cpp) to what the driver is given. *)
(* One request is followed from its arrival to its verdict, while the arm's *)
(* first feedback, contact stops and their clearing happen beside it.  The  *)
(* races between requests are the subject of PlannedMoveServer, PlanLegs    *)
(* and Ros2Backend.                                                         *)
(*                                                                          *)
(* Numbers are reduced to what the checks tell apart: a speed is a per cent *)
(* value, a radius a length in centimetres, NotFinite stands for NaN and    *)
(* the infinities, a vector is of the arm's width or not, and a list of     *)
(* joint names is the arm's, in its order, or another.                      *)
(***************************************************************************)
EXTENDS Integers, Sequences

CONSTANTS
  Goals,          \* the requests clients send
  Trajectories,   \* the trajectories the planner answers with
  PresetNames,    \* every name a preset_names parameter may list
  Required        \* the presets with a default pose: home and rest

Kinds      == {"trajectory", "pose", "config", "preset", "poses", "configs", "set_gains"}
ManyTarget == {"poses", "configs"}
PosePlans  == {"pose", "poses"}

NotFinite == 1000000
MinSpeed  == 1        \* kMinSpeedScale, per cent
NoBlend   == [scales |-> <<>>, radii |-> <<>>, holds |-> <<>>]

\* A trajectory message: is each vector of a point kNumJoints wide?
Point      == [pos : BOOLEAN, vel : BOOLEAN, acc : BOOLEAN]
JointNames == {"arm", "other"}
Trajectory == [names : JointNames, frame : {"arm_mount", "other"}, points : Seq(Point)]
GainsSpec  == [profile : Nat, inBounds : BOOLEAN]
Target     == [frame : {"arm_mount", "base_link"}, value : {"valid", "notFinite", "notUnit"},
               preset : PresetNames, speed : Int, hold : Nat, radius : Int]
\* The fields a kind of request lacks are in its record and never read.
Message    == [kind : Kinds, mode : Nat, gains : GainsSpec, preemption : Nat, speed : Int,
               trajectory : Trajectory, pathTol : JointNames \cup {"empty"},
               goalTol : JointNames \cup {"empty"}, targets : Seq(Target)]

ASSUME GoalsAssumption ==
  /\ Goals \subseteq Message
  /\ Trajectories \subseteq Trajectory
  /\ Required \subseteq PresetNames
  \* A single-target goal has one target: its fields are not a list.
  /\ \A m \in Goals : m.kind \in {"pose", "config", "preset"} => Len(m.targets) = 1

VARIABLES
  heard,       \* the arm's state has been measured: stamp_s > 0
  contact,     \* "off": no monitor; "armed"; "latched": a contact stop
  registry,    \* GoToPresetServer::registry_: name -> where its pose is from
  stage,       \* how far the request is
  request,     \* the goal being served
  plans,       \* what each plan asked for and the trajectory it answered
  blend,       \* what the blend was asked for
  outcome,     \* the trajectory to execute
  driverGoal,  \* the TrajectoryGoal given to the driver
  coreGains,   \* the spec /set_gains gave the driver
  verdict,     \* how the request ended
  tripped      \* history: a contact stop latched since the goal's contact check

vars == <<heard, contact, registry, stage, request, plans, blend, outcome, driverGoal,
          coreGains, verdict, tripped>>
served == <<request, plans, blend, outcome, driverGoal, coreGains, verdict>>

-----------------------------------------------------------------------------
(* The checks.                                                             *)

SpeedAccepted(s) == s # NotFinite /\ MinSpeed <= s /\ s <= 100

\* Slip: custom gains are not held against the driver's bounds.
ModeGainsUnbounded(mode, g) ==
  /\ mode <= 1
  /\ g.profile <= 4
  /\ mode # 1 => g.profile = 0

ModeGainsAccepted(mode, g) ==
  /\ mode <= 1
  /\ g.profile <= 4
  /\ mode # 1 => g.profile = 0
  /\ g.profile = 4 => g.inBounds

JointNamesAccepted(names) == names = "arm"
ToleranceAccepted(tol)    == tol = "empty" \/ JointNamesAccepted(tol)
ContactClear              == contact # "latched"
HoldKnown(hold)           == hold <= 2

RadiusAccepted(r) == r # NotFinite /\ r >= 0

PosesAccepted(t) ==
  t.frame = "arm_mount" /\ t.value = "valid" /\ SpeedAccepted(t.speed)
                        /\ HoldKnown(t.hold) /\ RadiusAccepted(t.radius)
ConfigsAccepted(t) ==
  t.value # "notFinite" /\ SpeedAccepted(t.speed) /\ RadiusAccepted(t.radius)

\* validate() of the five GoTo servers.  GoToEEPose does not look at the values
\* of its pose, and GoToPreset looks its name up.
ValidPose(m) == /\ m.targets[1].frame = "arm_mount"
                /\ SpeedAccepted(m.speed)
                /\ HoldKnown(m.targets[1].hold)
ValidConfig(m)  == SpeedAccepted(m.speed) /\ m.targets[1].value # "notFinite"
ValidPreset(m)  == SpeedAccepted(m.speed) /\ m.targets[1].preset \in DOMAIN registry
ValidPoses(m)   == /\ m.targets # <<>>
                   /\ \A k \in 1 .. Len(m.targets) : PosesAccepted(m.targets[k])
ValidConfigs(m) == /\ m.targets # <<>>
                   /\ \A k \in 1 .. Len(m.targets) : ConfigsAccepted(m.targets[k])

Valid(m) == \/ m.kind = "pose" /\ ValidPose(m)
            \/ m.kind = "config" /\ ValidConfig(m)
            \/ m.kind = "preset" /\ ValidPreset(m)
            \/ m.kind = "poses" /\ ValidPoses(m)
            \/ m.kind = "configs" /\ ValidConfigs(m)

\* Slip: the trajectory's joint names are not compared with the arm's.
WellSized(t) == t.points # <<>> /\ \A i \in 1 .. Len(t.points) : t.points[i].pos

WellShaped(t) ==
  /\ t.points # <<>>
  /\ \A i \in 1 .. Len(t.points) : t.points[i].pos
  /\ JointNamesAccepted(t.names)

\* Ros2Backend::handle_goal
TrajectoryPasses(m) ==
  /\ WellShaped(m.trajectory)
  /\ ToleranceAccepted(m.pathTol) /\ ToleranceAccepted(m.goalTol)
  /\ SpeedAccepted(m.speed)
  /\ ModeGainsAccepted(m.mode, m.gains)
  /\ ContactClear

\* Slip: a latched contact stop is not looked for.
PassesLatched(m) == heard /\ ModeGainsAccepted(m.mode, m.gains)

\* PlannedMoveServer::handle_goal, up to its question to the contact monitor;
\* validate() comes after it.
PlannedMovePasses(m) ==
  /\ heard
  /\ ModeGainsAccepted(m.mode, m.gains)
  /\ ContactClear

-----------------------------------------------------------------------------
(* The mapping.                                                            *)

ToControlMode(mode) == IF mode = 1 THEN "impedance" ELSE "position"

\* Slip: medium and stiff are exchanged.
SwapsProfiles(g) ==
  [profile |-> IF g.profile \in 1 .. 4 THEN <<"soft", "stiff", "medium", "custom">>[g.profile]
               ELSE "sessionDefault",
   custom  |-> IF g.profile = 4 THEN "asked" ELSE "untouched"]

\* to_impedance_gains reads the custom fields for PROFILE_CUSTOM only; a byte
\* without a profile of its own maps to the session's default.
ToImpedanceGains(g) ==
  [profile |-> IF g.profile \in 1 .. 4 THEN <<"soft", "medium", "stiff", "custom">>[g.profile]
               ELSE "sessionDefault",
   custom  |-> IF g.profile = 4 THEN "asked" ELSE "untouched"]

\* Slip: the first point's profile speaks for every point.
FirstVelocities(t) == t.points # <<>> /\ t.points[1].vel

AllVelocities(t)    == t.points # <<>> /\ \A i \in 1 .. Len(t.points) : t.points[i].vel
AllAccelerations(t) == t.points # <<>> /\ \A i \in 1 .. Len(t.points) : t.points[i].acc

\* fill_trajectory copies by index and zero-fills a short point.  A profile is
\* copied into every waypoint or into none; copying one a point does not have
\* would read past its end.
Waypoint(t, p) ==
  [q   |-> IF ~ p.pos THEN "zeroFilled" ELSE IF t.names = "arm" THEN "asked" ELSE "otherJoints",
   qd  |-> IF ~ AllVelocities(t) THEN "none" ELSE IF p.vel THEN "asked" ELSE "pastTheEnd",
   qdd |-> IF ~ AllAccelerations(t) THEN "none" ELSE IF p.acc THEN "asked" ELSE "pastTheEnd"]

FillTrajectory(t) ==
  [points           |-> [i \in 1 .. Len(t.points) |-> Waypoint(t, t.points[i])],
   hasVelocities    |-> AllVelocities(t),
   hasAccelerations |-> AllVelocities(t) /\ AllAccelerations(t)]

ToTolerance(tol) ==
  IF tol = "empty" THEN "disabled" ELSE IF tol = "arm" THEN "asked" ELSE "otherJoints"

\* Slip: only the byte of QUEUE queues.
UnknownPreempts(byte) ==
  IF byte = 0 THEN "queue" ELSE "latestWins"

\* Any byte but LATEST_WINS is a QUEUE goal.
ToPreemption(byte) ==
  IF byte = 1 THEN "latestWins" ELSE "queue"

\* The goal of execute_joint_trajectory.
ToTrajectoryGoal(m) ==
  [trajectory |-> FillTrajectory(m.trajectory),
   pathTol    |-> ToTolerance(m.pathTol),
   goalTol    |-> ToTolerance(m.goalTol),
   mode       |-> ToControlMode(m.mode),
   gains      |-> ToImpedanceGains(m.gains),
   preemption |-> ToPreemption(m.preemption),
   speed      |-> m.speed]

\* Slip: a many-target goal is executed at its first target's speed.
FirstTargetSpeed(m) == IF m.kind \in ManyTarget THEN m.targets[1].speed ELSE m.speed

\* The targets' speeds are in the blend, so a many-target goal runs at 1.
ExecutionSpeed(m) == IF m.kind \in ManyTarget THEN 100 ELSE m.speed

\* The goal of a planned move, on_plan_done's own fields included.
ToPlannedGoal(m, t) ==
  [trajectory |-> FillTrajectory(t),
   pathTol    |-> IF ToControlMode(m.mode) = "impedance" THEN "compliant" ELSE "tight",
   goalTol    |-> "disabled",
   mode       |-> ToControlMode(m.mode),
   gains      |-> ToImpedanceGains(m.gains),
   preemption |-> "latestWins",
   speed      |-> ExecutionSpeed(m)]

-----------------------------------------------------------------------------
(* The start: load_preset_registry reads preset_names and one parameter per *)
(* name; home and rest are read whether listed or not.                      *)

\* Slip: a pose of the wrong size is registered too.
LoadEveryPreset(listed, value) ==
  [n \in listed \cup Required |-> IF value[n] = "unset" THEN "default" ELSE value[n]]

\* value: "unset", "whole" (kNumJoints angles) or "missized"
LoadPresets(listed, value) ==
  LET read  == listed \cup Required
      whole == {n \in read : value[n] = "whole" \/ (value[n] = "unset" /\ n \in Required)}
  IN  [n \in whole |-> IF value[n] = "whole" THEN "configured" ELSE "default"]

Init ==
  /\ heard = FALSE
  /\ contact \in {"off", "armed"}
  /\ \E listed \in SUBSET PresetNames, value \in [PresetNames -> {"unset", "whole", "missized"}] :
       registry = LoadPresets(listed, value)
  /\ stage = "idle" /\ request = <<>> /\ plans = <<>> /\ blend = NoBlend
  /\ outcome = <<>> /\ driverGoal = <<>> /\ coreGains = <<>>
  /\ verdict = "none" /\ tripped = FALSE

-----------------------------------------------------------------------------
(* The surroundings.                                                       *)

FirstFeedback ==
  /\ ~ heard /\ heard' = TRUE
  /\ UNCHANGED <<contact, registry, stage, served, tripped>>

ContactTrips ==
  /\ contact = "armed" /\ contact' = "latched" /\ tripped' = TRUE
  /\ UNCHANGED <<heard, registry, stage, served>>

ContactCleared ==
  /\ contact = "latched" /\ contact' = "armed"
  /\ UNCHANGED <<heard, registry, stage, served, tripped>>

-----------------------------------------------------------------------------
(* One request.                                                            *)

Ask ==
  /\ stage = "idle" /\ stage' = "asked"
  /\ request' \in Goals
  /\ UNCHANGED <<heard, contact, registry, plans, blend, outcome, driverGoal, coreGains,
                 verdict, tripped>>

EndAs(result) ==
  /\ stage' = "ended" /\ verdict' = result

Passes(m) == \/ m.kind = "trajectory" /\ TrajectoryPasses(m)
             \/ m.kind = "set_gains" /\ ModeGainsAccepted(1, m.gains)
             \/ m.kind \notin {"trajectory", "set_gains"} /\ PlannedMovePasses(m)

Reject ==
  /\ \/ stage = "asked" /\ ~ Passes(request)
     \/ stage = "validating" /\ ~ Valid(request)
  /\ EndAs("rejected")
  /\ UNCHANGED <<heard, contact, registry, request, plans, blend, outcome, driverGoal,
                 coreGains, tripped>>

\* handle_goal maps the goal and submits it in one callback.
AcceptTrajectory ==
  /\ stage = "asked" /\ request.kind = "trajectory" /\ Passes(request)
  /\ driverGoal' = ToTrajectoryGoal(request)
  /\ stage' = "mapped" /\ tripped' = FALSE
  /\ UNCHANGED <<heard, contact, registry, request, plans, blend, outcome, coreGains, verdict>>

\* A contact may trip from here on, validate() or not.
PassContact ==
  /\ stage = "asked" /\ request.kind \notin {"trajectory", "set_gains"} /\ Passes(request)
  /\ stage' = "validating" /\ tripped' = FALSE
  /\ UNCHANGED <<heard, contact, registry, served>>

AcceptPlannedMove ==
  /\ stage = "validating" /\ Valid(request)
  /\ stage' = "planning"
  /\ UNCHANGED <<heard, contact, registry, served, tripped>>

\* on_set_gains: core takes the spec or refuses it.
SetGains ==
  /\ stage = "asked" /\ request.kind = "set_gains" /\ Passes(request)
  /\ coreGains' = ToImpedanceGains(request.gains)
  /\ \E result \in {"accepted", "refused"} : EndAs(result)
  /\ UNCHANGED <<heard, contact, registry, request, plans, blend, outcome, driverGoal, tripped>>

\* Slip: every leg is planned with the first target's hold.
FirstHold(m, k) ==
  IF m.kind \in PosePlans THEN m.targets[1].hold ELSE 0

\* Only poses are planned with a hold.
HoldOf(m, k) ==
  IF m.kind \in PosePlans THEN m.targets[k].hold ELSE 0

\* The request for the k-th plan, and where it starts from: the measured arm
\* (zeros, were it never measured) or the last point of the leg before it.
PlanRequest(m, k) ==
  [hold   |-> HoldOf(m, k),
   target |-> IF m.kind # "preset" THEN m.targets[k].value
              ELSE IF m.targets[k].preset \in DOMAIN registry
                   THEN registry[m.targets[k].preset] ELSE "missing",
   start  |-> IF k > 1 THEN "legEnd" ELSE IF heard THEN "measured" ELSE "zeros"]

PlanFails ==
  /\ stage \in {"planning", "blending"}
  /\ EndAs("planningFailed")
  /\ UNCHANGED <<heard, contact, registry, request, plans, blend, outcome, driverGoal,
                 coreGains, tripped>>

\* The next plan answers with a trajectory.  The only target's is the outcome; a
\* leg needs a last point to go on from, and the last leg is followed by the blend.
PlanAnswers ==
  LET k == Len(plans) + 1 IN
  /\ stage = "planning"
  /\ \E t \in Trajectories :
       /\ plans' = Append(plans, [asked |-> PlanRequest(request, k), answer |-> t])
       /\ IF request.kind \notin ManyTarget
          THEN stage' = "planned" /\ outcome' = t /\ UNCHANGED verdict
          ELSE /\ UNCHANGED outcome
               /\ IF t.points = <<>>
                  THEN EndAs("planningFailed")
                  ELSE /\ stage' = IF k < Len(request.targets) THEN "planning" ELSE "blending"
                       /\ UNCHANGED verdict
  /\ UNCHANGED <<heard, contact, registry, request, blend, driverGoal, coreGains, tripped>>

\* Slip: the radii begin with the second target's.
ShiftsRadii(m) ==
  LET n == Len(m.targets) IN
  [scales |-> [k \in 1 .. n |-> m.targets[k].speed],
   radii  |-> [k \in 1 .. n - 1 |-> m.targets[k + 1].radius],
   holds  |-> [k \in 1 .. IF m.kind = "poses" THEN n ELSE 0 |-> m.targets[k].hold]]

\* What start_plan collects for the blend.  The last target's radius is unused,
\* and legs planned in joint space have no holds.
BlendRequest(m) ==
  LET n == Len(m.targets) IN
  [scales |-> [k \in 1 .. n |-> m.targets[k].speed],
   radii  |-> [k \in 1 .. n - 1 |-> m.targets[k].radius],
   holds  |-> [k \in 1 .. IF m.kind = "poses" THEN n ELSE 0 |-> m.targets[k].hold]]

BlendAnswers ==
  /\ stage = "blending" /\ stage' = "planned"
  /\ blend' = BlendRequest(request)
  /\ outcome' \in Trajectories
  /\ UNCHANGED <<heard, contact, registry, request, plans, driverGoal, coreGains, verdict,
                 tripped>>

\* check_plan and the shape of the trajectory, in on_plan_done
PlanUsable(m, t) ==
  /\ m.kind \in PosePlans => t.frame = "arm_mount"
  /\ WellShaped(t)

PlanRefused ==
  /\ stage = "planned" /\ ~ PlanUsable(request, outcome)
  /\ EndAs("planningFailed")
  /\ UNCHANGED <<heard, contact, registry, request, plans, blend, outcome, driverGoal,
                 coreGains, tripped>>

MapPlan ==
  /\ stage = "planned" /\ PlanUsable(request, outcome)
  /\ driverGoal' = ToPlannedGoal(request, outcome)
  /\ stage' = "mapped"
  /\ UNCHANGED <<heard, contact, registry, request, plans, blend, outcome, coreGains, verdict,
                 tripped>>

\* The driver admits the goal, or refuses it: always while a contact stop is
\* latched, and otherwise for reasons of its own.
DriverAccepts ==
  /\ stage = "mapped" /\ ContactClear
  /\ EndAs("executing")
  /\ UNCHANGED <<heard, contact, registry, request, plans, blend, outcome, driverGoal,
                 coreGains, tripped>>

\* A trajectory goal is rejected without a reason.
DriverRefuses ==
  /\ stage = "mapped"
  /\ IF request.kind = "trajectory" THEN EndAs("rejected")
     ELSE stage' = "explaining" /\ UNCHANGED verdict
  /\ UNCHANGED <<heard, contact, registry, request, plans, blend, outcome, driverGoal,
                 coreGains, tripped>>

\* Why, asked of the driver after it has refused.
Explain ==
  /\ stage = "explaining"
  /\ EndAs(IF ContactClear THEN "invalidGoal" ELSE "contactStop")
  /\ UNCHANGED <<heard, contact, registry, request, plans, blend, outcome, driverGoal,
                 coreGains, tripped>>

NextRequest ==
  /\ stage = "ended" /\ stage' = "idle"
  /\ request' = <<>> /\ plans' = <<>> /\ blend' = NoBlend /\ outcome' = <<>>
  /\ driverGoal' = <<>> /\ coreGains' = <<>> /\ verdict' = "none" /\ tripped' = FALSE
  /\ UNCHANGED <<heard, contact, registry>>

Next == \/ FirstFeedback \/ ContactTrips \/ ContactCleared
        \/ Ask \/ Reject \/ AcceptTrajectory \/ PassContact \/ AcceptPlannedMove \/ SetGains
        \/ PlanFails \/ PlanAnswers \/ BlendAnswers \/ PlanRefused \/ MapPlan
        \/ DriverAccepts \/ DriverRefuses \/ Explain \/ NextRequest

Spec == Init /\ [][Next]_vars

-----------------------------------------------------------------------------
(* Properties.                                                             *)

\* The zero fill and the mapping by index never show: whatever a client or the
\* planner sent, each waypoint the driver is given is one the sender gave for
\* these joints in this order, and so is each tolerance.
NeverMisread ==
  driverGoal # <<>> =>
    /\ driverGoal.trajectory.points # <<>>
    /\ \A i \in 1 .. Len(driverGoal.trajectory.points) :
         driverGoal.trajectory.points[i].q = "asked"
    /\ driverGoal.pathTol # "otherJoints" /\ driverGoal.goalTol # "otherJoints"

\* The driver picks its interpolation from the flags, so a flag is set only when
\* every waypoint carries that profile, and accelerations only with velocities.
ProfilesWhole ==
  driverGoal # <<>> =>
    LET tr == driverGoal.trajectory IN
    /\ tr.hasAccelerations => tr.hasVelocities
    /\ \A i \in 1 .. Len(tr.points) :
         /\ tr.points[i].qd # "pastTheEnd" /\ tr.points[i].qdd # "pastTheEnd"
         /\ tr.hasVelocities => tr.points[i].qd = "asked"
         /\ tr.hasAccelerations => tr.points[i].qdd = "asked"

\* Each target is moved to at its own speed, once: the speed the blend was given
\* for it times the speed the blend is executed at is the speed that was asked.
SpeedAppliedOnce ==
  (driverGoal # <<>> /\ request.kind \in ManyTarget) =>
    \A k \in 1 .. Len(request.targets) :
      blend.scales[k] * driverGoal.speed = request.targets[k].speed * 100

\* The bytes of a goal mean to the driver what they say: each profile is the one
\* of its number, and custom gains come with CUSTOM alone, within the driver's
\* bounds; a position goal carries no gains; a trajectory goal preempts only when
\* it says LATEST_WINS, a byte nobody defined making it wait its turn, and a
\* planned move always does.
ProfileByte == [sessionDefault |-> 0, soft |-> 1, medium |-> 2, stiff |-> 3, custom |-> 4]

BytesAsAsked ==
  LET Same(g) == /\ request.gains.profile = ProfileByte[g.profile]
                 /\ g.custom = "asked" <=> g.profile = "custom"
                 /\ g.custom = "asked" => request.gains.inBounds
  IN  /\ coreGains # <<>> => Same(coreGains)
      /\ driverGoal # <<>> =>
           /\ Same(driverGoal.gains)
           /\ driverGoal.mode = "position" => driverGoal.gains.profile = "sessionDefault"
           /\ request.mode = 1 <=> driverGoal.mode = "impedance"
           /\ driverGoal.pathTol = "compliant" => driverGoal.mode = "impedance"
           /\ driverGoal.preemption = "latestWins" <=>
                request.kind # "trajectory" \/ request.preemption = 1

\* A planner is asked for what the goal's targets say, in their order: the first
\* plan from a measured arm and each other from the end of the leg before it, to
\* the k-th target's value, or to the pose its preset names, and with the hold it
\* asked for.  No hold is unknown, no pose missing and no value that is not
\* finite, except a pose's of GoToEEPose, which does not look at it.
PlansAreMeant ==
  \A k \in 1 .. Len(plans) :
    LET asked  == plans[k].asked
        target == request.targets[k] IN
    /\ k <= Len(request.targets)
    /\ asked.start = IF k > 1 THEN "legEnd" ELSE "measured"
    /\ IF request.kind = "preset"
       THEN asked.target = registry[target.preset] /\ asked.target \in {"configured", "default"}
       ELSE asked.target = target.value
    /\ request.kind # "pose" => asked.target # "notFinite"
    /\ request.kind \in PosePlans => asked.hold = target.hold /\ asked.hold \in 0 .. 2

\* The lists a blend is given fit its legs: one leg and one speed per target, a
\* radius, of finite length, for every target but the last, a hold per target when
\* the legs were planned to poses and none when not, and each entry the one of the
\* target at its place.
BlendIsMeant ==
  blend # NoBlend =>
    LET n == Len(request.targets) IN
    /\ Len(plans) = n /\ Len(blend.scales) = n /\ Len(blend.radii) = n - 1
    /\ \A k \in 1 .. n : /\ blend.scales[k] = request.targets[k].speed
                         /\ blend.scales[k] \in MinSpeed .. 100
    /\ \A k \in 1 .. n - 1 : /\ blend.radii[k] = request.targets[k].radius
                             /\ blend.radii[k] \in Nat \ {NotFinite}
    /\ IF request.kind = "poses"
       THEN /\ Len(blend.holds) = n
            /\ \A k \in 1 .. n : blend.holds[k] = request.targets[k].hold
       ELSE blend.holds = <<>>

\* A planned move ends with CONTACT_STOP only if a contact stop latched after the
\* goal's check for one, be it before validate() is through: one that was latched
\* before rejects the goal instead.
ContactStopMeansTrip == verdict = "contactStop" => tripped

\* The inductive invariant: what the driver is given is the mapping of a request
\* that passed its checks, and of a plan that passed its own.
PlannedKind(m) == m.kind \notin {"trajectory", "set_gains"}
Checked ==
  /\ stage \in {"validating", "planning", "blending", "planned"} =>
       PlannedKind(request) /\ ModeGainsAccepted(request.mode, request.gains)
  /\ stage \in {"asked", "validating", "planning", "blending", "planned", "mapped",
                "explaining"} =>
       request \in Goals
  /\ stage # "ended" => verdict = "none"
  /\ stage = "planned" => outcome \in Trajectories
  /\ (stage = "planned" /\ request.kind \in ManyTarget) => blend = BlendRequest(request)
DriverGoalMapped ==
  driverGoal # <<>> =>
    /\ stage \in {"mapped", "explaining", "ended"}
    /\ request \in Goals
    /\ ModeGainsAccepted(request.mode, request.gains)
    /\ \/ /\ request.kind = "trajectory"
          /\ driverGoal = ToTrajectoryGoal(request)
          /\ WellShaped(request.trajectory)
          /\ ToleranceAccepted(request.pathTol) /\ ToleranceAccepted(request.goalTol)
       \/ /\ PlannedKind(request)
          /\ driverGoal = ToPlannedGoal(request, outcome)
          /\ outcome \in Trajectories /\ WellShaped(outcome)
          /\ request.kind \in ManyTarget => blend = BlendRequest(request)
TripRecorded ==
  /\ (stage \in {"validating", "planning", "blending", "planned", "mapped", "explaining"}
      /\ contact = "latched") => tripped
  /\ ContactStopMeansTrip
GainsMapped ==
  coreGains # <<>> =>
    /\ stage = "ended" /\ request \in Goals
    /\ ModeGainsAccepted(1, request.gains)
    /\ coreGains = ToImpedanceGains(request.gains)

\* Each plan is the one its target calls for, asked from a measured arm for a
\* request that passed validate(), and every leg is there before the blend.
PlanAsked    == [hold : Nat,
                 target : {"valid", "notFinite", "notUnit", "missing", "configured", "default"},
                 start : {"measured", "zeros", "legEnd"}]
AnsweredPlan == [asked : PlanAsked, answer : Trajectories]
PlansAsked ==
  /\ \A n \in DOMAIN registry : registry[n] \in {"configured", "default"}
  /\ plans \in Seq(AnsweredPlan)
  /\ stage \in {"idle", "asked", "validating"} => plans = <<>>
  /\ stage \in {"idle", "asked", "validating", "planning", "blending"} => blend = NoBlend
  /\ stage = "validating" => heard
  /\ stage \in {"planning", "blending", "planned"} \/ plans # <<>> \/ blend # NoBlend =>
       heard /\ request \in Goals /\ Valid(request)
  /\ Len(plans) > 0 => Len(plans) <= Len(request.targets)
  /\ stage = "planning" => Len(plans) < Len(request.targets)
  /\ stage = "blending" \/ blend # NoBlend => Len(plans) = Len(request.targets)
  /\ stage = "blending" => request.kind \in ManyTarget
  /\ \A k \in 1 .. Len(plans) : plans[k].asked = PlanRequest(request, k)
  /\ blend # NoBlend => request.kind \in ManyTarget /\ blend = BlendRequest(request)
IInv == Checked /\ DriverGoalMapped /\ TripRecorded /\ GainsMapped /\ PlansAsked

\* A pose plan that is executed was planned in arm_mount (message_mapping.h).
PosePlansInArmMount ==
  (driverGoal # <<>> /\ request.kind \in PosePlans) =>
    \A k \in 1 .. Len(plans) : plans[k].answer.frame = "arm_mount"

=============================================================================
