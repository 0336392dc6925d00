------------------------ MODULE GoalMessagesProofs -------------------------
(***************************************************************************)
(* Whatever clients send and the planner answers: nothing the driver is    *)
(* given was misread, each target keeps its speed, and a contact stop is   *)
(* reported only for a contact.                                            *)
(***************************************************************************)
EXTENDS GoalMessages, TLAPS

\* The mapping of a trajectory of the right shape gives every waypoint as it was
\* sent, and none of the zeros fill_trajectory starts from.
LEMMA FillsNothingIn ==
  ASSUME NEW t \in Trajectory, WellShaped(t)
  PROVE  /\ FillTrajectory(t).points # <<>>
         /\ Len(FillTrajectory(t).points) = Len(t.points)
         /\ \A i \in 1 .. Len(t.points) : FillTrajectory(t).points[i].q = "asked"
<1> DEFINE ps == [i \in 1 .. Len(t.points) |-> Waypoint(t, t.points[i])]
<1>1. t.points \in Seq(Point) /\ Len(t.points) \in Nat /\ Len(t.points) # 0
  BY DEF Trajectory, WellShaped
<1>2. FillTrajectory(t).points = ps
  BY DEF FillTrajectory
<1>3. \A i \in 1 .. Len(t.points) : ps[i].q = "asked"
  BY DEF WellShaped, Waypoint, JointNamesAccepted
<1>4. Len(ps) = Len(t.points) /\ ps # <<>>
  BY <1>1
<1>5. QED  BY <1>2, <1>3, <1>4

\* A profile is copied only when every point carries one of the arm's width.
LEMMA CopiesWholeProfiles ==
  ASSUME NEW t \in Trajectory, NEW i \in 1 .. Len(t.points)
  PROVE  LET tr == FillTrajectory(t) IN
         /\ tr.hasAccelerations => tr.hasVelocities
         /\ tr.points[i].qd # "pastTheEnd" /\ tr.points[i].qdd # "pastTheEnd"
         /\ tr.hasVelocities => tr.points[i].qd = "asked"
         /\ tr.hasAccelerations => tr.points[i].qdd = "asked"
<1>1. FillTrajectory(t).points[i] = Waypoint(t, t.points[i])
  BY DEF FillTrajectory
<1>2. AllVelocities(t) => t.points[i].vel
  BY DEF AllVelocities
<1>3. AllAccelerations(t) => t.points[i].acc
  BY DEF AllAccelerations
<1>4. QED  BY <1>1, <1>2, <1>3 DEF FillTrajectory, Waypoint

-----------------------------------------------------------------------------
LEMMA InitIInv == Init => IInv
<1> SUFFICES ASSUME Init PROVE IInv
  OBVIOUS
<1>1. Checked /\ DriverGoalMapped /\ TripRecorded /\ GainsMapped
  BY DEF Init, Checked, DriverGoalMapped, TripRecorded, ContactStopMeansTrip, GainsMapped
<1>2. PICK listed \in SUBSET PresetNames,
           value \in [PresetNames -> {"unset", "whole", "missized"}] :
        registry = LoadPresets(listed, value)
  BY DEF Init
<1>3. \A n \in DOMAIN registry : registry[n] \in {"configured", "default"}
  BY <1>2 DEF LoadPresets
<1>4. PlansAsked
  BY <1>3 DEF Init, PlansAsked
<1>5. QED  BY <1>1, <1>4 DEF IInv

\* The requests and what is mapped from them.
LEMMA NextMapped ==
  ASSUME Checked, DriverGoalMapped, TripRecorded, [Next]_vars
  PROVE  Checked' /\ DriverGoalMapped' /\ TripRecorded'
<1> USE DEF served
<1>1. CASE FirstFeedback \/ ContactTrips \/ ContactCleared \/ UNCHANGED vars
  <2>1. Checked'
    BY <1>1 DEF Checked, FirstFeedback, ContactTrips, ContactCleared, vars
  <2>2. DriverGoalMapped'
    BY <1>1 DEF DriverGoalMapped, FirstFeedback, ContactTrips, ContactCleared, vars
  <2>3. TripRecorded'
    BY <1>1 DEF TripRecorded, ContactStopMeansTrip, FirstFeedback, ContactTrips,
                ContactCleared, vars
  <2>4. QED  BY <2>1, <2>2, <2>3
<1>2. CASE Ask \/ Reject \/ NextRequest \/ SetGains
  <2>1. Checked'
    BY <1>2 DEF Checked, Ask, Reject, NextRequest, SetGains, EndAs
  <2>2. DriverGoalMapped'
    BY <1>2 DEF DriverGoalMapped, Ask, Reject, NextRequest, SetGains, EndAs
  <2>3. TripRecorded'
    BY <1>2 DEF TripRecorded, ContactStopMeansTrip, Checked, Ask, Reject, NextRequest,
                SetGains, EndAs
  <2>4. QED  BY <2>1, <2>2, <2>3
<1>3. CASE AcceptTrajectory
  <2>1. TrajectoryPasses(request) /\ request \in Goals /\ verdict = "none"
    BY <1>3 DEF AcceptTrajectory, Passes, Checked
  <2>2. Checked'
    BY <1>3, <2>1 DEF Checked, AcceptTrajectory
  <2>3. DriverGoalMapped'
    BY <1>3, <2>1 DEF DriverGoalMapped, AcceptTrajectory, TrajectoryPasses
  <2>4. TripRecorded'
    BY <1>3, <2>1 DEF TripRecorded, ContactStopMeansTrip, AcceptTrajectory,
                      TrajectoryPasses, ContactClear
  <2>5. QED  BY <2>2, <2>3, <2>4
<1>4. CASE PassContact
  <2>1. PlannedMovePasses(request) /\ request \in Goals /\ verdict = "none"
    BY <1>4 DEF PassContact, Passes, Checked
  <2>2. Checked'
    BY <1>4, <2>1 DEF Checked, PassContact, PlannedMovePasses, PlannedKind
  <2>3. DriverGoalMapped'
    BY <1>4 DEF DriverGoalMapped, PassContact
  <2>4. TripRecorded'
    BY <1>4, <2>1 DEF TripRecorded, ContactStopMeansTrip, PassContact,
                      PlannedMovePasses, ContactClear
  <2>5. QED  BY <2>2, <2>3, <2>4
<1>9. CASE AcceptPlannedMove
  <2>1. Checked'
    BY <1>9 DEF Checked, AcceptPlannedMove
  <2>2. DriverGoalMapped'
    BY <1>9 DEF DriverGoalMapped, AcceptPlannedMove
  <2>3. TripRecorded'
    BY <1>9 DEF TripRecorded, ContactStopMeansTrip, AcceptPlannedMove
  <2>4. QED  BY <2>1, <2>2, <2>3
<1>5. CASE PlanFails \/ PlanAnswers \/ BlendAnswers \/ PlanRefused
  <2>1. Checked'
    BY <1>5 DEF Checked, PlanFails, PlanAnswers, BlendAnswers, PlanRefused, EndAs
  <2>2. DriverGoalMapped'
    BY <1>5 DEF DriverGoalMapped, PlanFails, PlanAnswers, BlendAnswers, PlanRefused, EndAs
  <2>3. TripRecorded'
    BY <1>5 DEF TripRecorded, ContactStopMeansTrip, PlanFails, PlanAnswers, BlendAnswers,
                PlanRefused, EndAs
  <2>4. QED  BY <2>1, <2>2, <2>3
<1>6. CASE MapPlan
  <2>1. Checked'
    BY <1>6 DEF Checked, MapPlan
  <2>2. DriverGoalMapped'
    BY <1>6 DEF DriverGoalMapped, Checked, MapPlan, PlanUsable
  <2>3. TripRecorded'
    BY <1>6 DEF TripRecorded, ContactStopMeansTrip, MapPlan
  <2>4. QED  BY <2>1, <2>2, <2>3
<1>7. CASE DriverAccepts \/ DriverRefuses \/ Explain
  <2>1. Checked'
    BY <1>7 DEF Checked, DriverAccepts, DriverRefuses, Explain, EndAs
  <2>2. DriverGoalMapped'
    BY <1>7 DEF DriverGoalMapped, DriverAccepts, DriverRefuses, Explain, EndAs
  <2>3. TripRecorded'
    BY <1>7 DEF TripRecorded, ContactStopMeansTrip, DriverAccepts, DriverRefuses, Explain,
                EndAs, ContactClear
  <2>4. QED  BY <2>1, <2>2, <2>3
<1>8. QED
  BY <1>1, <1>2, <1>3, <1>4, <1>5, <1>6, <1>7, <1>9 DEF Next

LEMMA NextGainsMapped ==
  ASSUME Checked, GainsMapped, [Next]_vars
  PROVE  GainsMapped'
<1> USE DEF GainsMapped
<1>1. CASE SetGains
  <2>1. request \in Goals /\ ModeGainsAccepted(1, request.gains)
    BY <1>1 DEF SetGains, Passes, Checked, TrajectoryPasses
  <2>2. QED  BY <1>1, <2>1 DEF SetGains, EndAs
<1>2. CASE NextRequest
  BY <1>2 DEF NextRequest
<1>3. CASE FirstFeedback \/ ContactTrips \/ ContactCleared \/ UNCHANGED vars
  BY <1>3 DEF FirstFeedback, ContactTrips, ContactCleared, vars, served
<1>4. CASE Ask \/ Reject \/ AcceptTrajectory \/ PassContact \/ AcceptPlannedMove \/ PlanFails
           \/ PlanAnswers \/ BlendAnswers \/ PlanRefused \/ MapPlan
           \/ DriverAccepts \/ DriverRefuses \/ Explain
  BY <1>4 DEF Ask, Reject, AcceptTrajectory, PassContact, AcceptPlannedMove, PlanFails, PlanAnswers,
     BlendAnswers, PlanRefused, MapPlan, DriverAccepts, DriverRefuses, Explain, served
<1>5. QED  BY <1>1, <1>2, <1>3, <1>4 DEF Next

-----------------------------------------------------------------------------
(* The plans.                                                              *)

\* What a plan is asked is a matter of the request, once the arm was measured.
LEMMA AskedTyped ==
  ASSUME NEW m \in Goals, NEW k \in 1 .. Len(m.targets),
         \A n \in DOMAIN registry : registry[n] \in {"configured", "default"}
  PROVE  PlanRequest(m, k) \in PlanAsked
<1>1. m.targets[k] \in Target
  BY GoalsAssumption DEF Message
<1>2. m.targets[k].hold \in Nat /\ m.targets[k].value \in {"valid", "notFinite", "notUnit"}
  BY <1>1 DEF Target
<1>3. PlanRequest(m, k).hold \in Nat
  BY <1>2 DEF PlanRequest, HoldOf
<1>4. PlanRequest(m, k).target \in
        {"valid", "notFinite", "notUnit", "missing", "configured", "default"}
  BY <1>2 DEF PlanRequest
<1>5. PlanRequest(m, k).start \in {"measured", "zeros", "legEnd"}
  BY DEF PlanRequest
<1>6. PlanRequest(m, k) = [hold |-> PlanRequest(m, k).hold,
                           target |-> PlanRequest(m, k).target,
                           start |-> PlanRequest(m, k).start]
  BY DEF PlanRequest
<1>7. QED  BY <1>3, <1>4, <1>5, <1>6 DEF PlanAsked

LEMMA AppendsPlan ==
  ASSUME IInv, PlanAnswers
  PROVE  PlansAsked'
<1> DEFINE k == Len(plans) + 1
<1>1. PICK t \in Trajectories :
        /\ plans' = Append(plans, [asked |-> PlanRequest(request, k), answer |-> t])
        /\ \/ request.kind \notin ManyTarget /\ stage' = "planned"
           \/ request.kind \in ManyTarget /\ stage' = "ended"
           \/ /\ request.kind \in ManyTarget
              /\ stage' = IF k < Len(request.targets) THEN "planning" ELSE "blending"
  BY DEF PlanAnswers, EndAs
<1>2. /\ stage = "planning" /\ request \in Goals /\ Valid(request) /\ heard
      /\ blend = NoBlend /\ k \in 1 .. Len(request.targets)
      /\ Len(request.targets) \in Nat
  BY GoalsAssumption DEF PlanAnswers, IInv, PlansAsked, Message
<1>3. UNCHANGED <<heard, contact, registry, request, blend>>
  BY DEF PlanAnswers
<1>4. [asked |-> PlanRequest(request, k), answer |-> t] \in AnsweredPlan
  BY <1>2, AskedTyped DEF AnsweredPlan, IInv, PlansAsked
<1>5. plans' \in Seq(AnsweredPlan) /\ Len(plans') = k
  BY <1>1, <1>4 DEF IInv, PlansAsked
<1>6. \A i \in 1 .. Len(plans') : plans'[i].asked = PlanRequest(request, i)
  <2> SUFFICES ASSUME NEW i \in 1 .. Len(plans')
               PROVE  plans'[i].asked = PlanRequest(request, i)
    OBVIOUS
  <2>1. CASE i = k
    BY <1>1, <2>1 DEF IInv, PlansAsked
  <2>2. CASE i # k
    <3>1. i \in 1 .. Len(plans) /\ plans'[i] = plans[i]
      BY <1>1, <1>5, <2>2 DEF IInv, PlansAsked
    <3>2. QED  BY <3>1 DEF IInv, PlansAsked
  <2>3. QED  BY <2>1, <2>2
<1>7. \A i \in 1 .. Len(plans') : PlanRequest(request, i)' = PlanRequest(request, i)
  BY <1>3 DEF PlanRequest
<1>8. Valid(request)' <=> Valid(request)
  BY <1>3 DEF Valid, ValidPose, ValidConfig, ValidPreset, ValidPoses, ValidConfigs
<1>9. \/ stage' = "planned" /\ k = Len(request.targets)
      \/ stage' = "ended"
      \/ stage' = "planning" /\ k < Len(request.targets)
      \/ stage' = "blending" /\ k = Len(request.targets) /\ request.kind \in ManyTarget
  <2>1. request.kind \notin ManyTarget => Len(request.targets) = 1
    BY <1>2, GoalsAssumption DEF ManyTarget, Valid
  <2>2. CASE request.kind \notin ManyTarget
    <3>1. stage' = "planned"
      BY <1>1, <2>2
    <3>2. k = Len(request.targets)
      <4>1. Len(plans) \in Nat
        BY DEF IInv, PlansAsked
      <4>2. Len(request.targets) = 1
        BY <2>1, <2>2
      <4>3. k <= 1
        BY <1>2, <4>1, <4>2
      <4>4. QED  BY <4>1, <4>2, <4>3
    <3>3. QED  BY <3>1, <3>2
  <2>3. CASE request.kind \in ManyTarget
    BY <1>1, <1>2, <2>3
  <2>4. QED  BY <2>2, <2>3
<1>10. /\ heard' /\ request' \in Goals /\ Valid(request)'
       /\ blend' = NoBlend
       /\ \A n \in DOMAIN registry' : registry'[n] \in {"configured", "default"}
  BY <1>2, <1>3, <1>8 DEF PlansAsked, IInv
<1>11. \A i \in 1 .. Len(plans') : plans'[i].asked = PlanRequest(request, i)'
  BY <1>6, <1>7
<1>12. /\ Len(plans') <= Len(request'.targets) /\ Len(plans') > 0
       /\ stage' \in {"planned", "ended", "planning", "blending"}
       /\ stage' = "planning" => Len(plans') < Len(request'.targets)
       /\ stage' = "blending" => /\ Len(plans') = Len(request'.targets)
                                /\ request'.kind \in ManyTarget
  BY <1>2, <1>3, <1>5, <1>9
<1>13. QED  BY <1>5, <1>10, <1>11, <1>12 DEF PlansAsked

LEMMA NextPlansAsked ==
  ASSUME IInv, [Next]_vars
  PROVE  PlansAsked'
<1>1. ASSUME UNCHANGED <<registry, request, plans, blend>>, heard => heard',
             stage' \in {"ended", "mapped", "explaining", stage}
      PROVE  PlansAsked'
  <2>1. heard => \A i \in 1 .. Len(plans) : PlanRequest(request, i)' = PlanRequest(request, i)
    BY <1>1 DEF PlanRequest
  <2>2. Valid(request)' <=> Valid(request)
    BY <1>1 DEF Valid, ValidPose, ValidConfig, ValidPreset, ValidPoses, ValidConfigs
  <2>3. (\E i \in 1 .. Len(plans) : TRUE) => plans # <<>>
    BY DEF IInv, PlansAsked
  <2>4. \A i \in 1 .. Len(plans') : plans'[i].asked = PlanRequest(request, i)'
    BY <1>1, <2>1, <2>3 DEF IInv, PlansAsked
  <2>5. QED  BY <1>1, <2>2, <2>4 DEF IInv, PlansAsked
<1>2. CASE FirstFeedback \/ ContactTrips \/ ContactCleared \/ UNCHANGED vars
  BY <1>1, <1>2 DEF FirstFeedback, ContactTrips, ContactCleared, vars, served
<1>3. CASE Reject \/ AcceptTrajectory \/ SetGains \/ PlanFails \/ PlanRefused \/ MapPlan
           \/ DriverAccepts \/ DriverRefuses \/ Explain
  BY <1>1, <1>3 DEF Reject, AcceptTrajectory, SetGains, PlanFails, PlanRefused, MapPlan,
     DriverAccepts, DriverRefuses, Explain, EndAs
<1>4. CASE Ask \/ NextRequest
  <2>1. plans' = <<>> /\ blend' = NoBlend /\ stage' \in {"asked", "idle"}
        /\ registry' = registry
    BY <1>4 DEF Ask, NextRequest, IInv, PlansAsked
  <2>2. plans' \in Seq(AnsweredPlan) /\ Len(plans') = 0
    BY <2>1
  <2>3. QED  BY <2>1, <2>2 DEF IInv, PlansAsked
<1>9. CASE PassContact
  <2>1. /\ heard /\ stage = "asked" /\ stage' = "validating"
        /\ UNCHANGED <<heard, registry, request, plans, blend>>
    BY <1>9 DEF PassContact, Passes, PlannedMovePasses, served
  <2>2. plans = <<>> /\ blend = NoBlend /\ Len(plans) = 0
    BY <2>1 DEF IInv, PlansAsked
  <2>3. QED  BY <2>1, <2>2 DEF IInv, PlansAsked
<1>5. CASE AcceptPlannedMove
  <2>1. request \in Goals /\ heard /\ Valid(request)
    BY <1>5 DEF AcceptPlannedMove, IInv, Checked, PlansAsked
  <2>2. Valid(request)' <=> Valid(request)
    BY <1>5 DEF AcceptPlannedMove, served, Valid, ValidPose, ValidConfig, ValidPreset,
       ValidPoses, ValidConfigs
  <2>3. Len(request.targets) \in Nat /\ Len(request.targets) > 0
    <3>1. request.targets \in Seq(Target)
      BY <2>1, GoalsAssumption DEF Message
    <3>2. request.kind \in {"pose", "config", "preset"} => Len(request.targets) = 1
      BY <2>1, GoalsAssumption
    <3>3. request.targets # <<>> \/ request.kind \in {"pose", "config", "preset"}
      BY <2>1 DEF Valid, ValidPoses, ValidConfigs
    <3>4. request.targets # <<>> => Len(request.targets) > 0
      BY <3>1
    <3>5. Len(request.targets) \in Nat
      BY <3>1
    <3>6. CASE request.targets # <<>>
      BY <3>4, <3>5, <3>6
    <3>7. CASE request.kind \in {"pose", "config", "preset"}
      <4>1. Len(request.targets) = 1
        BY <3>2, <3>7
      <4>2. QED  BY <4>1
    <3>8. QED  BY <3>3, <3>6, <3>7
  <2>4. plans = <<>> /\ blend = NoBlend
    BY <1>5 DEF AcceptPlannedMove, IInv, PlansAsked
  <2>5. /\ plans' = <<>> /\ blend' = NoBlend /\ stage' = "planning"
        /\ UNCHANGED <<registry, request, heard>>
    BY <1>5, <2>4 DEF AcceptPlannedMove, served
  <2>6. plans' \in Seq(AnsweredPlan) /\ Len(plans') = 0
    BY <2>5
  <2>7. QED  BY <2>1, <2>2, <2>3, <2>5, <2>6 DEF IInv, PlansAsked
<1>6. CASE PlanAnswers
  BY <1>6, AppendsPlan
<1>7. CASE BlendAnswers
  <2>1. Valid(request)' <=> Valid(request)
    BY <1>7 DEF BlendAnswers, Valid, ValidPose, ValidConfig, ValidPreset, ValidPoses,
       ValidConfigs
  <2>2. \A i \in 1 .. Len(plans) : PlanRequest(request, i)' = PlanRequest(request, i)
    BY <1>7 DEF BlendAnswers, PlanRequest
  <2>3. BlendRequest(request)' = BlendRequest(request)
    BY <1>7 DEF BlendAnswers, BlendRequest
  <2>4. QED  BY <1>7, <2>1, <2>2, <2>3 DEF BlendAnswers, IInv, PlansAsked
<1>8. QED  BY <1>2, <1>3, <1>4, <1>5, <1>6, <1>7, <1>9 DEF Next

LEMMA NextIInv ==
  ASSUME IInv, [Next]_vars
  PROVE  IInv'
BY NextMapped, NextGainsMapped, NextPlansAsked DEF IInv

\* A request that passed its checks reaches the driver as the mapping of what was
\* asked and planned: the strengthening the theorems below follow from.
THEOREM Inductive == Spec => []IInv
BY InitIInv, NextIInv, PTL DEF Spec

-----------------------------------------------------------------------------
LEMMA MappedFrom ==
  ASSUME IInv, driverGoal # <<>>
  PROVE  \E t \in Trajectory : WellShaped(t) /\ driverGoal.trajectory = FillTrajectory(t)
<1>1. CASE request.kind = "trajectory" /\ driverGoal = ToTrajectoryGoal(request)
           /\ WellShaped(request.trajectory) /\ request \in Goals
  BY <1>1, GoalsAssumption DEF Message, ToTrajectoryGoal
<1>2. CASE driverGoal = ToPlannedGoal(request, outcome)
           /\ outcome \in Trajectories /\ WellShaped(outcome)
  BY <1>2, GoalsAssumption DEF ToPlannedGoal
<1>3. QED  BY <1>1, <1>2 DEF IInv, DriverGoalMapped

\* Every waypoint and tolerance the driver is given is one the sender gave for
\* these joints in this order (fill_trajectory's zeros never reach the arm).
THEOREM NothingMisread == Spec => []NeverMisread
<1>1. IInv => NeverMisread
  <2> SUFFICES ASSUME IInv, driverGoal # <<>>  PROVE NeverMisread
    BY DEF NeverMisread
  <2>1. PICK t \in Trajectory : WellShaped(t) /\ driverGoal.trajectory = FillTrajectory(t)
    BY MappedFrom
  <2>2. /\ driverGoal.trajectory.points # <<>>
        /\ \A i \in 1 .. Len(driverGoal.trajectory.points) :
             driverGoal.trajectory.points[i].q = "asked"
    BY <2>1, FillsNothingIn
  <2>3. driverGoal.pathTol # "otherJoints" /\ driverGoal.goalTol # "otherJoints"
    BY DEF IInv, DriverGoalMapped, ToTrajectoryGoal, ToPlannedGoal, ToTolerance,
           ToleranceAccepted, JointNamesAccepted
  <2>4. QED  BY <2>2, <2>3 DEF NeverMisread
<1>2. QED  BY <1>1, Inductive, PTL

\* An interpolation order is claimed only when every waypoint carries it.
THEOREM ProfilesAreWhole == Spec => []ProfilesWhole
<1>1. IInv => ProfilesWhole
  <2> SUFFICES ASSUME IInv, driverGoal # <<>>  PROVE ProfilesWhole
    BY DEF ProfilesWhole
  <2>1. PICK t \in Trajectory : WellShaped(t) /\ driverGoal.trajectory = FillTrajectory(t)
    BY MappedFrom
  <2>2. Len(driverGoal.trajectory.points) = Len(t.points)
    BY <2>1, FillsNothingIn
  <2>3. FillTrajectory(t).hasAccelerations => FillTrajectory(t).hasVelocities
    BY DEF FillTrajectory
  <2>4. QED  BY <2>1, <2>2, <2>3, CopiesWholeProfiles DEF ProfilesWhole
<1>2. QED  BY <1>1, Inductive, PTL

\* Whatever speeds the targets of a goal ask for, each is applied exactly once.
THEOREM SpeedsAppliedOnce == Spec => []SpeedAppliedOnce
<1>1. IInv => SpeedAppliedOnce
  <2> SUFFICES ASSUME IInv, driverGoal # <<>>, request.kind \in ManyTarget,
                      NEW k \in 1 .. Len(request.targets)
               PROVE  blend.scales[k] * driverGoal.speed = request.targets[k].speed * 100
    BY DEF SpeedAppliedOnce
  <2>1. driverGoal = ToPlannedGoal(request, outcome) /\ blend = BlendRequest(request)
    BY DEF IInv, DriverGoalMapped, ManyTarget
  <2>2. driverGoal.speed = 100
    BY <2>1 DEF ToPlannedGoal, ExecutionSpeed
  <2>3. blend.scales[k] = request.targets[k].speed
    BY <2>1 DEF BlendRequest
  <2>4. QED  BY <2>2, <2>3
<1>2. QED  BY <1>1, Inductive, PTL

\* CONTACT_STOP is answered only for a contact that came after the acceptance.
THEOREM ContactStopsMeanTrips == Spec => []ContactStopMeansTrip
<1>1. IInv => ContactStopMeansTrip
  BY DEF IInv, TripRecorded
<1>2. QED  BY <1>1, Inductive, PTL

-----------------------------------------------------------------------------
\* A byte becomes the profile of its number, and the custom fields come with CUSTOM.
LEMMA GainsKept ==
  ASSUME NEW m \in Goals, NEW mode, ModeGainsAccepted(mode, m.gains)
  PROVE  LET g == ToImpedanceGains(m.gains) IN
         /\ m.gains.profile = ProfileByte[g.profile]
         /\ g.custom = "asked" <=> g.profile = "custom"
         /\ g.custom = "asked" => m.gains.inBounds
         /\ m.gains.profile = 0 => g.profile = "sessionDefault"
<1>1. m.gains.profile \in 0 .. 4 /\ (m.gains.profile = 4 => m.gains.inBounds)
  BY GoalsAssumption DEF ModeGainsAccepted, Message, GainsSpec
<1>2. ToImpedanceGains(m.gains).custom = IF m.gains.profile = 4 THEN "asked" ELSE "untouched"
  BY DEF ToImpedanceGains
<1> DEFINE profile == ToImpedanceGains(m.gains).profile
<1>p. /\ ProfileByte["sessionDefault"] = 0 /\ ProfileByte["soft"] = 1
      /\ ProfileByte["medium"] = 2 /\ ProfileByte["stiff"] = 3 /\ ProfileByte["custom"] = 4
  BY DEF ProfileByte
<1>3. CASE m.gains.profile = 0
  <2>1. profile = "sessionDefault"
    BY <1>3 DEF ToImpedanceGains
  <2>2. QED  BY <1>2, <1>3, <1>p, <2>1
<1>4. CASE m.gains.profile = 1
  <2>1. profile = "soft"
    BY <1>4 DEF ToImpedanceGains
  <2>2. QED  BY <1>2, <1>4, <1>p, <2>1
<1>5. CASE m.gains.profile = 2
  <2>1. profile = "medium"
    BY <1>5 DEF ToImpedanceGains
  <2>2. QED  BY <1>2, <1>5, <1>p, <2>1
<1>6. CASE m.gains.profile = 3
  <2>1. profile = "stiff"
    BY <1>6 DEF ToImpedanceGains
  <2>2. QED  BY <1>2, <1>6, <1>p, <2>1
<1>7. CASE m.gains.profile = 4
  <2>1. profile = "custom"
    BY <1>7 DEF ToImpedanceGains
  <2>2. QED  BY <1>1, <1>2, <1>7, <1>p, <2>1
<1>8. QED  BY <1>1, <1>3, <1>4, <1>5, <1>6, <1>7

\* Every profile byte becomes its own profile, custom gains are within the driver's
\* bounds, a position goal carries none, and a trajectory goal preempts only when it
\* says so: to_impedance_gains' fallback to the session's default never replaces
\* what a client asked for.
THEOREM BytesAreAsAsked == Spec => []BytesAsAsked
<1>1. IInv => BytesAsAsked
  <2> SUFFICES ASSUME IInv PROVE BytesAsAsked
    OBVIOUS
  <2> DEFINE Same(g) == /\ request.gains.profile = ProfileByte[g.profile]
                        /\ g.custom = "asked" <=> g.profile = "custom"
                        /\ g.custom = "asked" => request.gains.inBounds
  <2>1. coreGains # <<>> => Same(coreGains)
    BY GainsKept DEF IInv, GainsMapped
  <2>2. ASSUME driverGoal # <<>>
        PROVE  /\ Same(driverGoal.gains)
               /\ driverGoal.mode = "position" => driverGoal.gains.profile = "sessionDefault"
               /\ request.mode = 1 <=> driverGoal.mode = "impedance"
               /\ driverGoal.pathTol = "compliant" => driverGoal.mode = "impedance"
               /\ driverGoal.preemption = "latestWins" <=>
                    request.kind # "trajectory" \/ request.preemption = 1
    <3>1. request \in Goals /\ ModeGainsAccepted(request.mode, request.gains)
      BY <2>2 DEF IInv, DriverGoalMapped
    <3>2. /\ driverGoal.gains = ToImpedanceGains(request.gains)
          /\ driverGoal.mode = ToControlMode(request.mode)
          /\ driverGoal.pathTol = "compliant" => driverGoal.mode = "impedance"
          /\ driverGoal.preemption = "latestWins" <=>
               request.kind # "trajectory" \/ request.preemption = 1
      <4>1. CASE request.kind = "trajectory" /\ driverGoal = ToTrajectoryGoal(request)
        BY <4>1 DEF ToTrajectoryGoal, ToTolerance, ToPreemption
      <4>2. CASE request.kind # "trajectory" /\ driverGoal = ToPlannedGoal(request, outcome)
        BY <4>2 DEF ToPlannedGoal
      <4>3. QED  BY <2>2, <4>1, <4>2 DEF IInv, DriverGoalMapped, PlannedKind
    <3>3. Same(driverGoal.gains)
      BY <3>1, <3>2, GainsKept
    <3>4. request.mode # 1 => request.gains.profile = 0
      BY <3>1 DEF ModeGainsAccepted
    <3>5. request.gains.profile = 0 => driverGoal.gains.profile = "sessionDefault"
      BY <3>1, <3>2, GainsKept
    <3>6. QED  BY <3>2, <3>3, <3>4, <3>5 DEF ToControlMode
  <2>3. QED  BY <2>1, <2>2 DEF BytesAsAsked
<1>2. QED  BY <1>1, Inductive, PTL

LEMMA SpeedInRange ==
  ASSUME NEW s \in Int, SpeedAccepted(s)
  PROVE  s \in MinSpeed .. 100
<1>1. MinSpeed <= s /\ s <= 100
  BY Zenon DEF SpeedAccepted
<1>2. MinSpeed \in Int
  BY DEF MinSpeed
<1>3. QED  BY <1>1, <1>2

\* A plan that has been answered is the one its target calls for.
LEMMA PlanOfTarget ==
  ASSUME IInv, NEW k \in 1 .. Len(plans)
  PROVE  /\ request \in Goals /\ Valid(request) /\ heard
         /\ plans[k].asked = PlanRequest(request, k)
         /\ k \in 1 .. Len(request.targets) /\ request.targets[k] \in Target
<1>1. Len(plans) \in Nat /\ Len(plans) > 0 /\ plans # <<>>
  BY DEF IInv, PlansAsked
<1>2. request \in Goals /\ Valid(request) /\ heard
  BY <1>1 DEF IInv, PlansAsked
<1>3. Len(request.targets) \in Nat /\ request.targets \in Seq(Target)
  BY <1>2, GoalsAssumption DEF Message
<1>4. QED  BY <1>1, <1>2, <1>3 DEF IInv, PlansAsked

\* The planner is asked for what the targets say, in their order, with their holds,
\* and for nothing that cannot be planned but a GoToEEPose pose that is not finite:
\* for goals of any number of targets and any preset parameters.
THEOREM PlansAreAsMeant == Spec => []PlansAreMeant
<1>1. IInv => PlansAreMeant
  <2> SUFFICES ASSUME IInv, NEW k \in 1 .. Len(plans)
               PROVE  LET asked  == plans[k].asked
                          target == request.targets[k] IN
                      /\ k <= Len(request.targets)
                      /\ asked.start = IF k > 1 THEN "legEnd" ELSE "measured"
                      /\ IF request.kind = "preset"
                         THEN /\ asked.target = registry[target.preset]
                              /\ asked.target \in {"configured", "default"}
                         ELSE asked.target = target.value
                      /\ request.kind # "pose" => asked.target # "notFinite"
                      /\ request.kind \in PosePlans =>
                           asked.hold = target.hold /\ asked.hold \in 0 .. 2
    BY DEF PlansAreMeant
  <2>1. /\ request \in Goals /\ Valid(request) /\ heard
        /\ plans[k].asked = PlanRequest(request, k)
        /\ k \in 1 .. Len(request.targets) /\ request.targets[k] \in Target
        /\ k <= Len(request.targets)
    BY PlanOfTarget
  <2>2. request.kind \in {"pose", "config", "preset"} => k = 1
    BY <2>1, GoalsAssumption
  <2>3. plans[k].asked.start = IF k > 1 THEN "legEnd" ELSE "measured"
    BY <2>1 DEF PlanRequest
  <2>4. request.kind \in PosePlans =>
          /\ plans[k].asked.hold = request.targets[k].hold
          /\ plans[k].asked.hold \in 0 .. 2
    BY <2>1, <2>2 DEF PlanRequest, HoldOf, PosePlans, Valid, ValidPose, ValidPoses,
       PosesAccepted, HoldKnown, Target
  <2>5. CASE request.kind = "preset"
    <3>1. request.targets[k].preset \in DOMAIN registry
      BY <2>1, <2>2, <2>5 DEF Valid, ValidPreset
    <3>2. plans[k].asked.target = registry[request.targets[k].preset]
      BY <2>1, <2>5, <3>1 DEF PlanRequest
    <3>3. registry[request.targets[k].preset] \in {"configured", "default"}
      BY <3>1 DEF IInv, PlansAsked
    <3>4. QED  BY <2>1, <2>3, <2>4, <2>5, <3>2, <3>3
  <2>6. CASE request.kind # "preset"
    <3>1. plans[k].asked.target = request.targets[k].value
      BY <2>1, <2>6 DEF PlanRequest
    <3>2. request.kind # "pose" => request.targets[k].value # "notFinite"
      BY <2>1, <2>2, <2>6 DEF Valid, ValidConfig, ValidPoses, ValidConfigs,
         PosesAccepted, ConfigsAccepted
    <3>3. QED  BY <2>1, <2>3, <2>4, <2>6, <3>1, <3>2
  <2>7. QED  BY <2>5, <2>6
<1>2. QED  BY <1>1, Inductive, PTL

\* The blend is given a speed, a radius and a hold for each target it needs one of,
\* in the targets' order, for goals of any number of targets.
THEOREM BlendsAreAsMeant == Spec => []BlendIsMeant
<1>1. IInv => BlendIsMeant
  <2> SUFFICES ASSUME IInv, blend # NoBlend
               PROVE  BlendIsMeant
    BY DEF BlendIsMeant
  <2> DEFINE n == Len(request.targets)
             lastHold == IF request.kind = "poses" THEN n ELSE 0
             scales == [k \in 1 .. n |-> request.targets[k].speed]
             radii == [k \in 1 .. n - 1 |-> request.targets[k].radius]
             holds == [k \in 1 .. lastHold |-> request.targets[k].hold]
  <2>1. /\ request \in Goals /\ Valid(request) /\ request.kind \in ManyTarget
        /\ blend = BlendRequest(request) /\ Len(plans) = n
    BY DEF IInv, PlansAsked
  <2>2. request.targets \in Seq(Target) /\ request.targets # <<>>
    BY <2>1, GoalsAssumption DEF Message, Valid, ManyTarget, ValidPoses, ValidConfigs
  <2>3. n \in Nat /\ n - 1 \in Nat /\ lastHold \in Nat
    BY <2>2
  <2>4. blend.scales = scales /\ blend.radii = radii /\ blend.holds = holds
    BY <2>1 DEF BlendRequest
  <2>5. Len(scales) = n /\ Len(radii) = n - 1 /\ Len(holds) = lastHold
    BY <2>3
  <2>6. ASSUME NEW k \in 1 .. n
        PROVE  /\ request.targets[k].radius \in Nat \ {NotFinite}
               /\ request.targets[k].speed \in MinSpeed .. 100
    <3>1. request.targets[k] \in Target
      BY <2>2
    <3>2. RadiusAccepted(request.targets[k].radius) /\ SpeedAccepted(request.targets[k].speed)
      BY <2>1, <2>6 DEF Valid, ManyTarget, ValidPoses, ValidConfigs, PosesAccepted,
         ConfigsAccepted
    <3>3. request.targets[k].radius \in Int /\ request.targets[k].speed \in Int
      BY <3>1 DEF Target
    <3>4. request.targets[k].radius # NotFinite /\ request.targets[k].radius >= 0
      BY <3>2, Zenon DEF RadiusAccepted
    <3>5. request.targets[k].radius \in Nat
      BY <3>3, <3>4
    <3>6. request.targets[k].speed \in MinSpeed .. 100
      BY <3>2, <3>3, SpeedInRange
    <3>7. QED  BY <3>4, <3>5, <3>6
  <2>7. \A k \in 1 .. n : /\ blend.scales[k] = request.targets[k].speed
                         /\ blend.scales[k] \in MinSpeed .. 100
    BY <2>4, <2>6
  <2>8. ASSUME NEW k \in 1 .. n - 1
        PROVE  /\ blend.radii[k] = request.targets[k].radius
               /\ blend.radii[k] \in Nat \ {NotFinite}
    <3>1. k \in 1 .. n
      BY <2>3
    <3>2. blend.radii[k] = request.targets[k].radius
      BY <2>4
    <3>3. QED  BY <2>6, <3>1, <3>2
  <2>9. IF request.kind = "poses"
        THEN /\ Len(blend.holds) = n
             /\ \A k \in 1 .. n : blend.holds[k] = request.targets[k].hold
        ELSE blend.holds = <<>>
    <3>1. CASE request.kind = "poses"
      BY <2>4, <2>5, <3>1
    <3>2. CASE request.kind # "poses"
      BY <2>4, <3>2
    <3>3. QED  BY <3>1, <3>2
  <2>10. QED  BY <2>1, <2>4, <2>5, <2>7, <2>8, <2>9 DEF BlendIsMeant
<1>2. QED  BY <1>1, Inductive, PTL

-----------------------------------------------------------------------------
(* Which plans escape the check of their frame.                            *)

\* What is executed passed check_plan; the answer to the only plan of a goal is
\* what is executed.
FramesChecked ==
  /\ driverGoal # <<>> /\ PlannedKind(request) => PlanUsable(request, outcome)
  /\ (stage = "planned" \/ driverGoal # <<>>) /\ request.kind = "pose" =>
       Len(plans) = 1 /\ plans[1].answer = outcome

LEMMA NextFramesChecked ==
  ASSUME IInv, FramesChecked, [Next]_vars
  PROVE  FramesChecked'
<1> USE DEF FramesChecked
<1>1. CASE FirstFeedback \/ ContactTrips \/ ContactCleared \/ UNCHANGED vars
  BY <1>1 DEF FirstFeedback, ContactTrips, ContactCleared, vars, served, PlanUsable
<1>2. CASE Ask \/ PassContact \/ AcceptPlannedMove \/ NextRequest
  BY <1>2 DEF Ask, PassContact, AcceptPlannedMove, NextRequest, served, IInv, DriverGoalMapped
<1>3. CASE AcceptTrajectory
  BY <1>3 DEF AcceptTrajectory, PlannedKind
<1>4. CASE Reject \/ SetGains \/ PlanFails \/ PlanRefused \/ DriverAccepts \/ DriverRefuses
           \/ Explain
  BY <1>4 DEF Reject, SetGains, PlanFails, PlanRefused, DriverAccepts, DriverRefuses,
     Explain, EndAs, PlanUsable
<1>5. CASE PlanAnswers
  <2>1. driverGoal' = <<>> /\ UNCHANGED request
    BY <1>5 DEF PlanAnswers, IInv, DriverGoalMapped
  <2>2. ASSUME request.kind = "pose"  PROVE Len(plans') = 1 /\ plans'[1].answer = outcome'
    <3>1. request.kind \notin ManyTarget
      BY <2>2 DEF ManyTarget
    <3>2. PICK t \in Trajectories :
            /\ plans' = Append(plans, [asked  |-> PlanRequest(request, Len(plans) + 1),
                                       answer |-> t])
            /\ outcome' = t
      BY <1>5, <3>1 DEF PlanAnswers
    <3>3. plans \in Seq(AnsweredPlan) /\ Len(plans) = 0
      <4>1. request \in Goals /\ Len(plans) < Len(request.targets)
            /\ plans \in Seq(AnsweredPlan)
        BY <1>5 DEF PlanAnswers, IInv, PlansAsked
      <4>2. Len(request.targets) = 1
        BY <2>2, <4>1, GoalsAssumption
      <4>3. Len(plans) \in Nat
        BY <4>1
      <4> QED  BY <4>1, <4>2, <4>3
    <3> DEFINE p == [asked |-> PlanRequest(request, Len(plans) + 1), answer |-> t]
    <3>4. p.answer = t
      OBVIOUS
    <3> HIDE DEF p
    <3>5. plans' = Append(plans, p)
      BY <3>2 DEF p
    <3>6. Len(plans') = 1 /\ plans'[1] = p
      BY <3>3, <3>5
    <3> QED  BY <3>2, <3>4, <3>6
  <2> QED  BY <2>1, <2>2
<1>6. CASE BlendAnswers
  <2>1. driverGoal' = <<>> /\ request' = request /\ request.kind \in ManyTarget
    BY <1>6 DEF BlendAnswers, IInv, DriverGoalMapped, PlansAsked
  <2> QED  BY <2>1 DEF ManyTarget
<1>7. CASE MapPlan
  BY <1>7 DEF MapPlan, PlanUsable
<1> QED  BY <1>1, <1>2, <1>3, <1>4, <1>5, <1>6, <1>7 DEF Next

\* Of the goals that plan poses only GoToEEPoses can be executed with a plan of
\* another frame among its plans, and then only with a leg's: what is executed is
\* in arm_mount always, as check_plan sees the outcome and never a leg.
THEOREM OnlyLegsGoUnchecked ==
  Spec => [](/\ request.kind = "pose" => PosePlansInArmMount
             /\ driverGoal # <<>> /\ request.kind \in PosePlans =>
                  outcome.frame = "arm_mount")
<1>1. Init => FramesChecked
  BY DEF Init, FramesChecked
<1>2. FramesChecked => /\ request.kind = "pose" => PosePlansInArmMount
                       /\ driverGoal # <<>> /\ request.kind \in PosePlans =>
                            outcome.frame = "arm_mount"
  BY DEF FramesChecked, PosePlansInArmMount, PlanUsable, PlannedKind, PosePlans
<1> QED  BY <1>1, <1>2, NextFramesChecked, Inductive, PTL DEF Spec
=============================================================================
