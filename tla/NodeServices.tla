---------------------------- MODULE NodeServices ----------------------------
(***************************************************************************)
(* The node's small servers beside each other: streams, contact thresholds *)
(* with the gripper, which share the contact monitor, the speed scale and  *)
(* the arm's health.                                                       *)
(*                                                                         *)
(* Between these four there is no shared variable and no call.  A step of  *)
(* one is then enabled, and does the same, whatever the others do, so each *)
(* behaviour moves one of them, chosen at the start, and holds the others  *)
(* still: every behaviour of each is there, without their product.         *)
(***************************************************************************)
EXTENDS StreamServer, ContactServer, GripperServer, SpeedScaleParam, ArmHealth

VARIABLE service  \* which of the four moves

surfaceVars == <<contactVars, gripperVars>>
servicesVars == <<vars, surfaceVars, speedVars, healthVars, service>>

ServicesInit ==
  /\ service \in {"streams", "contact", "speed", "health"}
  /\ Init
  /\ ContactInit /\ GripperInit
  /\ SpeedInit
  /\ HealthInit

\* Thresholds, setpoints and the monitor interleave.
SurfaceStep ==
  \/ SetStep /\ UNCHANGED gripperVars
  \/ GripperStep /\ UNCHANGED setVars
  \/ MonitorStep /\ UNCHANGED setVars

Streams(step) ==
  /\ service = "streams" /\ step
  /\ UNCHANGED <<surfaceVars, speedVars, healthVars, service>>

Surface(step) ==
  /\ service = "contact" /\ step
  /\ UNCHANGED <<vars, speedVars, healthVars, service>>

Speed(step) ==
  /\ service = "speed" /\ step
  /\ UNCHANGED <<vars, surfaceVars, healthVars, service>>

Health(step) ==
  /\ service = "health" /\ step
  /\ UNCHANGED <<vars, surfaceVars, speedVars, service>>

ServicesNext ==
  \/ Streams(Next)
  \/ Surface(SurfaceStep)
  \/ Speed(SpeedStep)
  \/ Health(HealthStep)

ServicesSpec == ServicesInit /\ [][ServicesNext]_servicesVars

\* The fairness StreamServer states, for the behaviours in which it moves.
FairServices ==
  /\ ServicesSpec
  /\ WF_servicesVars(Streams(SessionStep))
  /\ WF_servicesVars(Streams(Publish("timer")))
  /\ WF_servicesVars(Streams(StatusTimer))
-----------------------------------------------------------------------------
(* A premise of SessionsSurface.                                           *)

\* When the actions the fairness is about are enabled.  It follows from their
\* guards and claims nothing of the code.
StreamsNeverWait ==
  /\ ENABLED <<Streams(SessionStep)>>_servicesVars <=>
       service = "streams" /\ at["session"] # "idle"
  /\ ENABLED <<Streams(Publish("timer"))>>_servicesVars <=>
       service = "streams" /\ at["timer"] # "idle"
  /\ ENABLED <<Streams(StatusTimer)>>_servicesVars <=>
       service = "streams" /\ at["timer"] = "idle"
=============================================================================
