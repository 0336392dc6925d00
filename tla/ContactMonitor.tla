--------------------------- MODULE ContactMonitor ---------------------------
(***************************************************************************)
(* The core's contact monitor, as the node's servers see it: what          *)
(* on_query_contact answers, and what on_set_contact_thresholds does       *)
(* behind the Arbiter's token gate.  External, but for the parameters the  *)
(* node builds it from (contact_params.cpp).                               *)
(*                                                                         *)
(* A threshold vector is a sequence of numbers, one per joint; a value     *)
(* that is not finite is NotFinite.  The residual itself is left out: the  *)
(* monitor trips whenever it is armed and enforces.                        *)
(***************************************************************************)
EXTENDS Integers, Sequences

CONSTANTS
  Joints,     \* how many joints the arm has
  NotFinite,  \* NaN or an infinity in a message or a parameter
  Configs     \* the parameter files the node may be started with

ASSUME ContactAssumption == Joints \in Nat /\ NotFinite \notin Int

VARIABLES
  params,     \* the parameters the node was started with
  phase,      \* ContactPhase
  inForce     \* the profile and the thresholds the monitor works with

monitorVars == <<params, phase, inForce>>

Named == {"default", "sensitive", "loose"}

Profiles == Named \cup {"custom"}

Values == Int \cup {NotFinite}

Detections == {"enforce", "observe", "off"}

Phases == {"settling", "armed", "latched"}

\* kinova::validate_contact_thresholds: every joint finite, above 0 and at
\* most its ceiling.
Bounded(theta, ceiling) ==
  \A j \in 1..Joints :
    /\ theta[j] # NotFinite /\ ceiling[j] # NotFinite
    /\ theta[j] > 0 /\ theta[j] <= ceiling[j]

\* What declare_contact_params lets the node start with.
Accepted(p) ==
  /\ p.detection \in Detections
  /\ Len(p.ceiling) = Joints /\ Bounded(p.ceiling, p.ceiling)
  /\ \A name \in Named :
       Len(p.named[name]) = Joints /\ Bounded(p.named[name], p.ceiling)

MonitorInit ==
  /\ params \in {p \in Configs : Accepted(p)}
  /\ phase = "settling"
  /\ inForce = [profile |-> "default", theta |-> params.named["default"]]

-----------------------------------------------------------------------------
Enabled == params.detection # "off"

Latched == Enabled /\ phase = "latched"

\* on_query_contact: with detection off there is no monitor to ask.
Active ==
  IF Enabled THEN inForce
             ELSE [profile |-> "default", theta |-> [j \in 1..Joints |-> 0]]

\* resolve_contact: the vector a request stands for.
Resolved(req) ==
  IF req.profile = "custom" THEN req.custom ELSE params.named[req.profile]

\* A set the core takes replaces profile and thresholds together.
Adopt(req) ==
  /\ Enabled
  /\ Bounded(Resolved(req), params.ceiling)
  /\ inForce' = [profile |-> req.profile, theta |-> Resolved(req)]
  /\ UNCHANGED <<params, phase>>

\* It refuses without a valid token, with detection off and out of bounds.
Turndown(req) ==
  UNCHANGED monitorVars

Arm ==
  /\ Enabled /\ phase = "settling"
  /\ phase' = "armed"
  /\ UNCHANGED <<params, inForce>>

\* Unexpected contact: only "enforce" stops the arm.
Trip ==
  /\ params.detection = "enforce" /\ phase = "armed"
  /\ phase' = "latched"
  /\ UNCHANGED <<params, inForce>>

\* /clear_faults, through Supervisor::clear_contact.
Clear ==
  /\ Latched
  /\ phase' = "settling"
  /\ UNCHANGED <<params, inForce>>
=============================================================================
