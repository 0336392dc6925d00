---------------------------- MODULE GripperServer ----------------------------
(***************************************************************************)
(* GripperServer: /setpoint/gripper in front of the core.                  *)
(*                                                                         *)
(* A setpoint is checked against the contact latch and forwarded in a      *)
(* second step, one at a time (a mutually exclusive group of its own).     *)
(* The core drops what reaches it behind a latch, and says nothing.        *)
(*                                                                         *)
(* Left out: the setpoint's fields, which are copied, and the state topic  *)
(* and diagnostics, each of which forwards one query.                      *)
(***************************************************************************)
EXTENDS ContactMonitor

VARIABLES
  setpoint,  \* where on_setpoint is
  fate,      \* what became of the last setpoint
  contacts,  \* history: whether a contact stopped the arm between the check
             \* and the forward of the last setpoint
  cleared    \* history: whether a contact stop was cleared between them

gripperVars == <<setpoint, fate, contacts, cleared>>

GripperInit ==
  /\ setpoint = "none" /\ fate = "none"
  /\ contacts = "none" /\ cleared = "none"

-----------------------------------------------------------------------------
\* Slip: a server wired without its contact source forwards everything.
NeverChecks ==
  /\ setpoint = "none"
  /\ setpoint' = "checked" /\ fate' = "none"
  /\ contacts' = "none" /\ cleared' = "none"
  /\ UNCHANGED monitorVars

\* on_setpoint up to contact_rejection: refused with a warning, or let pass.
CheckSetpoint ==
  /\ setpoint = "none"
  /\ \/ Latched /\ fate' = "refused" /\ UNCHANGED setpoint
     \/ ~Latched /\ setpoint' = "checked" /\ fate' = "none"
  /\ contacts' = "none" /\ cleared' = "none"
  /\ UNCHANGED monitorVars

\* The forward: the Arbiter counts a bad token, the core drops behind a latch.
ForwardSetpoint ==
  /\ setpoint = "checked"
  /\ \/ fate' = "counted"
     \/ Latched /\ fate' = "dropped"
     \/ ~Latched /\ fate' = "taken"
  /\ setpoint' = "none"
  /\ UNCHANGED <<monitorVars, contacts, cleared>>

\* The monitor moves on its own, between any two steps of the server.
During(history) == IF setpoint = "checked" THEN "some" ELSE history

MonitorStep ==
  \/ Arm /\ UNCHANGED gripperVars
  \/ Trip /\ contacts' = During(contacts) /\ UNCHANGED <<setpoint, fate, cleared>>
  \/ Clear /\ cleared' = During(cleared) /\ UNCHANGED <<setpoint, fate, contacts>>

GripperStep == CheckSetpoint \/ ForwardSetpoint

-----------------------------------------------------------------------------
(* Properties.                                                             *)

GripperTypeOK ==
  /\ setpoint \in {"none", "checked"}
  /\ fate \in {"none", "refused", "counted", "dropped", "taken"}
  /\ contacts \in {"none", "some"} /\ cleared \in {"none", "some"}

\* "The driver drops the setpoint too, silently; this says why": a setpoint
\* that found the arm stopped when it was published is always refused with a
\* word, so a silent drop means that the stop came after the check; and one
\* checked before a stop moves the gripper past it only if that stop was cleared.
SilentDropsAreRaces ==
  /\ fate = "dropped" => contacts = "some"
  /\ fate = "taken" /\ contacts = "some" => cleared = "some"

\* What makes it inductive: a latch seen after the check came after the check.
GripperInv ==
  setpoint = "checked" =>
    /\ fate = "none"
    /\ Latched => contacts = "some"
    /\ contacts = "some" /\ cleared = "none" => Latched
=============================================================================
