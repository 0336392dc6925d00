------------------------------- MODULE Driver -------------------------------
(***************************************************************************)
(* What the action servers see of the core driver: the Arbiter's gate in   *)
(* front of the Supervisor, the Supervisor's FIFO inbox and the goal it is *)
(* running.  The core is another repository; this module models it from    *)
(* how the servers of this one use it (comments, design documents, tests), *)
(* and leaves every choice it does not document nondeterministic.          *)
(*                                                                         *)
(* A goal's token is "admitted" or not: with arbitration disabled every    *)
(* token is admitted unless the arm is e-stopped, with arbitration         *)
(* enforced only the current owner's is.  Whatever ends an authority       *)
(* (seizure, release, revoke, e-stop) also halts, and so does a contact    *)
(* stop.                                                                   *)
(***************************************************************************)
EXTENDS Naturals, Sequences

CONSTANTS
  Goals,            \* goal ids a client may send
  NoGoal,           \* "no goal": not a goal id
  Tokens,           \* capability tokens goals may carry
  Enforced,         \* arbitration_mode = enforced
  MaxDisturbances   \* bound: authority changes and contact stops in a run

ASSUME DriverAssumption ==
  /\ NoGoal \notin Goals
  /\ Enforced \in BOOLEAN
  /\ MaxDisturbances \in Nat

VARIABLES
  admits,           \* the tokens Arbiter::admit() accepts now
  contact,          \* a contact stop is latched
  inbox,            \* the Supervisor's inbox, drained by its sampler thread
  active,           \* the goal whose trajectory is running, or NoGoal
  disturbances      \* how many times the environment has interfered

driverVars == <<admits, contact, inbox, active, disturbances>>

\* kinova::interface::result_code, by name.
Codes == {"Successful", "InvalidGoal", "PathTolerance", "Preempted",
          "PlanningFailed", "Halted", "ContactStop"}

Message == [kind : {"goal", "cancel"}, goal : Goals]
           \cup [kind : {"halt"}, code : {"Halted", "ContactStop"}]

GoalMsg(g) == [kind |-> "goal", goal |-> g]
CancelMsg(g) == [kind |-> "cancel", goal |-> g]
HaltMsg(c) == [kind |-> "halt", code |-> c]

\* Whether message m is in queue s, and whether it is there at most once.
Occurs(m, s) == \E i \in DOMAIN s : s[i] = m
AtMostOnce(m, s) == \A i, j \in DOMAIN s : s[i] = m /\ s[j] = m => i = j

\* Something in queue s ends goal g: a cancel of g or a halt, behind g's own
\* message if that is still in s.
StopAhead(g, s) ==
  \E i \in DOMAIN s :
    /\ s[i] = CancelMsg(g) \/ s[i].kind = "halt"
    /\ \A j \in DOMAIN s : s[j] = GoalMsg(g) => j < i

AuthoritySets ==
  IF Enforced THEN {{}} \cup {{t} : t \in Tokens} ELSE {{}, Tokens}

DriverTypeOK ==
  /\ admits \in AuthoritySets
  /\ contact \in BOOLEAN
  /\ inbox \in Seq(Message)
  /\ active \in Goals \cup {NoGoal}
  /\ disturbances \in 0..MaxDisturbances

DriverInit ==
  /\ admits \in AuthoritySets
  /\ contact = FALSE
  /\ inbox = <<>>
  /\ active = NoGoal
  /\ disturbances = 0

-----------------------------------------------------------------------------
(* The calls the servers make.                                             *)

\* Arbiter::on_trajectory_goal refuses a token it does not admit and the
\* Supervisor refuses everything while a contact stop is latched; beyond
\* that the Supervisor may accept or refuse on its own checks.
GoalResponses(t) ==
  IF t \in admits /\ ~contact THEN {"accept", "reject"} ELSE {"reject"}

\* A gated call that posts m: dropped (and only counted) unless t is admitted.
PostGated(m, t) ==
  inbox' = IF t \in admits THEN Append(inbox, m) ELSE inbox

-----------------------------------------------------------------------------
(* The environment: another client, an operator, the e-stop, a contact.    *)

\* A grant, seizure, release, revoke, e-stop engage or clear.  Losing what
\* was admitted halts the arm.
ChangeAuthority ==
  /\ disturbances < MaxDisturbances
  /\ disturbances' = disturbances + 1
  /\ admits' \in AuthoritySets \ {admits}
  /\ inbox' = IF admits = {} THEN inbox ELSE Append(inbox, HaltMsg("Halted"))
  /\ UNCHANGED <<contact, active>>

LatchContact ==
  /\ disturbances < MaxDisturbances
  /\ disturbances' = disturbances + 1
  /\ ~contact
  /\ contact' = TRUE
  /\ inbox' = Append(inbox, HaltMsg("ContactStop"))
  /\ UNCHANGED <<admits, active>>

\* /clear_faults.
ClearContact ==
  /\ contact
  /\ contact' = FALSE
  /\ UNCHANGED <<admits, inbox, active, disturbances>>
=============================================================================
