---------------------------- MODULE ContactServer ----------------------------
(***************************************************************************)
(* ContactServer: /set_contact_thresholds.                                 *)
(*                                                                         *)
(* The service has a mutually exclusive group of its own, so one request   *)
(* is served at a time; the monitor's latch moves meanwhile, on the RT     *)
(* thread and through /clear_faults.  A refused request is followed by a   *)
(* query, as the Arbiter's refusal carries no thresholds: the call into    *)
(* core and the query are two steps.                                       *)
(*                                                                         *)
(* Left out: the texts, and the "Contact detection" entry and the residual *)
(* topic, each of which forwards one query.                                *)
(***************************************************************************)
EXTENDS ContactMonitor

CONSTANT Requests  \* what clients send: [profile, custom]

VARIABLES
  setting,  \* where on_set is
  asked,    \* the request it serves, or the last it served
  answer    \* the last response; at first, what a query would have told

setVars == <<setting, asked, answer>>
contactVars == <<monitorVars, setVars>>

\* to_contact_request
Mappable(req) ==
  /\ req.profile \in Profiles
  /\ req.profile # "custom" => req.custom = <<>>
  /\ req.profile = "custom" =>
       /\ Len(req.custom) = Joints
       /\ \A j \in 1..Joints : req.custom[j] # NotFinite

ContactInit ==
  /\ MonitorInit
  /\ setting = "idle"
  /\ asked = [profile |-> "default", custom |-> <<>>]
  /\ answer = [accepted |-> "no", profile |-> Active.profile,
               theta |-> Active.theta]

-----------------------------------------------------------------------------
AskUnmappable(req) ==
  /\ setting = "idle" /\ ~Mappable(req)
  /\ asked' = req
  /\ setting' = "refused"
  /\ UNCHANGED <<monitorVars, answer>>

AskMapped(req) ==
  /\ setting = "idle" /\ Mappable(req)
  /\ asked' = req
  /\ setting' = "mapped"
  /\ UNCHANGED <<monitorVars, answer>>

AnswerAccepted ==
  /\ setting = "mapped"
  /\ Adopt(asked)
  /\ answer' = [accepted |-> "yes", profile |-> inForce'.profile,
                theta |-> inForce'.theta]
  /\ setting' = "idle"
  /\ UNCHANGED asked

SinkRefuses ==
  /\ setting = "mapped"
  /\ Turndown(asked)
  /\ setting' = "refused"
  /\ UNCHANGED <<asked, answer>>

\* Slip: the refusal is answered with the result of the call into core,
\* which carries no thresholds.
AnswersBlank ==
  /\ setting = "refused"
  /\ answer' = [accepted |-> "no", profile |-> "default",
                theta |-> [j \in 1..Joints |-> 0]]
  /\ setting' = "idle"
  /\ UNCHANGED <<monitorVars, asked>>

AnswerRefused ==
  /\ setting = "refused"
  /\ answer' = [accepted |-> "no", profile |-> Active.profile,
                theta |-> Active.theta]
  /\ setting' = "idle"
  /\ UNCHANGED <<monitorVars, asked>>

SetStep ==
  \/ \E req \in Requests : AskUnmappable(req) \/ AskMapped(req)
  \/ AnswerAccepted \/ SinkRefuses \/ AnswerRefused

-----------------------------------------------------------------------------
(* Properties.                                                             *)

ContactTypeOK ==
  /\ params \in Configs /\ Accepted(params)
  /\ phase \in Phases
  /\ inForce.profile \in Profiles
  /\ asked \in Requests \cup {[profile |-> "default", custom |-> <<>>]}
  /\ setting \in {"idle", "mapped", "refused"}
  /\ answer.accepted \in {"yes", "no"}

\* "profile and thresholds in the response are what is active after the call,
\* accepted or not": a refused caller is told what the monitor works with, an
\* accepted one has exactly what it asked for, and neither is ever a threshold
\* above the ceiling the node was started with.
AnswersAreInForce ==
  setting = "idle" =>
    /\ answer.profile = Active.profile /\ answer.theta = Active.theta
    /\ answer.accepted = "yes" =>
         answer.profile = asked.profile /\ answer.theta = Resolved(asked)
    /\ Enabled => Bounded(answer.theta, params.ceiling)

\* What makes it inductive.
ContactInv ==
  /\ Bounded(inForce.theta, params.ceiling)
  /\ setting \in {"idle", "mapped", "refused"}
  /\ AnswersAreInForce
=============================================================================
