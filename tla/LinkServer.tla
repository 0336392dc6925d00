----------------------------- MODULE LinkServer -----------------------------
(***************************************************************************)
(* LinkServer: /clear_faults, and what it sees of core's ArmLink and of    *)
(* the contact latch.                                                      *)
(*                                                                         *)
(* on_clear has a mutually exclusive group of its own, so one call at a    *)
(* time is in progress (at); it polls the link, which runs on the main     *)
(* thread and moves on its own between any two of its reads.               *)
(*                                                                         *)
(* The link is external: it connects, loses and faults the arm as it       *)
(* likes, a faulted one takes a requested clear, and a clear moves         *)
(* clears_done together with the state it resolved to.                     *)
(*                                                                         *)
(* Left out: the texts of the answer beyond what they are about, the       *)
(* diagnostics.                                                            *)
(***************************************************************************)
EXTENDS Naturals

CONSTANTS
  Detection,       \* contact detection is on: clear_contact_ is wired
  MaxClears,       \* bound: clears the link resolves
  MaxEvents        \* bound: what happens to the arm and the link

ASSUME LinkAssumption ==
  /\ Detection \in BOOLEAN
  /\ MaxClears \in Nat
  /\ MaxEvents \in Nat

VARIABLES
  link,            \* LinkStatus::state
  clearsDone,      \* LinkStatus::clears_done
  pending,         \* a clear was requested and not yet taken up
  contact,         \* the contact latch: a clear drops it when the RT loop runs
  events,          \* how many arm events there have been
  stop,            \* g_stop, which LinkServer holds as stop_
  at,              \* where the call is
  contactCleared,  \* its contact_cleared
  before,          \* its `before`
  seen,            \* its last read of the link's status
  answer,          \* the last answer
  commanded        \* history: the link has been running since the call began

linkVars == <<link, clearsDone, pending, contact, events>>
callVars == <<at, contactCleared, before, seen, answer, commanded>>

LinkStates == {"connecting", "running", "faulted"}

Messages == {"none", "contact", "not faulted", "stopping", "no outcome",
             "outcome"}

Answers == [success : BOOLEAN, message : Messages]

LinkTypeOK ==
  /\ link \in LinkStates
  /\ clearsDone \in 0..MaxClears
  /\ pending \in BOOLEAN
  /\ contact \in {"clear", "latched", "dropping"}
  /\ events \in 0..MaxEvents
  /\ stop \in BOOLEAN
  /\ at \in {"idle", "reading", "requesting", "refused", "polling", "judging"}
  /\ contactCleared \in BOOLEAN
  /\ before \in 0..MaxClears
  /\ seen \in [state : LinkStates, clears : 0..MaxClears]
  /\ answer \in Answers
  /\ commanded \in BOOLEAN

LinkInit ==
  /\ link = "connecting"
  /\ clearsDone = 0
  /\ pending = FALSE
  /\ contact = "clear"
  /\ events = 0
  /\ stop = FALSE
  /\ at = "idle"
  /\ contactCleared = FALSE
  /\ before = 0
  /\ seen = [state |-> "connecting", clears |-> 0]
  /\ answer = [success |-> FALSE, message |-> "none"]
  /\ commanded = FALSE

-----------------------------------------------------------------------------
(* The link, on the main thread.                                           *)

MoveLink(state) ==
  /\ link' = state
  /\ commanded' = (commanded \/ state = "running")

Event ==
  /\ events < MaxEvents
  /\ events' = events + 1

\* An arm that is reached runs, or is faulted; a running one faults or is
\* lost; a faulted one may be switched off.  A contact clear takes effect
\* when the RT loop runs.
ArmEvent ==
  /\ Event
  /\ \/ link = "connecting" /\ MoveLink("running")
     \/ link \in {"connecting", "running"} /\ MoveLink("faulted")
     \/ link \in {"running", "faulted"} /\ MoveLink("connecting")
  /\ contact' = IF link' = "running" /\ contact = "dropping" THEN "clear"
                ELSE contact
  /\ UNCHANGED <<clearsDone, pending, at, contactCleared, before, seen, answer>>

\* The RT loop latches a contact stop, or drops a cleared one.
ContactEvent ==
  /\ Detection /\ link = "running"
  /\ \/ contact = "clear" /\ contact' = "latched" /\ Event
     \/ contact = "dropping" /\ contact' = "clear" /\ UNCHANGED events
  /\ UNCHANGED <<link, clearsDone, pending, callVars>>

\* A requested clear resolves, one way or the other.
ResolveClear ==
  /\ link = "faulted" /\ pending
  /\ clearsDone < MaxClears
  /\ pending' = FALSE
  /\ clearsDone' = clearsDone + 1
  /\ MoveLink("running") \/ MoveLink("faulted")
  /\ UNCHANGED <<contact, events, at, contactCleared, before, seen, answer>>

-----------------------------------------------------------------------------
(* on_clear.                                                               *)

\* clear_contact_(), if wired: whether there was a latch to clear.
CallClear ==
  /\ at = "idle"
  /\ contactCleared' = (Detection /\ contact # "clear")
  /\ contact' = IF contactCleared' THEN "dropping" ELSE contact
  /\ at' = "reading"
  /\ commanded' = (link = "running")
  /\ UNCHANGED <<link, clearsDone, pending, events, stop, before, seen, answer>>

ReadBefore ==
  /\ at = "reading"
  /\ before' = clearsDone
  /\ at' = "requesting"
  /\ UNCHANGED <<linkVars, stop, contactCleared, seen, answer, commanded>>

\* link_.request_clear(): true exactly for a faulted link.
RequestClear ==
  /\ at = "requesting"
  /\ pending' = (pending \/ link = "faulted")
  /\ at' = IF link = "faulted" THEN "polling" ELSE "refused"
  /\ UNCHANGED <<link, clearsDone, contact, events, stop, contactCleared, before,
                 seen, answer, commanded>>

Answer(success, message) ==
  /\ answer' = [success |-> success, message |-> message]
  /\ at' = "idle"

AnswerRefused ==
  /\ at = "refused"
  /\ IF contactCleared THEN Answer(TRUE, "contact") ELSE Answer(FALSE, "not faulted")
  /\ UNCHANGED <<linkVars, stop, contactCleared, before, seen, commanded>>

Poll ==
  /\ at = "polling"
  /\ seen' = [state |-> link, clears |-> clearsDone]
  /\ at' = "judging"
  /\ UNCHANGED <<linkVars, stop, contactCleared, before, answer, commanded>>

\* Slip: any outcome is a success.
CountsOutcome ==
  /\ at = "judging" /\ seen.clears # before
  /\ Answer(TRUE, "outcome")
  /\ UNCHANGED <<linkVars, stop, contactCleared, before, seen, commanded>>

AnswerOutcome ==
  /\ at = "judging" /\ seen.clears # before
  /\ Answer(seen.state = "running", "outcome")
  /\ UNCHANGED <<linkVars, stop, contactCleared, before, seen, commanded>>

\* Slip: the poll does not look at g_stop.
IgnoresStop == FALSE

AnswerStopping ==
  /\ at = "judging" /\ seen.clears = before /\ stop
  /\ Answer(seen.state = "running", "stopping")
  /\ UNCHANGED <<linkVars, stop, contactCleared, before, seen, commanded>>

\* Slip: a wait without a deadline.
NeverLate == FALSE

\* kClearWait has passed.
AnswerLate ==
  /\ at = "judging" /\ seen.clears = before /\ ~stop
  /\ Answer(seen.state = "running", "no outcome")
  /\ UNCHANGED <<linkVars, stop, contactCleared, before, seen, commanded>>

KeepPolling ==
  /\ at = "judging" /\ seen.clears = before /\ ~stop
  /\ at' = "polling"
  /\ UNCHANGED <<linkVars, stop, contactCleared, before, seen, answer, commanded>>

ClearStep ==
  \/ ReadBefore \/ RequestClear \/ AnswerRefused
  \/ Poll \/ AnswerOutcome \/ AnswerStopping \/ KeepPolling
-----------------------------------------------------------------------------
(* Properties.                                                             *)

\* /clear_faults on a fault: `success` only if the driver is commanding
\* again.  Whatever clear moved clears_done and whatever became of the link
\* between two polls, a success was answered for an arm that had been running
\* since the call was made.
FaultSuccessMeansRunning ==
  at = "idle" /\ answer.success /\ answer.message # "contact" => commanded
=============================================================================
