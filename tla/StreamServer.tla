---------------------------- MODULE StreamServer ----------------------------
(***************************************************************************)
(* StreamServer: /open_stream, /close_stream and the latched               *)
(* /stream_status, in front of the core's streaming session.               *)
(*                                                                         *)
(* Two executor threads run it at once: the services have a mutually       *)
(* exclusive group of their own ("session"), the status timer is in the    *)
(* node's default group ("timer").  Core tells only whether a session is   *)
(* open; which controller it belongs to is a label this server keeps.      *)
(* Every call into core, every region under m_ and the publish after it is *)
(* a step of its own.                                                      *)
(*                                                                         *)
(* The session is external: core admits one at a time, and ends it on its  *)
(* deadline, on a halt, or on a close whose token it honours.              *)
(*                                                                         *)
(* Left out: requests this server refuses without a call into core, which  *)
(* change nothing; gains and channels, which follow from the controller;   *)
(* timeout_s and rejected_count; the setpoints, which it only forwards.    *)
(***************************************************************************)
EXTENDS Naturals

CONSTANTS
  Controllers,     \* the registry's available controllers
  NoController,    \* the empty label, no session
  CloseRefusals,   \* core may refuse a close: another client's token
  MaxOpens         \* bound: sessions opened in a run

ASSUME StreamAssumption ==
  /\ NoController \notin Controllers
  /\ CloseRefusals \in BOOLEAN
  /\ MaxOpens \in Nat

VARIABLES
  session,         \* core: the controller of the open session, or NoController
  opens,           \* core: how many sessions it has opened
  openController,  \* open_controller_
  memo,            \* last_published_
  topic,           \* the sample a late /stream_status subscriber receives
  at,              \* where each thread is
  wanted,          \* the controller of the accepted open in progress
  seen,            \* StreamStatus::open as each thread has queried it, and
                   \* the message it may have to publish
  latest,          \* history: the thread that stored the memo
  overtaken        \* history: the last message published was not the last
                   \* one stored

coreVars == <<session, opens>>
orderVars == <<latest, overtaken>>
statusVars == <<memo, topic, seen, orderVars>>
vars == <<coreVars, openController, statusVars, at, wanted>>

Threads == {"session", "timer"}

Labels == Controllers \cup {NoController}

Status == [open : BOOLEAN, controller : Labels]

Closed == [open |-> FALSE, controller |-> NoController]

Points == {"idle", "labelling", "unlabelling", "querying", "comparing",
           "publishing"}

TypeOK ==
  /\ session \in Labels
  /\ opens \in 0..MaxOpens
  /\ openController \in Labels
  /\ memo \in Status /\ topic \in Status
  /\ at \in [Threads -> Points]
  /\ wanted \in Labels
  /\ seen \in [Threads -> Status]
  /\ latest \in Threads /\ overtaken \in BOOLEAN

\* The constructor seeds the latched topic before any thread runs.
Init ==
  /\ session = NoController
  /\ opens = 0
  /\ openController = NoController
  /\ memo = Closed /\ topic = Closed
  /\ at = [th \in Threads |-> "idle"]
  /\ wanted = NoController
  /\ seen = [th \in Threads |-> Closed]
  /\ latest = "session" /\ overtaken = FALSE

Goto(th, point) == at' = [at EXCEPT ![th] = point]

-----------------------------------------------------------------------------
(* publish_status_if_changed(), on either thread.                          *)

QueryStream(th) ==
  /\ at[th] = "querying"
  /\ seen' = [seen EXCEPT ![th].open = session # NoController]
  /\ Goto(th, "comparing")
  /\ UNCHANGED <<coreVars, openController, memo, topic, orderVars, wanted>>

\* Slip: a closed session keeps its label.
KeepsLabel(th) ==
  /\ at[th] = "comparing"
  /\ seen' = [seen EXCEPT ![th].controller = openController]
  /\ memo' = seen'[th]
  /\ latest' = IF seen'[th] = memo THEN latest ELSE th
  /\ Goto(th, IF seen'[th] = memo THEN "idle" ELSE "publishing")
  /\ UNCHANGED <<coreVars, openController, topic, overtaken, wanted>>

\* Slip: the session thread only stores, and leaves the publishing to the timer.
LeavesPublishing(th) ==
  /\ at[th] = "comparing"
  /\ openController' = IF seen[th].open THEN openController ELSE NoController
  /\ seen' = [seen EXCEPT ![th].controller = openController']
  /\ memo' = seen'[th]
  /\ latest' = IF seen'[th] = memo THEN latest ELSE th
  /\ Goto(th, IF seen'[th] = memo \/ th = "session" THEN "idle" ELSE "publishing")
  /\ UNCHANGED <<coreVars, topic, overtaken, wanted>>

\* Under m_: the label is dropped if core said closed, and a message that
\* says nothing new is not published.
StoreStatus(th) ==
  /\ at[th] = "comparing"
  /\ openController' = IF seen[th].open THEN openController ELSE NoController
  /\ seen' = [seen EXCEPT ![th].controller = openController']
  /\ memo' = seen'[th]
  /\ latest' = IF seen'[th] = memo THEN latest ELSE th
  /\ Goto(th, IF seen'[th] = memo THEN "idle" ELSE "publishing")
  /\ UNCHANGED <<coreVars, topic, overtaken, wanted>>

\* After m_ is released: the other thread may have stored and published a later
\* message by now.
PublishStatus(th) ==
  /\ at[th] = "publishing"
  /\ topic' = seen[th]
  /\ overtaken' = (th # latest)
  /\ Goto(th, "idle")
  /\ UNCHANGED <<coreVars, openController, memo, seen, latest, wanted>>

Publish(th) == QueryStream(th) \/ StoreStatus(th) \/ PublishStatus(th)

-----------------------------------------------------------------------------
(* The session thread.                                                     *)

\* on_open up to core's answer: it refuses a second session, and may refuse
\* any for reasons of its own (token, e-stop, contact stop, timeout).
OpenAccepted(c) ==
  /\ at["session"] = "idle"
  /\ session = NoController
  /\ opens < MaxOpens
  /\ session' = c
  /\ opens' = opens + 1
  /\ wanted' = c
  /\ Goto("session", "labelling")
  /\ UNCHANGED <<openController, statusVars>>

OpenRefused ==
  /\ at["session"] = "idle"
  /\ Goto("session", "querying")
  /\ UNCHANGED <<coreVars, openController, statusVars, wanted>>

\* Slip: the label is set only when there is none.
LabelsOnce ==
  /\ at["session"] = "labelling"
  /\ openController' = IF openController = NoController THEN wanted
                       ELSE openController
  /\ wanted' = NoController
  /\ Goto("session", "querying")
  /\ UNCHANGED <<coreVars, statusVars>>

SetLabel ==
  /\ at["session"] = "labelling"
  /\ openController' = wanted
  /\ wanted' = NoController
  /\ Goto("session", "querying")
  /\ UNCHANGED <<coreVars, statusVars>>

\* on_close up to core's return; it says nothing of whether it closed.
Close ==
  /\ at["session"] = "idle"
  /\ \/ session' = NoController
     \/ CloseRefusals /\ UNCHANGED session
  /\ Goto("session", "unlabelling")
  /\ UNCHANGED <<opens, openController, statusVars, wanted>>

\* ... and the label goes whatever core did.
ClearLabel ==
  /\ at["session"] = "unlabelling"
  /\ openController' = NoController
  /\ Goto("session", "querying")
  /\ UNCHANGED <<coreVars, statusVars, wanted>>

-----------------------------------------------------------------------------
StatusTimer ==
  /\ at["timer"] = "idle"
  /\ Goto("timer", "querying")
  /\ UNCHANGED <<coreVars, openController, statusVars, wanted>>

\* Core ends the session by itself: deadline, halt, e-stop, contact.
TearDown ==
  /\ session # NoController
  /\ session' = NoController
  /\ UNCHANGED <<opens, openController, statusVars, at, wanted>>

-----------------------------------------------------------------------------
SessionStep == SetLabel \/ ClearLabel \/ Publish("session")

Next ==
  \/ \E c \in Controllers : OpenAccepted(c)
  \/ OpenRefused \/ Close
  \/ SessionStep
  \/ StatusTimer \/ Publish("timer")
  \/ TearDown

Spec == Init /\ [][Next]_vars

\* The executor finishes what it started and keeps firing the 10 Hz timer.
FairSpec ==
  /\ Spec
  /\ WF_vars(SessionStep)
  /\ WF_vars(Publish("timer")) /\ WF_vars(StatusTimer)
-----------------------------------------------------------------------------
(* Properties.                                                             *)

\* The message stored last has been published, and none before it after it.
InOrder == at[latest] # "publishing" /\ ~overtaken

\* Between two service calls an open session is not shown under another
\* controller's name: not by the label, not by the message composed from it and,
\* once that one is out, not by the latched topic.  The topic is published
\* after m_, so it names the former controller while the timer still holds the
\* message, and for as long as nothing changes if the timer's older message
\* came out last.
NeverMisnamed ==
  at["session"] = "idle" /\ session # NoController =>
    /\ openController \in {NoController, session}
    /\ memo.open => memo.controller \in {NoController, session}
    /\ InOrder /\ topic.open => topic.controller \in {NoController, session}

\* "A teardown core did on its own (deadline expiry, halt) still surfaces":
\* once core's session stays as it is, the latched topic comes to say so, and a
\* status that says closed names no controller.  It is not so if an older message
\* came out last: memo is right then, so nothing is published again.
SessionSurfaces ==
  /\ <>[](session = NoController) =>
       <>[](memo = Closed /\ (topic = Closed \/ overtaken))
  /\ <>[](session # NoController) =>
       <>[](memo.open /\ (topic.open \/ overtaken))

-----------------------------------------------------------------------------
(* The inductive invariant behind NeverMisnamed.                           *)

\* At rest the label, the memo and the session agree; an open in progress
\* still has the label and the first status ahead of it.
NamesInv ==
  LET point == at["session"] IN
    /\ point = "labelling" => wanted # NoController
    /\ point = "labelling" /\ session # NoController => wanted = session
    /\ point # "labelling" /\ session # NoController =>
         openController \in {NoController, session}
    /\ point \in {"publishing", "idle"} /\ session # NoController /\ memo.open =>
         memo.controller \in {NoController, session}

\* The thread that stored the memo carries it to the topic, where it stays
\* unless the other thread comes after it with an older one.
OrderInv ==
  /\ at[latest] = "publishing" => seen[latest] = memo
  /\ InOrder => topic = memo

IInv ==
  /\ TypeOK /\ at["timer"] \notin {"labelling", "unlabelling"}
  /\ NamesInv /\ OrderInv
=============================================================================
