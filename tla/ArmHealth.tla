------------------------------ MODULE ArmHealth ------------------------------
(***************************************************************************)
(* Ros2Backend's "Arm" entry on /diagnostics.                              *)
(*                                                                         *)
(* The pump thread stores the arm's fault, that it has published, and when *)
(* into atomics, one by one; diagnostics() reads them one by one on an     *)
(* executor thread.  The pump falls silent while the arm link is down.     *)
(*                                                                         *)
(* Time is the age of the last publication, counted in a unit in which     *)
(* kArmStaleAfterS is StaleAfter.  Left out: the driver's uptime, shown    *)
(* but not judged, and the topics publish_state goes on to fill.           *)
(***************************************************************************)
EXTENDS Integers

CONSTANT StaleAfter  \* kArmStaleAfterS

ASSUME HealthAssumption == StaleAfter \in Nat

VARIABLES
  fault,      \* fault_
  ever,       \* ever_published_
  age,        \* now - last_publish_ns_, counted to StaleAfter + 1
  pumpAt,     \* the store publish_state does next
  coming,     \* the fault of the state it was given
  readAt,     \* the load diagnostics() does next
  read,       \* what it has read of ever_published_ and fault_
  told,       \* the level of its last report
  published,  \* history: the fault of the state whose time was stored last
  held,       \* history: the levels that held during the reading
  resumed     \* history: whether a publication ended an outage during it

pumpVars == <<fault, ever, age, pumpAt, coming, published>>
healthVars == <<pumpVars, readAt, read, told, held, resumed>>

Faults == {"none", "fault"}

Levels == {"OK", "ERROR", "STALE"}

\* What diagnostics() makes of what it has read.
Level(e, f, a) ==
  IF e = "no" \/ a > StaleAfter THEN "STALE"
  ELSE IF f = "fault" THEN "ERROR" ELSE "OK"

\* The levels a reading at this moment may give: that of the state published
\* last, and that of the one whose publication is under way.
Fresh(f) == IF f = "fault" THEN "ERROR" ELSE "OK"

Holding ==
  (IF age > StaleAfter THEN {"STALE"} ELSE {Fresh(published)})
    \cup (IF pumpAt = "idle" THEN {} ELSE {Fresh(coming)})

HealthInit ==
  /\ fault = "none" /\ ever = "no" /\ age = StaleAfter + 1
  /\ pumpAt = "idle" /\ coming = "none" /\ published = "none"
  /\ readAt = "ever" /\ read = [ever |-> "no", fault |-> "none"]
  /\ told = "STALE" /\ held = {"STALE"} /\ resumed = "no"

-----------------------------------------------------------------------------
Watch == held' = IF readAt = "ever" THEN held ELSE held \cup Holding'

\* Slip: the time is stored before what it is the time of.
TimeFirst(point) ==
  CASE point = "idle" -> "time" [] point = "time" -> "fault"
    [] point = "fault" -> "ever" [] OTHER -> "idle"

\* publish_state's order of stores.
Following(point) ==
  CASE point = "idle" -> "fault" [] point = "fault" -> "ever"
    [] point = "ever" -> "time" [] OTHER -> "idle"

PumpTo(point) == pumpAt = point /\ pumpAt' = Following(point)

PublishState(f) ==
  /\ PumpTo("idle")
  /\ coming' = f
  /\ UNCHANGED <<fault, ever, age, published, readAt, read, told, resumed>>
  /\ Watch

StoreFault ==
  /\ PumpTo("fault")
  /\ fault' = coming
  /\ UNCHANGED <<ever, age, coming, published, readAt, read, told, resumed>>
  /\ Watch

StoreEver ==
  /\ PumpTo("ever")
  /\ ever' = "yes"
  /\ UNCHANGED <<fault, age, coming, published, readAt, read, told, resumed>>
  /\ Watch

StoreTime ==
  /\ PumpTo("time")
  /\ age' = 0 /\ published' = coming
  /\ resumed' = IF readAt # "ever" /\ age > StaleAfter THEN "yes" ELSE resumed
  /\ UNCHANGED <<fault, ever, coming, readAt, read, told>>
  /\ Watch

Tick ==
  /\ age <= StaleAfter
  /\ age' = age + 1
  /\ UNCHANGED <<fault, ever, pumpAt, coming, published, readAt, read, told, resumed>>
  /\ Watch

-----------------------------------------------------------------------------
ReadEver ==
  /\ readAt = "ever"
  /\ read' = [read EXCEPT !.ever = ever]
  /\ held' = Holding /\ resumed' = "no"
  /\ readAt' = "fault"
  /\ UNCHANGED <<pumpVars, told>>

ReadFault ==
  /\ readAt = "fault"
  /\ read' = [read EXCEPT !.fault = fault]
  /\ readAt' = "age"
  /\ UNCHANGED <<pumpVars, told, held, resumed>>

\* The last load and the clock, and the report.
Report ==
  /\ readAt = "age"
  /\ told' = Level(read.ever, read.fault, age)
  /\ readAt' = "ever"
  /\ UNCHANGED <<pumpVars, read, held, resumed>>

HealthStep ==
  \/ \E f \in Faults : PublishState(f)
  \/ StoreFault \/ StoreEver \/ StoreTime
  \/ Tick
  \/ ReadEver \/ ReadFault \/ Report

-----------------------------------------------------------------------------
(* Properties.                                                             *)

HealthTypeOK ==
  /\ fault \in Faults /\ coming \in Faults /\ published \in Faults
  /\ ever \in {"no", "yes"} /\ age \in 0..StaleAfter + 1
  /\ pumpAt \in {"idle", "fault", "ever", "time"}
  /\ readAt \in {"ever", "fault", "age"}
  /\ read \in [ever : {"no", "yes"}, fault : Faults]
  /\ told \in Levels /\ held \subseteq Levels /\ resumed \in {"no", "yes"}

\* "An arm we have never heard from is not a healthy arm", nor is "the last
\* state before the outage": however the pump's stores fall between the loads,
\* a report tells a level the arm had during the reading.  The one exception
\* is a publication that ends an outage while it is being read.
ReportHeld ==
  readAt = "ever" => told \in held \/ resumed = "yes"

\* What makes it inductive: what has been read so far leads to such a level.
HealthInv ==
  /\ pumpAt \in {"idle", "fault"} => fault = published
  /\ pumpAt \in {"ever", "time"} => fault = coming
  /\ age <= StaleAfter \/ pumpAt = "time" => ever = "yes"
  /\ readAt # "ever" => Holding \subseteq held
  /\ readAt = "fault" /\ read.ever = "no" => "STALE" \in held
  /\ readAt = "age" =>
       \/ resumed = "yes"
       \/ age > StaleAfter
       \/ read.ever = "no" /\ "STALE" \in held
       \/ read.ever = "yes" /\ Fresh(read.fault) \in held
=============================================================================
