------------------------- MODULE NodeServicesProofs -------------------------
(***************************************************************************)
(* The safety properties of the node's small servers.                      *)
(*                                                                         *)
(* NeverMisnamed for every set of controllers, every number of sessions    *)
(* and both answers core may give to a close; the others for every arm,    *)
(* every set of parameter files and requests, every set of scales and      *)
(* every length of a set, and every staleness bound.                       *)
(***************************************************************************)
EXTENDS NodeServices, TLAPS

LEMMA InitIInv == Init => IInv
<1> SUFFICES ASSUME Init PROVE IInv
  OBVIOUS
<1>1. TypeOK /\ at["timer"] \notin {"labelling", "unlabelling"}
  <2>1. overtaken \in BOOLEAN /\ latest \in Threads
    BY Zenon DEF Init, Threads
  <2> QED
    BY <2>1, StreamAssumption DEF Init, TypeOK, Labels, Status, Closed, Points, Threads
<1>2. NamesInv
  BY DEF Init, NamesInv, Threads
<1>3. OrderInv
  BY DEF Init, OrderInv, InOrder, Threads
<1> QED
  BY <1>1, <1>2, <1>3 DEF IInv

\* What publish_status_if_changed() may do to the invariant, on either thread.
LEMMA PublishKeepsIInv ==
  ASSUME IInv, NEW th \in Threads, Publish(th)
  PROVE  IInv'
<1>0. /\ at \in [Threads -> Points] /\ seen \in [Threads -> Status]
      /\ latest \in Threads /\ overtaken \in BOOLEAN
  BY DEF IInv, TypeOK
<1>1. CASE QueryStream(th)
  <2>1. TypeOK'
    BY <1>1 DEF IInv, TypeOK, QueryStream, coreVars, orderVars, Goto, Status, Points,
                Threads
  <2>2. OrderInv'
    <3>1. /\ at' = [at EXCEPT ![th] = "comparing"] /\ at[th] = "querying"
          /\ UNCHANGED <<memo, topic, latest, overtaken>>
          /\ \A d \in Threads \ {th} : seen'[d] = seen[d]
      BY <1>0, <1>1 DEF QueryStream, Goto, orderVars
    <3> QED BY <1>0, <3>1 DEF IInv, OrderInv, InOrder
  <2> QED
    BY <1>1, <2>1, <2>2
    DEF IInv, TypeOK, NamesInv, QueryStream, coreVars, Goto, Points, Threads
<1>2. CASE StoreStatus(th)
  <2>1. openController' \in Labels
    BY <1>2 DEF IInv, TypeOK, StoreStatus, Labels
  <2>2. /\ seen[th] \in Status
        /\ seen'[th] = [open |-> seen[th].open, controller |-> openController']
        /\ seen'[th] \in Status
        /\ seen' \in [Threads -> Status]
    BY <1>2, <2>1 DEF IInv, TypeOK, StoreStatus, Status
  <2>3. TypeOK'
    BY <1>2, <2>1, <2>2
    DEF IInv, TypeOK, StoreStatus, coreVars, Goto, Points, Threads
  <2>4. memo'.controller = openController'
    BY <1>2, <2>2 DEF StoreStatus
  <2>5. OrderInv'
    <3>1. /\ memo' = seen'[th] /\ UNCHANGED <<topic, overtaken>>
          /\ latest' = IF memo' = memo THEN latest ELSE th
          /\ at' = [at EXCEPT ![th] = IF memo' = memo THEN "idle" ELSE "publishing"]
          /\ at[th] = "comparing"
          /\ \A d \in Threads \ {th} : seen'[d] = seen[d]
      BY <1>0, <1>2 DEF StoreStatus, Goto
    <3> QED BY <1>0, <3>1 DEF IInv, OrderInv, InOrder
  <2> QED
    BY <1>2, <2>3, <2>4, <2>5
    DEF IInv, TypeOK, NamesInv, StoreStatus, coreVars, Goto, Points, Threads
<1>3. CASE PublishStatus(th)
  <2>1. TypeOK'
    BY <1>3 DEF IInv, TypeOK, PublishStatus, coreVars, Goto, Points, Threads
  <2>2. OrderInv'
    BY <1>0, <1>3 DEF IInv, OrderInv, InOrder, PublishStatus, Goto
  <2> QED
    BY <1>3, <2>1, <2>2
    DEF IInv, TypeOK, NamesInv, PublishStatus, coreVars, Goto, Points, Threads
<1> QED
  BY <1>1, <1>2, <1>3 DEF Publish

\* A step that neither begins nor ends a publish keeps the order of what has been.
LEMMA OrderKept ==
  ASSUME IInv, UNCHANGED statusVars,
         \A th \in Threads : at'[th] = "publishing" <=> at[th] = "publishing"
  PROVE  OrderInv'
<1>1. latest \in Threads /\ UNCHANGED <<memo, topic, seen, latest, overtaken>>
  BY DEF IInv, TypeOK, statusVars, orderVars
<1> QED
  BY <1>1 DEF IInv, OrderInv, InOrder

LEMMA NextIInv == IInv /\ [Next]_vars => IInv'
<1> SUFFICES ASSUME IInv, [Next]_vars PROVE IInv'
  OBVIOUS
<1>1. ASSUME NEW c \in Controllers, OpenAccepted(c) PROVE IInv'
  <2>1. TypeOK'
    <3>1. opens' \in 0..MaxOpens
      BY <1>1, StreamAssumption DEF IInv, TypeOK, OpenAccepted
    <3> QED
      BY <1>1, <3>1
      DEF IInv, TypeOK, OpenAccepted, statusVars, orderVars, Goto, Labels, Points, Threads
  <2>2. OrderInv'
    BY <1>1, OrderKept DEF OpenAccepted, Goto, IInv, TypeOK, Threads
  <2> QED
    BY <1>1, <2>1, <2>2, StreamAssumption
    DEF IInv, TypeOK, NamesInv, OpenAccepted, statusVars, Goto, Labels, Threads
<1>2. CASE OpenRefused
  <2>1. OrderInv'
    BY <1>2, OrderKept DEF OpenRefused, Goto, IInv, TypeOK, Threads
  <2> QED
    BY <1>2, <2>1 DEF IInv, TypeOK, NamesInv, OpenRefused, coreVars, statusVars, orderVars,
                      Goto, Points, Threads
<1>3. CASE SetLabel
  <2>1. OrderInv'
    BY <1>3, OrderKept DEF SetLabel, Goto, IInv, TypeOK, Threads
  <2> QED
    BY <1>3, <2>1, StreamAssumption
    DEF IInv, TypeOK, NamesInv, SetLabel, coreVars, statusVars, orderVars, Goto, Labels,
        Points, Threads
<1>4. CASE Close
  <2>1. OrderInv'
    BY <1>4, OrderKept DEF Close, Goto, IInv, TypeOK, Threads
  <2> QED
    BY <1>4, <2>1 DEF IInv, TypeOK, NamesInv, Close, statusVars, orderVars, Goto, Labels,
                      Points, Threads
<1>5. CASE ClearLabel
  <2>1. OrderInv'
    BY <1>5, OrderKept DEF ClearLabel, Goto, IInv, TypeOK, Threads
  <2> QED
    BY <1>5, <2>1 DEF IInv, TypeOK, NamesInv, ClearLabel, coreVars, statusVars, orderVars,
                      Goto, Labels, Points, Threads
<1>6. CASE StatusTimer
  <2>1. OrderInv'
    BY <1>6, OrderKept DEF StatusTimer, Goto, IInv, TypeOK, Threads
  <2> QED
    BY <1>6, <2>1 DEF IInv, TypeOK, NamesInv, StatusTimer, coreVars, statusVars, orderVars,
                      Goto, Points, Threads
<1>7. CASE TearDown
  <2>1. OrderInv'
    BY <1>7, OrderKept DEF TearDown
  <2> QED
    BY <1>7, <2>1 DEF IInv, TypeOK, NamesInv, TearDown, statusVars, orderVars, Labels
<1>8. CASE UNCHANGED vars
  <2>1. OrderInv'
    BY <1>8, OrderKept DEF vars
  <2> QED
    BY <1>8, <2>1 DEF IInv, TypeOK, NamesInv, vars, coreVars, statusVars, orderVars
<1> QED
  BY <1>1, <1>2, <1>3, <1>4, <1>5, <1>6, <1>7, <1>8, PublishKeepsIInv
  DEF Next, SessionStep, Threads

\* IInv is an inductive invariant of the two threads and the session.
THEOREM Inductive == Spec => []IInv
BY InitIInv, NextIInv, PTL DEF Spec

\* Every variable keeps its type.
THEOREM TypeCorrect == Spec => []TypeOK
BY Inductive, PTL DEF IInv

\* Between two service calls neither the label nor the last composed status
\* shows an open session under another controller's name, and nor does the
\* latched topic once that status is out and none older after it
\* (stream_server.cpp, on_open, on_close and publish_status_if_changed on two
\* threads).
THEOREM NamesAgree == Spec => []NeverMisnamed
<1>1. IInv => NeverMisnamed
  BY DEF IInv, NamesInv, OrderInv, NeverMisnamed
<1> QED
  BY <1>1, Inductive, PTL

-----------------------------------------------------------------------------
(* Contact thresholds and the gripper, which share the monitor.            *)

LEMMA ContactStarts == ContactInit /\ GripperInit => ContactInv /\ GripperInv /\ SilentDropsAreRaces
<1> SUFFICES ASSUME ContactInit, GripperInit
             PROVE  ContactInv /\ GripperInv /\ SilentDropsAreRaces
  OBVIOUS
<1>1. Accepted(params) /\ inForce.theta = params.named["default"]
  BY DEF ContactInit, MonitorInit
<1>2. Bounded(inForce.theta, params.ceiling)
  BY <1>1 DEF Accepted, Named
<1>3. AnswersAreInForce
  BY <1>2 DEF ContactInit, AnswersAreInForce, Active
<1> QED
  BY <1>2, <1>3 DEF ContactInit, GripperInit, ContactInv, GripperInv,
                    SilentDropsAreRaces

\* on_set keeps what it told and what is in force together.
LEMMA SetKeeps ==
  ASSUME ContactInv, SetStep
  PROVE  ContactInv'
<1>1. ASSUME NEW req \in Requests, AskUnmappable(req) \/ AskMapped(req)
      PROVE  ContactInv'
  BY <1>1 DEF ContactInv, AnswersAreInForce, AskUnmappable, AskMapped,
              monitorVars
<1>2. CASE AnswerAccepted
  <2>1. /\ Bounded(Resolved(asked), params.ceiling)
        /\ inForce'.theta = Resolved(asked) /\ inForce'.profile = asked.profile
        /\ params' = params /\ asked' = asked /\ setting' = "idle" /\ Enabled
    BY <1>2 DEF AnswerAccepted, Adopt
  <2>2. Bounded(inForce.theta, params.ceiling)'
    BY <2>1 DEF Bounded
  <2>3. Active' = inForce' /\ Resolved(asked)' = Resolved(asked)
    BY <2>1 DEF Active, Enabled, Resolved
  <2>4. answer'.profile = inForce'.profile /\ answer'.theta = inForce'.theta
    BY <1>2 DEF AnswerAccepted
  <2>5. Bounded(answer.theta, params.ceiling)'
    BY <2>2, <2>4 DEF Bounded
  <2> QED
    BY <2>1, <2>2, <2>3, <2>4, <2>5 DEF ContactInv, AnswersAreInForce
<1>3. CASE SinkRefuses
  BY <1>3 DEF ContactInv, AnswersAreInForce, SinkRefuses, Turndown,
              monitorVars
<1>4. CASE AnswerRefused
  <2>1. /\ answer'.accepted = "no" /\ answer'.profile = Active.profile
        /\ answer'.theta = Active.theta /\ setting' = "idle"
        /\ UNCHANGED monitorVars
    BY <1>4 DEF AnswerRefused
  <2>2. Active' = Active /\ Enabled' = Enabled
    BY <2>1 DEF Active, Enabled, monitorVars
  <2>3. Bounded(inForce.theta, params.ceiling)'
    BY <2>1 DEF ContactInv, Bounded, monitorVars
  <2>4. Enabled => Bounded(answer.theta, params.ceiling)'
    BY <2>1, <2>3 DEF Active, Bounded, monitorVars
  <2> QED
    BY <2>1, <2>2, <2>3, <2>4 DEF ContactInv, AnswersAreInForce
<1> QED
  BY <1>1, <1>2, <1>3, <1>4 DEF SetStep

\* What is in force does not move with the latch.
LEMMA MonitorKeeps ==
  ASSUME ContactInv, GripperInv, SilentDropsAreRaces, GripperTypeOK,
         UNCHANGED setVars, MonitorStep
  PROVE  ContactInv' /\ GripperInv' /\ SilentDropsAreRaces' /\ GripperTypeOK'
<1>1. UNCHANGED <<params, inForce, setpoint, fate>>
  BY DEF MonitorStep, Arm, Trip, Clear, gripperVars
<1>2. ContactInv'
  BY <1>1 DEF ContactInv, AnswersAreInForce, Active, Enabled, Resolved, setVars
<1>3. CASE Arm /\ UNCHANGED gripperVars
  BY <1>1, <1>2, <1>3 DEF GripperInv, SilentDropsAreRaces, GripperTypeOK, Arm,
                          Latched, Enabled, gripperVars
<1>4. CASE Trip /\ contacts' = During(contacts) /\ UNCHANGED <<setpoint, fate, cleared>>
  BY <1>1, <1>2, <1>4 DEF GripperInv, SilentDropsAreRaces, GripperTypeOK, Trip,
                          Latched, Enabled, During
<1>5. CASE Clear /\ cleared' = During(cleared) /\ UNCHANGED <<setpoint, fate, contacts>>
  BY <1>1, <1>2, <1>5 DEF GripperInv, SilentDropsAreRaces, GripperTypeOK, Clear,
                          Latched, Enabled, During
<1> QED
  BY <1>3, <1>4, <1>5 DEF MonitorStep

LEMMA GripperKeeps ==
  ASSUME ContactInv, GripperInv, SilentDropsAreRaces, GripperTypeOK,
         UNCHANGED setVars, GripperStep
  PROVE  ContactInv' /\ GripperInv' /\ SilentDropsAreRaces' /\ GripperTypeOK'
<1>1. UNCHANGED monitorVars
  BY DEF GripperStep, CheckSetpoint, ForwardSetpoint
<1>2. ContactInv'
  BY <1>1 DEF ContactInv, AnswersAreInForce, Active, Enabled, Resolved, setVars,
              monitorVars
<1>3. Latched' = Latched
  BY <1>1 DEF Latched, Enabled, monitorVars
<1>4. CASE CheckSetpoint
  BY <1>2, <1>3, <1>4 DEF GripperInv, SilentDropsAreRaces, GripperTypeOK,
                          CheckSetpoint
<1>5. CASE ForwardSetpoint
  BY <1>2, <1>3, <1>5 DEF GripperInv, SilentDropsAreRaces, GripperTypeOK,
                          ForwardSetpoint
<1> QED
  BY <1>4, <1>5 DEF GripperStep

LEMMA SurfaceKeeps ==
  ASSUME ContactInv, GripperInv, SilentDropsAreRaces, GripperTypeOK,
         SurfaceStep \/ UNCHANGED surfaceVars
  PROVE  ContactInv' /\ GripperInv' /\ SilentDropsAreRaces' /\ GripperTypeOK'
<1>1. CASE SetStep /\ UNCHANGED gripperVars
  <2>1. Latched' = Latched
    BY <1>1 DEF SetStep, AskUnmappable, AskMapped, AnswerAccepted, SinkRefuses,
                AnswerRefused, Adopt, Turndown, Latched, Enabled, monitorVars
  <2>2. ContactInv'
    BY <1>1, SetKeeps
  <2> QED
    BY <1>1, <2>1, <2>2 DEF GripperInv, SilentDropsAreRaces, GripperTypeOK,
                            gripperVars
<1>2. CASE UNCHANGED surfaceVars
  BY <1>2 DEF ContactInv, AnswersAreInForce, Active, Enabled, Resolved,
              GripperInv, SilentDropsAreRaces, GripperTypeOK, Latched,
              surfaceVars, contactVars, monitorVars, setVars, gripperVars
<1> QED
  BY <1>1, <1>2, MonitorKeeps, GripperKeeps DEF SurfaceStep

-----------------------------------------------------------------------------
(* The speed scale.                                                        *)

LEMMA SpeedStarts == SpeedInit => SpeedInv
<1> SUFFICES ASSUME SpeedInit PROVE SpeedInv
  OBVIOUS
<1>1. applied \in BOOLEAN /\ partial \in BOOLEAN
  BY Zenon DEF SpeedInit
<1> QED
  BY <1>1 DEF SpeedInit, SpeedInv, ScaleInForce

LEMMA SpeedKeeps ==
  ASSUME SpeedInv, SpeedStep \/ UNCHANGED speedVars
  PROVE  SpeedInv'
<1> USE SpeedAssumption
<1>1. ASSUME NEW s \in Sets, BeginSet(s)
      PROVE  SpeedInv'
  <2>1. PICK n \in 1..MaxSet : s \in [1..n -> Scales \cup {Silly}]
    BY <1>1 DEF Sets
  <2>2. s \in Seq(Scales \cup {Silly}) /\ s # <<>>
    BY <2>1
  <2> QED
    BY <1>1, <2>2 DEF SpeedInv, ScaleInForce, BeginSet
<1>2. CASE Apply
  BY <1>2 DEF SpeedInv, ScaleInForce, Apply
<1>3. CASE Store
  <2>1. /\ Tail(entries) \in Seq(Scales \cup {Silly})
        /\ Tail(entries) # <<>> =>
             Tail(entries)[Len(Tail(entries))] = entries[Len(entries)]
        /\ Tail(entries) = <<>> => Head(entries) = entries[Len(entries)]
    BY <1>3 DEF SpeedInv, Store
  <2> QED
    BY <1>3, <2>1 DEF SpeedInv, ScaleInForce, Store, historyVars
<1>4. CASE Refuse
  BY <1>4 DEF SpeedInv, ScaleInForce, Refuse, historyVars
<1>5. CASE Commit
  BY <1>5 DEF SpeedInv, ScaleInForce, Commit
<1>6. CASE UNCHANGED speedVars
  BY <1>6 DEF SpeedInv, ScaleInForce, speedVars, historyVars
<1> QED
  BY <1>1, <1>2, <1>3, <1>4, <1>5, <1>6 DEF SpeedStep

-----------------------------------------------------------------------------
(* The arm's health.                                                       *)

LEMMA HealthStarts == HealthInit => HealthTypeOK /\ HealthInv /\ ReportHeld
BY HealthAssumption
DEF HealthInit, HealthTypeOK, HealthInv, ReportHeld, Holding, Fresh, Faults,
    Levels

LEMMA HealthKeeps ==
  ASSUME HealthTypeOK, HealthInv, ReportHeld,
         HealthStep \/ UNCHANGED healthVars
  PROVE  HealthTypeOK' /\ HealthInv' /\ ReportHeld'
<1> USE HealthAssumption
<1>1. ASSUME NEW f \in Faults, PublishState(f)
      PROVE  HealthTypeOK' /\ HealthInv' /\ ReportHeld'
  BY <1>1 DEF HealthTypeOK, HealthInv, ReportHeld, Holding, Fresh, Faults,
              Levels, PublishState, PumpTo, Following, Watch
<1>2. CASE StoreFault
  BY <1>2 DEF HealthTypeOK, HealthInv, ReportHeld, Holding, Fresh, Faults,
              Levels, StoreFault, PumpTo, Following, Watch
<1>3. CASE StoreEver
  BY <1>3 DEF HealthTypeOK, HealthInv, ReportHeld, Holding, Fresh, Faults,
              Levels, StoreEver, PumpTo, Following, Watch
<1>4. CASE StoreTime
  BY <1>4 DEF HealthTypeOK, HealthInv, ReportHeld, Holding, Fresh, Faults,
              Levels, StoreTime, PumpTo, Following, Watch
<1>5. CASE Tick
  BY <1>5 DEF HealthTypeOK, HealthInv, ReportHeld, Holding, Fresh, Faults,
              Levels, Tick, Watch
<1>6. CASE ReadEver
  BY <1>6 DEF HealthTypeOK, HealthInv, ReportHeld, Holding, Fresh, Faults,
              Levels, ReadEver, pumpVars
<1>7. CASE ReadFault
  BY <1>7 DEF HealthTypeOK, HealthInv, ReportHeld, Holding, Fresh, Faults,
              Levels, ReadFault, pumpVars
<1>8. CASE Report
  BY <1>8 DEF HealthTypeOK, HealthInv, ReportHeld, Holding, Fresh, Faults,
              Levels, Level, Report, pumpVars
<1>9. CASE UNCHANGED healthVars
  BY <1>9 DEF HealthTypeOK, HealthInv, ReportHeld, Holding, healthVars, pumpVars
<1> QED
  BY <1>1, <1>2, <1>3, <1>4, <1>5, <1>6, <1>7, <1>8, <1>9 DEF HealthStep

-----------------------------------------------------------------------------
(* Together.                                                               *)

ServicesInv ==
  /\ IInv
  /\ ContactInv /\ GripperInv /\ SilentDropsAreRaces /\ GripperTypeOK
  /\ SpeedInv
  /\ HealthTypeOK /\ HealthInv /\ ReportHeld

LEMMA ServicesStart == ServicesInit => ServicesInv
BY InitIInv, ContactStarts, SpeedStarts, HealthStarts
DEF ServicesInit, ServicesInv, GripperInit, GripperTypeOK

LEMMA ServicesKeep == ServicesInv /\ [ServicesNext]_servicesVars => ServicesInv'
<1> SUFFICES ASSUME ServicesInv, [ServicesNext]_servicesVars
             PROVE  ServicesInv'
  OBVIOUS
<1>1. [Next]_vars
  BY DEF ServicesNext, servicesVars, Streams, Surface, Speed, Health
<1>2. SurfaceStep \/ UNCHANGED surfaceVars
  BY DEF ServicesNext, servicesVars, Streams, Surface, Speed, Health
<1>3. SpeedStep \/ UNCHANGED speedVars
  BY DEF ServicesNext, servicesVars, Streams, Surface, Speed, Health
<1>4. HealthStep \/ UNCHANGED healthVars
  BY DEF ServicesNext, servicesVars, Streams, Surface, Speed, Health
<1> QED
  BY <1>1, <1>2, <1>3, <1>4, NextIInv, SurfaceKeeps, SpeedKeeps, HealthKeeps
  DEF ServicesInv

\* Each server keeps its invariant beside the others.
THEOREM ServicesInductive == ServicesSpec => []ServicesInv
BY ServicesStart, ServicesKeep, PTL DEF ServicesSpec

\* Every response of /set_contact_thresholds tells what is in force, an
\* accepted one what was asked, and never above the ceiling
\* (contact_server.cpp, on_set; contact_params.cpp, declare_contact_params).
THEOREM AnswersTell == ServicesSpec => []AnswersAreInForce
<1>1. ServicesInv => AnswersAreInForce
  BY DEF ServicesInv, ContactInv
<1> QED
  BY <1>1, ServicesInductive, PTL

\* A gripper setpoint is dropped without a word only if the arm was stopped
\* after it was checked (gripper_server.cpp, on_setpoint).
THEOREM DropsAreRaces == ServicesSpec => []SilentDropsAreRaces
BY ServicesInductive, PTL DEF ServicesInv

\* Between two sets of the parameter the diagnostics show the scale the arm
\* moves at, and so does the parameter unless, since it last changed, a set was
\* refused behind an entry already applied: nothing else parts the two
\* (speed_scale_param.cpp, on_set).
THEOREM ScaleIsInForce == ServicesSpec => []ScaleInForce
<1>1. ServicesInv => ScaleInForce
  BY DEF ServicesInv, SpeedInv
<1> QED
  BY <1>1, ServicesInductive, PTL

\* A report of the arm's health tells a level that held while it was read, or
\* was overtaken by the end of an outage (ros2_backend.cpp, publish_state and
\* diagnostics).
THEOREM ReportsHold == ServicesSpec => []ReportHeld
BY ServicesInductive, PTL DEF ServicesInv

-----------------------------------------------------------------------------
(* Liveness of the stream server.  What a step does is proved; when the two  *)
(* threads can take theirs, StreamsNeverWait, is a hypothesis, since the     *)
(* provers do not know ENABLED.                                              *)

Moving == service = "streams"

Down == session = NoController

\* What a thread is about to compare was read of the session as it is.
Current(th) == at[th] = "comparing" => seen[th].open = (session # NoController)

Shown == IF session = NoController THEN memo = Closed ELSE memo.open

\* The same of the topic, unless an older message came out last.
TopicShown ==
  overtaken \/ IF session = NoController THEN topic = Closed ELSE topic.open

SessionPublishing == at["session"] = "publishing"

TimerAt(point) == at["timer"] = point

\* A behaviour in which another server moves leaves the streams as they began.
Resting == Moving \/ (Down /\ Shown /\ TopicShown)

LEMMA StreamsRest == ServicesSpec => []Resting
<1>1. ServicesInit => Resting
  BY DEF ServicesInit, Init, Resting, Moving, Down, Shown, TopicShown
<1>2. Resting /\ [ServicesNext]_servicesVars => Resting'
  BY DEF ServicesNext, servicesVars, Streams, Surface, Speed, Health, Resting, Moving, Down,
         Shown, TopicShown, vars, coreVars, statusVars, orderVars
<1> QED BY <1>1, <1>2, PTL DEF ServicesSpec

\* What publish_status_if_changed() does on a thread whose read is not stale.
LEMMA StoresWhatIs ==
  ASSUME IInv, NEW th \in Threads, StoreStatus(th), Current(th)
  PROVE  Shown' /\ session' = session
<1>1. session' = session
  BY DEF StoreStatus, coreVars
<1>2. seen[th] \in Status /\ seen \in [Threads -> Status]
  BY DEF IInv, TypeOK
<1>3. seen'[th] = [open |-> seen[th].open, controller |-> openController']
  BY <1>2 DEF StoreStatus, Status
<1>4. memo' = [open |-> (session # NoController), controller |-> openController']
  BY <1>3 DEF StoreStatus, Current
<1>5. session = NoController => openController' = NoController
  BY DEF StoreStatus, Current
<1> QED BY <1>1, <1>4, <1>5 DEF Shown, Closed

\* While the session stays as it is, no read of it goes stale and what is shown
\* stays shown; the timer goes round.
LEMMA StreamMoves ==
  ASSUME IInv, [Next]_vars, Down' = Down
  PROVE  /\ \A th \in Threads : Current(th) => Current(th)'
         /\ Shown /\ Current("session") /\ Current("timer") => Shown'
         /\ TimerAt("idle") => TimerAt("idle")' \/ TimerAt("querying")'
         /\ TimerAt("querying") => TimerAt("querying")' \/ TimerAt("comparing")'
         /\ TimerAt("comparing") /\ Current("timer") => TimerAt("comparing")' \/ Shown'
         /\ TimerAt("publishing") => TimerAt("publishing")' \/ TimerAt("idle")'
<1> USE DEF Down, Current, TimerAt, Goto, Threads
<1>0. at \in [Threads -> Points] /\ seen \in [Threads -> Status]
  BY DEF IInv, TypeOK
<1>1. ASSUME NEW th \in Threads, QueryStream(th)
      PROVE  /\ \A d \in Threads : Current(d) => Current(d)'
             /\ Shown => Shown'
             /\ TimerAt("comparing") => TimerAt("comparing")'
             /\ TimerAt("idle") => TimerAt("idle")'
             /\ TimerAt("querying") => TimerAt("querying")' \/ TimerAt("comparing")'
             /\ TimerAt("publishing") => TimerAt("publishing")'
  BY <1>0, <1>1 DEF QueryStream, coreVars, Shown, Status
<1>2. ASSUME NEW th \in Threads, StoreStatus(th)
      PROVE  /\ \A d \in Threads : Current(d) => Current(d)'
             /\ Current(th) => Shown'
             /\ TimerAt("comparing") => TimerAt("comparing")' \/ th = "timer"
             /\ TimerAt("idle") => TimerAt("idle")'
             /\ TimerAt("querying") => TimerAt("querying")'
             /\ TimerAt("publishing") => TimerAt("publishing")'
  <2>1. Current(th) => Shown'
    BY <1>2, StoresWhatIs
  <2> QED BY <1>0, <1>2, <2>1 DEF StoreStatus, coreVars
<1>3. ASSUME NEW th \in Threads, PublishStatus(th)
      PROVE  /\ \A d \in Threads : Current(d) => Current(d)'
             /\ Shown => Shown'
             /\ TimerAt("comparing") => TimerAt("comparing")'
             /\ TimerAt("idle") => TimerAt("idle")'
             /\ TimerAt("querying") => TimerAt("querying")'
             /\ TimerAt("publishing") => TimerAt("publishing")' \/ TimerAt("idle")'
  BY <1>0, <1>3 DEF PublishStatus, coreVars, Shown
<1>4. ASSUME /\ UNCHANGED statusVars
             /\ at' = at \/ \E point \in Points \ {"comparing"} : Goto("session", point)
      PROVE  /\ \A d \in Threads : Current(d) => Current(d)'
             /\ Shown => Shown'
             /\ \A point \in Points : TimerAt(point) => TimerAt(point)'
  BY <1>0, <1>4 DEF statusVars, Shown
<1>5. CASE StatusTimer
  BY <1>0, <1>5 DEF StatusTimer, coreVars, statusVars, Shown
<1>6. CASE \/ \E c \in Controllers : OpenAccepted(c)
           \/ OpenRefused \/ Close \/ SetLabel \/ ClearLabel \/ TearDown \/ UNCHANGED vars
  <2>1. /\ UNCHANGED statusVars
        /\ at' = at \/ \E point \in Points \ {"comparing"} : Goto("session", point)
    BY <1>6 DEF OpenAccepted, OpenRefused, Close, SetLabel, ClearLabel, TearDown, vars, Points
  <2> QED BY <1>4, <2>1 DEF Points
<1> QED BY <1>1, <1>2, <1>3, <1>5, <1>6 DEF Next, SessionStep, Publish

\* While the session stays as it is and the memo shows it, the topic that shows
\* it keeps doing so, and any publish brings it there.
LEMMA TopicMoves ==
  ASSUME IInv, [Next]_vars, Down' = Down, Shown
  PROVE  /\ TopicShown => TopicShown'
         /\ SessionPublishing => SessionPublishing' \/ TopicShown'
         /\ TimerAt("publishing") => TimerAt("publishing")' \/ TopicShown'
<1>0. at \in [Threads -> Points] /\ overtaken \in BOOLEAN
  BY DEF IInv, TypeOK
<1>1. ASSUME NEW th \in Threads, PublishStatus(th) PROVE TopicShown'
  <2>1. /\ topic' = seen[th] /\ memo' = memo /\ session' = session
        /\ at[th] = "publishing"
    BY <1>1 DEF PublishStatus, coreVars
  <2>2. CASE th = latest
    <3>1. topic' = memo
      BY <2>1, <2>2 DEF IInv, OrderInv
    <3> QED BY <2>1, <3>1 DEF Shown, TopicShown
  <2>3. CASE th # latest
    BY <1>1, <2>3 DEF PublishStatus, TopicShown
  <2> QED BY <2>2, <2>3
<1>2. ASSUME ~\E th \in Threads : PublishStatus(th)
      PROVE  /\ UNCHANGED <<topic, overtaken>>
             /\ \A th \in Threads : at[th] = "publishing" => at'[th] = "publishing"
  <2>1. ASSUME NEW th \in Threads, QueryStream(th) \/ StoreStatus(th)
        PROVE  /\ UNCHANGED <<topic, overtaken>>
               /\ \A d \in Threads : at[d] = "publishing" => at'[d] = "publishing"
    BY <1>0, <2>1 DEF QueryStream, StoreStatus, orderVars, Goto
  <2>2. CASE \/ \E c \in Controllers : OpenAccepted(c)
             \/ OpenRefused \/ Close \/ SetLabel \/ ClearLabel \/ StatusTimer \/ TearDown
             \/ UNCHANGED vars
    BY <1>0, <2>2 DEF OpenAccepted, OpenRefused, Close, SetLabel, ClearLabel, StatusTimer,
       TearDown, vars, statusVars, orderVars, Goto, Threads
  <2> QED BY <1>2, <2>1, <2>2 DEF Next, SessionStep, Publish, Threads
<1>3. ASSUME UNCHANGED <<topic, overtaken>>, TopicShown PROVE TopicShown'
  BY <1>3 DEF TopicShown, Down
<1> QED BY <1>1, <1>2, <1>3 DEF SessionPublishing, TimerAt, Threads

\* A thread with a stale read gets rid of it, and a timer that compares shows.
LEMMA StreamSteps ==
  ASSUME IInv
  PROVE  /\ SessionStep => /\ Current("session") \/ Current("session")'
                           /\ SessionPublishing => ~SessionPublishing'
         /\ Publish("timer") =>
              /\ Current("timer") \/ Current("timer")'
              /\ TimerAt("querying") => TimerAt("comparing")'
              /\ TimerAt("comparing") /\ Current("timer") => Shown'
              /\ TimerAt("publishing") => TimerAt("idle")'
         /\ StatusTimer => TimerAt("querying")'
<1>0. at \in [Threads -> Points] /\ "session" \in Threads /\ "timer" \in Threads
  BY DEF IInv, TypeOK, Threads
<1>1. ASSUME NEW th \in Threads, Publish(th) PROVE Current(th) \/ Current(th)'
  BY <1>0, <1>1 DEF Publish, QueryStream, StoreStatus, PublishStatus, Goto, Current
<1>2. SetLabel \/ ClearLabel => Current("session")
  BY DEF SetLabel, ClearLabel, Current
<1>3. Publish("timer") /\ TimerAt("comparing") /\ Current("timer") => Shown'
  BY <1>0, StoresWhatIs DEF Publish, QueryStream, PublishStatus, StoreStatus, TimerAt
<1>4. Publish("timer") =>
        /\ TimerAt("querying") => TimerAt("comparing")'
        /\ TimerAt("publishing") => TimerAt("idle")'
  BY <1>0 DEF Publish, QueryStream, PublishStatus, StoreStatus, TimerAt, Goto
<1>5. StatusTimer => TimerAt("querying")'
  BY <1>0 DEF StatusTimer, TimerAt, Goto
<1>6. SessionStep /\ SessionPublishing => ~SessionPublishing'
  BY <1>0 DEF SessionStep, SetLabel, ClearLabel, Publish, QueryStream, PublishStatus,
     StoreStatus, SessionPublishing, Goto
<1> QED BY <1>0, <1>1, <1>2, <1>3, <1>4, <1>5, <1>6 DEF SessionStep

\* A session that core ended or opened, and that stays as it is, comes to be
\* shown so on the latched topic for good, unless the last message published was
\* older than the last one stored: the timer goes round, no stale read of either
\* thread outlives its comparison, and what is stored is published.
THEOREM SessionsSurface == FairServices /\ []StreamsNeverWait => SessionSurfaces
<1>1. ServicesInv /\ [ServicesNext]_servicesVars /\ (Down <=> Down') =>
        /\ Current("session") => Current("session")'
        /\ Current("timer") => Current("timer")'
        /\ Shown /\ Current("session") /\ Current("timer") => Shown'
        /\ TimerAt("idle") => TimerAt("idle")' \/ TimerAt("querying")'
        /\ TimerAt("querying") => TimerAt("querying")' \/ TimerAt("comparing")'
        /\ TimerAt("comparing") /\ Current("timer") => TimerAt("comparing")' \/ Shown'
        /\ TimerAt("publishing") => TimerAt("publishing")' \/ TimerAt("idle")'
        /\ Shown => /\ TopicShown => TopicShown'
                    /\ SessionPublishing => SessionPublishing' \/ TopicShown'
                    /\ TimerAt("publishing") => TimerAt("publishing")' \/ TopicShown'
  <2> SUFFICES ASSUME ServicesInv, [ServicesNext]_servicesVars, Down <=> Down'
               PROVE  /\ Current("session") => Current("session")'
                      /\ Current("timer") => Current("timer")'
                      /\ Shown /\ Current("session") /\ Current("timer") => Shown'
                      /\ TimerAt("idle") => TimerAt("idle")' \/ TimerAt("querying")'
                      /\ TimerAt("querying") => TimerAt("querying")' \/ TimerAt("comparing")'
                      /\ TimerAt("comparing") /\ Current("timer")
                           => TimerAt("comparing")' \/ Shown'
                      /\ TimerAt("publishing") => TimerAt("publishing")' \/ TimerAt("idle")'
                      /\ Shown =>
                           /\ TopicShown => TopicShown'
                           /\ SessionPublishing => SessionPublishing' \/ TopicShown'
                           /\ TimerAt("publishing") =>
                                TimerAt("publishing")' \/ TopicShown'
    OBVIOUS
  <2>1. IInv /\ [Next]_vars
    BY DEF ServicesInv, ServicesNext, servicesVars, Streams, Surface, Speed, Health
  <2>2. Down' = Down
    BY DEF Down
  <2> QED BY <2>1, <2>2, StreamMoves, TopicMoves DEF Threads
<1>2. ServicesInv =>
        /\ <<Streams(SessionStep)>>_servicesVars =>
             /\ Current("session") \/ Current("session")'
             /\ SessionPublishing => ~SessionPublishing'
        /\ <<Streams(Publish("timer"))>>_servicesVars =>
             /\ Current("timer") \/ Current("timer")'
             /\ TimerAt("querying") => TimerAt("comparing")'
             /\ TimerAt("comparing") /\ Current("timer") => Shown'
             /\ TimerAt("publishing") => TimerAt("idle")'
        /\ <<Streams(StatusTimer)>>_servicesVars => TimerAt("querying")'
  BY StreamSteps DEF Streams, ServicesInv
<1>3. StreamsNeverWait /\ Moving =>
        /\ ~Current("session") \/ SessionPublishing =>
             ENABLED <<Streams(SessionStep)>>_servicesVars
        /\ TimerAt("querying") \/ TimerAt("comparing") \/ TimerAt("publishing") =>
             ENABLED <<Streams(Publish("timer"))>>_servicesVars
        /\ TimerAt("idle") => ENABLED <<Streams(StatusTimer)>>_servicesVars
  BY DEF StreamsNeverWait, Moving, Current, TimerAt, SessionPublishing
<1>4. ServicesInv =>
        /\ TimerAt("idle") \/ TimerAt("querying") \/ TimerAt("comparing") \/ TimerAt("publishing")
        /\ ~Current("timer") => TimerAt("comparing")
        /\ TimerAt("publishing") => ~TimerAt("idle")
        /\ Shown /\ ~TopicShown => SessionPublishing \/ TimerAt("publishing")
  <2>1. ASSUME ServicesInv, Shown, ~TopicShown
        PROVE  SessionPublishing \/ TimerAt("publishing")
    <3>1. topic # memo /\ ~overtaken
      BY <2>1 DEF Shown, TopicShown
    <3>2. at[latest] = "publishing" /\ latest \in Threads
      BY <2>1, <3>1 DEF ServicesInv, IInv, TypeOK, OrderInv, InOrder
    <3> QED BY <3>2 DEF Threads, SessionPublishing, TimerAt
  <2> QED
    BY <2>1 DEF ServicesInv, IInv, TypeOK, Threads, Points, TimerAt, Current
<1>5. [ServicesNext]_servicesVars => (Moving <=> Moving')
  BY DEF ServicesNext, servicesVars, Streams, Surface, Speed, Health, Moving
<1>6. Shown /\ TopicShown =>
        /\ Down => memo = Closed /\ (topic = Closed \/ overtaken)
        /\ ~Down => memo.open /\ (topic.open \/ overtaken)
  BY DEF Shown, TopicShown, Down
<1>7. /\ session = NoController <=> Down
      /\ session # NoController <=> ~Down
  BY DEF Down
<1>8. Resting <=> Moving \/ (Down /\ Shown /\ TopicShown)
  BY DEF Resting
<1> DEFINE Steady ==
      /\ [][ServicesNext]_servicesVars
      /\ WF_servicesVars(Streams(SessionStep))
      /\ WF_servicesVars(Streams(Publish("timer")))
      /\ WF_servicesVars(Streams(StatusTimer))
      /\ []ServicesInv /\ []StreamsNeverWait /\ []Moving
\* The stale reads go ...
<1>9. Steady /\ ([]Down \/ []~Down) => <>[]Current("session") /\ <>[]Current("timer")
  BY <1>1, <1>2, <1>3, <1>4, PTL
\* ... and the timer's next round shows the session as it is.
<1>10. Steady /\ ([]Down \/ []~Down) /\ []Current("timer") => <>Shown
  BY <1>1, <1>2, <1>3, <1>4, PTL
<1>11. Steady /\ (<>[]Down \/ <>[]~Down) => <>[]Shown
  BY <1>1, <1>9, <1>10, PTL
\* A message that is not out yet is published, by the thread that stored it.
<1>12. Steady /\ ([]Down \/ []~Down) /\ []Shown => <>[]TopicShown
  BY <1>1, <1>2, <1>3, <1>4, PTL
<1>13. Steady /\ (<>[]Down \/ <>[]~Down) => <>[](Shown /\ TopicShown)
  BY <1>11, <1>12, PTL
<1>14. FairServices /\ []StreamsNeverWait => Steady \/ [](Down /\ Shown /\ TopicShown)
  BY <1>5, <1>8, StreamsRest, ServicesInductive, PTL DEF FairServices, ServicesSpec
<1>15. (/\ <>[]Down => <>[](memo = Closed /\ (topic = Closed \/ overtaken))
        /\ <>[]~Down => <>[](memo.open /\ (topic.open \/ overtaken)))
       => SessionSurfaces
  BY <1>7, PTL DEF SessionSurfaces
<1> QED
  BY <1>6, <1>13, <1>14, <1>15, PTL
=============================================================================
