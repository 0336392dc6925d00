-------------------------- MODULE Ros2BackendProofs --------------------------
(***************************************************************************)
(* Proofs about Ros2Backend for every set of goals and tokens, both        *)
(* arbitration modes and any number of disturbances.                       *)
(***************************************************************************)
EXTENDS Ros2Backend, DriverProofs

USE DriverAssumption

-----------------------------------------------------------------------------
(* The next-state relation, one disjunct per action.                       *)

\* Next as a flat disjunction, for proofs that take one action at a time.
LEMMA NextCases ==
  ASSUME Next
  PROVE  \/ \E g \in Goals :
              \/ RejectGoal(g) \/ PassChecks(g)
              \/ Submit(g) \/ StoreHandle(g) \/ HandOver(g)
              \/ FindToken(g) \/ CancelAtSink(g) \/ Acknowledge(g)
         \/ Drain
         \/ LookUp
         \/ Decide
         \/ End
         \/ FinishMotion
         \/ Environment
  BY DEF Next, Request, Settle

\* The environment adds at most a halt to the inbox and touches nothing else
\* the server sees of the driver but its admissions.
LEMMA EnvironmentStep ==
  ASSUME Environment, TypeOK
  PROVE  /\ DriverTypeOK'
         /\ active' = active
         /\ UNCHANGED <<clientVars, histVars, handles, token, executor, settling>>
         /\ \/ inbox' = inbox
            \/ \E c \in {"Halted", "ContactStop"} : inbox' = Append(inbox, HaltMsg(c))
  <1>1. CASE ChangeAuthority
    BY <1>1, Messages, OccursAppend
    DEF Environment, ChangeAuthority, TypeOK, DriverTypeOK
  <1>2. CASE LatchContact
    BY <1>2, Messages, OccursAppend
    DEF Environment, LatchContact, TypeOK, DriverTypeOK
  <1>3. CASE ClearContact
    BY <1>3 DEF Environment, ClearContact, TypeOK, DriverTypeOK
  <1> QED BY <1>1, <1>2, <1>3 DEF Environment

-----------------------------------------------------------------------------
(* Type correctness.                                                       *)

\* The records the two threads keep have their type.
ExecutorType ==
  [at : ExecutorPoints, goal : Goals \cup {NoGoal}, known : BOOLEAN]

SettlingType ==
  [at : SettlePoints, goal : Goals \cup {NoGoal}, code : Codes, call : TerminalCalls]

LEMMA RecordTypes ==
  /\ Idle \in ExecutorType /\ NotSettling \in SettlingType
  /\ \A point \in ExecutorPoints, g \in Goals, known \in BOOLEAN :
       Serve(point, g, known) => executor' \in ExecutorType
  /\ \A g \in Goals, code \in Codes : BeginSettle(g, code) => settling' \in SettlingType
  BY DEF Idle, NotSettling, Serve, BeginSettle, ExecutorType, SettlingType,
         ExecutorPoints, SettlePoints, Codes, TerminalCalls

LEMMA InitTypeOK == Init => TypeOK
  <1> SUFFICES ASSUME Init PROVE TypeOK
    OBVIOUS
  <1>1. DriverTypeOK
    <2>1. <<>> \in Seq(Message) /\ 0 \in 0..MaxDisturbances
      OBVIOUS
    <2> QED BY <2>1 DEF Init, DriverInit, DriverTypeOK
  <1> QED
    BY <1>1, RecordTypes DEF Init, TypeOK, HandleStates, ExecutorType, SettlingType

LEMMA NextTypeOK == TypeOK /\ ThreadsInv /\ [Next]_vars => TypeOK'
  <1> SUFFICES ASSUME TypeOK, ThreadsInv, [Next]_vars PROVE TypeOK'
    OBVIOUS
  <1>a. executor \in ExecutorType /\ settling \in SettlingType
    BY DEF TypeOK, ExecutorType, SettlingType
  <1>b. /\ DriverTypeOK' /\ handle' \in [Goals -> HandleStates]
        /\ result' \in [Goals -> Codes \cup {"none"}]
        /\ ackedCancel' \subseteq Goals /\ handles' \subseteq Goals
        /\ token' \in [Goals -> Tokens]
        /\ executor' \in ExecutorType /\ settling' \in SettlingType
        /\ unhanded' \subseteq Goals /\ threw' \subseteq Goals
        => TypeOK'
    BY DEF TypeOK, ExecutorType, SettlingType
  <1> USE DEF clientVars, histVars, driverVars
  <1>1. ASSUME NEW g \in Goals, RejectGoal(g) PROVE TypeOK'
    BY <1>1 DEF RejectGoal, TypeOK, DriverTypeOK, HandleStates
  <1>2. ASSUME NEW g \in Goals, PassChecks(g) PROVE TypeOK'
    <2>1. executor' \in ExecutorType
      BY <1>2, RecordTypes DEF PassChecks, ExecutorPoints
    <2> QED BY <1>2, <2>1, <1>b, <1>a DEF PassChecks, TypeOK, DriverTypeOK
  <1>3. ASSUME NEW g \in Goals, Submit(g) PROVE TypeOK'
    <2>1. executor' \in ExecutorType
      BY <1>3, RecordTypes DEF Submit, ExecutorPoints
    <2>2. handle' \in [Goals -> HandleStates]
      BY <1>3 DEF Submit, TypeOK, HandleStates, Live
    <2> QED BY <1>3, <2>1, <2>2, <1>b, <1>a DEF Submit, TypeOK, DriverTypeOK
  <1>4. ASSUME NEW g \in Goals, StoreHandle(g) PROVE TypeOK'
    <2>1. executor' \in ExecutorType
      BY <1>4, RecordTypes DEF StoreHandle, ExecutorPoints
    <2> QED BY <1>4, <2>1, <1>b, <1>a DEF StoreHandle, TypeOK, DriverTypeOK
  <1>5. ASSUME NEW g \in Goals, HandOver(g) PROVE TypeOK'
    <2>1. inbox' \in Seq(Message)
      BY <1>5, Messages, OccursAppend DEF HandOver, PostGated, TypeOK, DriverTypeOK
    <2> QED BY <1>5, <2>1, <1>b, <1>a, RecordTypes DEF HandOver, TypeOK, DriverTypeOK
  <1>6. ASSUME NEW g \in Goals, FindToken(g) PROVE TypeOK'
    <2>1. executor' = [at |-> "canceling", goal |-> g, known |-> g \in handles]
      BY <1>6 DEF FindToken, Serve
    <2>2. executor' \in ExecutorType
      BY <2>1 DEF ExecutorType, ExecutorPoints
    <2> QED BY <1>6, <2>2, <1>b, <1>a DEF FindToken, TypeOK, DriverTypeOK
  <1>7. ASSUME NEW g \in Goals, CancelAtSink(g) PROVE TypeOK'
    <2>1. inbox' \in Seq(Message)
      <3>1. inbox' = Append(inbox, CancelMsg(g)) \/ inbox' = inbox
        BY <1>7 DEF CancelAtSink
      <3>2. inbox \in Seq(Message) /\ CancelMsg(g) \in Message
        BY Messages DEF TypeOK, DriverTypeOK
      <3> QED BY <3>1, <3>2, OccursAppend
    <2>2. executor.known \in BOOLEAN
      BY <1>a DEF ExecutorType
    <2>3. executor' \in ExecutorType
      BY <1>7, <2>2, RecordTypes DEF CancelAtSink, ExecutorPoints
    <2> QED BY <1>7, <2>1, <2>3, <1>b, <1>a DEF CancelAtSink, TypeOK, DriverTypeOK
  <1>8. ASSUME NEW g \in Goals, Acknowledge(g) PROVE TypeOK'
    <2>1. handle' \in [Goals -> HandleStates] /\ ackedCancel' \subseteq Goals
      BY <1>8 DEF Acknowledge, TypeOK, HandleStates, Live
    <2> QED BY <1>8, <2>1, <1>b, <1>a, RecordTypes
        DEF Acknowledge, TypeOK, DriverTypeOK
  <1>9. CASE Drain
    <2>1. /\ inbox' \in Seq(Message) /\ Head(inbox) \in Message
      BY <1>9, OccursTail DEF Drain, TypeOK, DriverTypeOK
    <2>2. active' \in Goals \cup {NoGoal} /\ settling' \in SettlingType
      BY <1>9, <1>a, <2>1, Messages, RecordTypes
      DEF Drain, TakeGoal, StopActive, TypeOK, DriverTypeOK, Codes
    <2> QED BY <1>9, <2>1, <2>2, <1>b, <1>a DEF Drain, TypeOK, DriverTypeOK
  <1>10. CASE LookUp
    <2>1. settling' \in SettlingType
      BY <1>10, <1>a, RecordTypes DEF LookUp, SettlingType, SettlePoints
    <2> QED BY <1>10, <2>1, <1>b, <1>a DEF LookUp, TypeOK, DriverTypeOK
  <1>11. CASE Decide
    <2>1. settling' \in SettlingType
      BY <1>11, <1>a DEF Decide, ChosenCall, SettlingType, SettlePoints, TerminalCalls
    <2> QED BY <1>11, <2>1, <1>b, <1>a DEF Decide, TypeOK, DriverTypeOK
  <1>12. CASE End
    <2>1. settling.goal \in Goals /\ settling.code \in Codes
      BY <1>12, <1>a DEF End, ThreadsInv, SettlingType
    <2>2. \A call : EndState(call) \in HandleStates
      BY DEF EndState, HandleStates, Ended
    <2>3. /\ handle' \in [Goals -> HandleStates] /\ threw' \subseteq Goals
          /\ result' \in [Goals -> Codes \cup {"none"}]
      BY <1>12, <2>1, <2>2 DEF End, TypeOK
    <2> QED BY <1>12, <2>3, <1>b, <1>a, RecordTypes DEF End, TypeOK, DriverTypeOK
  <1>13. CASE FinishMotion
    <2>1. active' \in Goals \cup {NoGoal} /\ settling' \in SettlingType
      BY <1>13, RecordTypes DEF FinishMotion, StopActive, TypeOK, DriverTypeOK, Codes
    <2> QED BY <1>13, <2>1, <1>b, <1>a DEF FinishMotion, TypeOK, DriverTypeOK
  <1>14. CASE Environment
    BY <1>14, <1>a, <1>b, EnvironmentStep DEF TypeOK
  <1>15. CASE UNCHANGED vars
    BY <1>15 DEF vars, TypeOK, DriverTypeOK
  <1> QED
    BY NextCases, <1>1, <1>2, <1>3, <1>4, <1>5, <1>6, <1>7, <1>8, <1>9, <1>10,
       <1>11, <1>12, <1>13, <1>14, <1>15

-----------------------------------------------------------------------------
(* The inductive invariant.                                                *)

LEMMA InitIInv == Init => IInv
  <1> SUFFICES ASSUME Init PROVE IInv
    OBVIOUS
  <1>1. TypeOK
    BY InitTypeOK
  <1>2. \A m : ~Occurs(m, inbox) /\ AtMostOnce(m, inbox)
    BY DEF Init, DriverInit, Occurs, AtMostOnce
  <1>3. NoTerminalThrow /\ ThreadsInv /\ DriverGoalsKnown
    BY <1>2 DEF Init, DriverInit, NoTerminalThrow, ThreadsInv, DriverGoalsKnown,
       NotSettling, Idle, Posted
  <1>4. ASSUME NEW h \in Goals
        PROVE  RequestInv(h) /\ DriverInv(h) /\ CancelInv(h) /\ OwedInv(h)
    BY <1>2 DEF Init, DriverInit, NotSettling, Idle, RequestInv, DriverInv,
       CancelInv, CancelTold, OwedInv, HeldByRequest, HeldByDriver, Posted, Live
  <1> QED BY <1>1, <1>3, <1>4 DEF IInv

LEMMA NextIInv == IInv /\ [Next]_vars => IInv'
  <1> SUFFICES ASSUME IInv, [Next]_vars PROVE IInv'
    OBVIOUS
  <1>a. /\ TypeOK /\ NoTerminalThrow /\ ThreadsInv /\ DriverGoalsKnown
        /\ \A h \in Goals :
             RequestInv(h) /\ DriverInv(h) /\ CancelInv(h) /\ OwedInv(h)
    BY DEF IInv
  <1>b. TypeOK'
    BY <1>a, NextTypeOK
  <1>c. inbox \in Seq(Message)
    BY <1>a DEF TypeOK, DriverTypeOK
  <1> DEFINE Rest == /\ NoTerminalThrow /\ ThreadsInv /\ DriverGoalsKnown
                     /\ \A h \in Goals : /\ RequestInv(h) /\ DriverInv(h)
                                         /\ CancelInv(h) /\ OwedInv(h)
  <1> USE DEF NoTerminalThrow, ThreadsInv, DriverGoalsKnown, RequestInv,
        DriverInv, CancelInv, CancelTold, OwedInv, HeldByRequest, HeldByDriver,
        Posted, Live, Ended, driverVars, clientVars, histVars, Serve, Idle
  <1>1. ASSUME NEW g \in Goals, RejectGoal(g) PROVE Rest'
    BY <1>a, <1>1 DEF RejectGoal, TypeOK
  <1>2. ASSUME NEW g \in Goals, PassChecks(g) PROVE Rest'
    BY <1>a, <1>2 DEF PassChecks, TypeOK
  <1>3. ASSUME NEW g \in Goals, Submit(g) PROVE Rest'
    BY <1>a, <1>3 DEF Submit, TypeOK
  <1>4. ASSUME NEW g \in Goals, StoreHandle(g) PROVE Rest'
    BY <1>a, <1>4 DEF StoreHandle, TypeOK
  <1>5. ASSUME NEW g \in Goals, HandOver(g) PROVE Rest'
    <2>1. GoalMsg(g) \in Message
      BY Messages
    <2>2. ASSUME inbox' = Append(inbox, GoalMsg(g)) PROVE Rest'
      <3>1. \A h \in Goals : Occurs(GoalMsg(h), inbox') <=>
                                 Occurs(GoalMsg(h), inbox) \/ h = g
        BY <1>c, <2>1, <2>2, Messages, OccursAppend
      <3>2. \A h \in Goals : AtMostOnce(GoalMsg(h), inbox) /\ (h = g => ~Posted(g))
              => AtMostOnce(GoalMsg(h), inbox')
        BY <1>c, <2>1, <2>2, Messages, AtMostOnceAppend
      <3>3. \A h \in Goals \ {g} : StopAhead(h, inbox) => StopAhead(h, inbox')
        BY <1>c, <2>1, <2>2, Messages, StopAheadAppend
      <3> QED BY <1>a, <1>5, <3>1, <3>2, <3>3 DEF HandOver, PostGated, TypeOK
    <2>3. ASSUME inbox' = inbox, token[g] \notin admits PROVE Rest'
      BY <1>a, <1>5, <2>3 DEF HandOver, TypeOK
    <2> QED BY <1>5, <2>2, <2>3 DEF HandOver, PostGated
  <1>6. ASSUME NEW g \in Goals, FindToken(g) PROVE Rest'
    BY <1>a, <1>6 DEF FindToken, TypeOK
  <1>7. ASSUME NEW g \in Goals, CancelAtSink(g) PROVE Rest'
    <2>1. CancelMsg(g) \in Message
      BY Messages
    <2>2. ASSUME inbox' = Append(inbox, CancelMsg(g)) PROVE Rest'
      <3>1. \A h \in Goals : Occurs(GoalMsg(h), inbox') <=> Occurs(GoalMsg(h), inbox)
        BY <1>c, <2>1, <2>2, Messages, OccursAppend
      <3>2. \A h \in Goals : AtMostOnce(GoalMsg(h), inbox)
                              => AtMostOnce(GoalMsg(h), inbox')
        BY <1>c, <2>1, <2>2, Messages, AtMostOnceAppend
      <3>3. \A h \in Goals : StopAhead(h, inbox) => StopAhead(h, inbox')
        BY <1>c, <2>1, <2>2, Messages, StopAheadAppend
      <3>4. StopAhead(g, inbox')
        BY <1>c, <2>1, <2>2, Messages, StopAheadAppend
      <3> QED BY <1>a, <1>7, <3>1, <3>2, <3>3, <3>4 DEF CancelAtSink, TypeOK
    <2>3. ASSUME inbox' = inbox, executor' = Idle PROVE Rest'
      BY <1>a, <1>7, <2>3 DEF CancelAtSink, TypeOK
    <2> QED BY <1>7, <2>2, <2>3 DEF CancelAtSink
  <1>8. ASSUME NEW g \in Goals, Acknowledge(g) PROVE Rest'
    BY <1>a, <1>8 DEF Acknowledge, TypeOK
  <1>9. ASSUME Drain PROVE Rest'
    <2>1. /\ inbox # <<>> /\ inbox' = Tail(inbox) /\ settling.goal = NoGoal
          /\ UNCHANGED <<clientVars, histVars, handles, executor>>
          /\ Head(inbox) \in Message
      BY <1>9, <1>a, <1>c, OccursTail DEF Drain
    <2>2. \A h \in Goals :
            /\ Occurs(GoalMsg(h), inbox') => Occurs(GoalMsg(h), inbox)
            /\ Occurs(GoalMsg(h), inbox) =>
                 GoalMsg(h) = Head(inbox) \/ Occurs(GoalMsg(h), inbox')
            /\ AtMostOnce(GoalMsg(h), inbox) => AtMostOnce(GoalMsg(h), inbox')
            /\ AtMostOnce(GoalMsg(h), inbox) /\ GoalMsg(h) = Head(inbox) =>
                 ~Occurs(GoalMsg(h), inbox')
            /\ Occurs(Head(inbox), inbox)
      BY <1>c, <2>1, OccursTail
    <2>3. \A h \in Goals :
            /\ StopAhead(h, inbox)
            /\ \/ Head(inbox) # CancelMsg(h) /\ Head(inbox).kind # "halt"
               \/ Occurs(GoalMsg(h), inbox)
            => StopAhead(h, inbox')
      BY <1>c, <2>1, StopAheadTail
    <2>4. CASE Head(inbox).kind = "goal"
      <3>1. PICK g \in Goals : Head(inbox) = GoalMsg(g) /\ Head(inbox).goal = g
        BY <2>1, <2>4, Messages
      <3>2. \A h \in Goals : GoalMsg(h) = Head(inbox) => h = g
        BY <3>1, Messages
      <3>3. \A h \in Goals : StopAhead(h, inbox) => StopAhead(h, inbox')
        BY <2>3, <2>4, <3>1, Messages
      <3>4. TakeGoal(g)
        BY <1>9, <2>4, <3>1 DEF Drain
      <3> QED BY <1>a, <2>1, <2>2, <3>1, <3>2, <3>3, <3>4
          DEF TakeGoal, BeginSettle, TypeOK, DriverTypeOK
    <2>5. CASE Head(inbox).kind = "cancel"
      <3>1. PICK g \in Goals : Head(inbox) = CancelMsg(g) /\ Head(inbox).goal = g
        BY <2>1, <2>5, Messages
      <3>2. \A h \in Goals : /\ GoalMsg(h) # Head(inbox)
                             /\ CancelMsg(h) = Head(inbox) => h = g
        BY <3>1, Messages DEF CancelMsg
      <3>3. \/ active = g /\ StopActive("Preempted")
            \/ active # g /\ UNCHANGED <<active, settling>>
        BY <1>9, <2>5, <3>1 DEF Drain
      <3> QED BY <1>a, <2>1, <2>2, <2>3, <2>5, <3>1, <3>2, <3>3
          DEF StopActive, BeginSettle, TypeOK, DriverTypeOK
    <2>6. CASE Head(inbox).kind = "halt"
      <3>1. \A h \in Goals : GoalMsg(h) # Head(inbox)
        BY <2>6 DEF GoalMsg
      <3>2. \/ active # NoGoal /\ StopActive(Head(inbox).code)
            \/ active = NoGoal /\ UNCHANGED <<active, settling>>
        BY <1>9, <2>6 DEF Drain
      <3> QED BY <1>a, <2>1, <2>2, <2>3, <3>1, <3>2
          DEF StopActive, BeginSettle, TypeOK, DriverTypeOK
    <2> QED BY <1>9, <2>4, <2>5, <2>6 DEF Drain
  <1>10. ASSUME LookUp PROVE Rest'
    BY <1>a, <1>10 DEF LookUp, NotSettling, TypeOK
  <1>11. ASSUME Decide PROVE Rest'
    BY <1>a, <1>11 DEF Decide, ChosenCall, TypeOK
  <1>12. ASSUME End PROVE Rest'
    BY <1>a, <1>12 DEF End, NotSettling, LegalCall, EndState, TypeOK
  <1>13. ASSUME FinishMotion PROVE Rest'
    BY <1>a, <1>13 DEF FinishMotion, StopActive, BeginSettle, TypeOK, DriverTypeOK
  <1>14. ASSUME Environment PROVE Rest'
    <2>1. /\ active' = active
          /\ UNCHANGED <<clientVars, histVars, handles, executor, settling>>
      BY <1>a, <1>14, EnvironmentStep
    <2>2. \A h \in Goals :
            /\ Occurs(GoalMsg(h), inbox') <=> Occurs(GoalMsg(h), inbox)
            /\ AtMostOnce(GoalMsg(h), inbox) => AtMostOnce(GoalMsg(h), inbox')
            /\ StopAhead(h, inbox) => StopAhead(h, inbox')
      <3> SUFFICES ASSUME NEW h \in Goals, NEW c \in {"Halted", "ContactStop"},
                          inbox' = Append(inbox, HaltMsg(c))
                   PROVE  /\ Occurs(GoalMsg(h), inbox') <=> Occurs(GoalMsg(h), inbox)
                          /\ AtMostOnce(GoalMsg(h), inbox)
                               => AtMostOnce(GoalMsg(h), inbox')
                          /\ StopAhead(h, inbox) => StopAhead(h, inbox')
        BY <1>a, <1>14, EnvironmentStep
      <3>1. HaltMsg(c) \in Message /\ GoalMsg(h) # HaltMsg(c)
        BY Messages
      <3> QED BY <1>c, <3>1, OccursAppend, AtMostOnceAppend, StopAheadAppend
    <2> QED BY <1>a, <2>1, <2>2
  <1>15. ASSUME UNCHANGED vars PROVE Rest'
    BY <1>a, <1>15 DEF vars
  <1> HIDE DEF Rest
  <1>d. Rest'
    BY NextCases, <1>1, <1>2, <1>3, <1>4, <1>5, <1>6, <1>7, <1>8, <1>9, <1>10,
       <1>11, <1>12, <1>13, <1>14, <1>15
  <1> QED BY <1>b, <1>d DEF IInv, Rest

\* The strengthened invariant holds in every reachable state.
THEOREM Inductive == Spec => []IInv
  BY InitIInv, NextIInv, PTL DEF Spec

-----------------------------------------------------------------------------
(* What follows from it.                                                   *)

\* Every variable always has its type.
THEOREM TypeCorrect == Spec => []TypeOK
  BY Inductive, PTL DEF IInv

\* The catch in settle() is dead: no handle gets an illegal terminal call.
THEOREM NeverThrows == Spec => []NoTerminalThrow
  BY Inductive, PTL DEF IInv

\* Exactly one of the request that accepted a live goal and the driver owes
\* it its result.
THEOREM OneSettler == Spec => []ExactlyOneSettler
  <1>1. IInv => ExactlyOneSettler
    BY DEF IInv, ExactlyOneSettler, RequestInv, DriverInv, OwedInv, HeldByRequest,
           Live
  <1> QED BY <1>1, Inductive, PTL

\* The driver's goals have their entry, and with it the token to replay.
THEOREM GoalsKnown == Spec => []DriverGoalsKnown
  BY Inductive, PTL DEF IInv

\* A goal whose cancel was acknowledged never runs past it.
THEOREM CancelsPursued == Spec => []AckedCancelPursued
  <1>1. IInv => AckedCancelPursued
    <2> SUFFICES ASSUME IInv, NEW g \in ackedCancel, Posted(g) \/ active = g
                 PROVE  StopAhead(g, inbox)
      BY DEF AckedCancelPursued
    <2>1. g \in Goals
      BY DEF IInv, TypeOK
    <2> QED BY <2>1 DEF IInv, CancelInv, CancelTold
  <1> QED BY <1>1, Inductive, PTL

-----------------------------------------------------------------------------
(* How an acknowledged cancel comes to end its goal.                       *)

WithDriver(g) == Posted(g) \/ active = g

\* What a step may do to a goal the driver has, and to the stop ahead of it.
Nears(g, n) ==
  \/ /\ WithDriver(g)' /\ StopWithin(g, inbox', n)
     /\ Drain => n > 0 /\ StopWithin(g, inbox', n - 1)
  \/ settling'.goal = g

LEMMA DrainNears ==
  ASSUME IInv, Drain, NEW h \in Goals, NEW n \in Nat,
         WithDriver(h), StopWithin(h, inbox, n)
  PROVE  Nears(h, n)
  <1>a. TypeOK /\ DriverInv(h) /\ inbox \in Seq(Message) /\ h # NoGoal
    BY DEF IInv, TypeOK, DriverTypeOK
  <1>b. inbox # <<>> /\ inbox' = Tail(inbox) /\ Head(inbox) \in Message
    BY <1>a, OccursTail DEF Drain
  <1>c. /\ Occurs(GoalMsg(h), inbox) =>
             GoalMsg(h) = Head(inbox) \/ Occurs(GoalMsg(h), inbox')
        /\ Occurs(GoalMsg(h), inbox') => Occurs(GoalMsg(h), inbox)
    BY <1>a, <1>b, OccursTail
  <1> USE DEF Nears, WithDriver, Posted
  <1>1. ASSUME WithDriver(h)',
               \/ Head(inbox) # CancelMsg(h) /\ Head(inbox).kind # "halt"
               \/ Occurs(GoalMsg(h), inbox)
        PROVE  Nears(h, n)
    BY <1>a, <1>b, <1>1, StopWithinTail
  <1>2. CASE Head(inbox).kind = "goal"
    <2>1. PICK g \in Goals : Head(inbox) = GoalMsg(g) /\ Head(inbox).goal = g
      BY <1>b, <1>2, Messages
    <2>2. TakeGoal(g)
      BY <1>2, <2>1 DEF Drain
    <2>3. Head(inbox) # CancelMsg(h) /\ Head(inbox).kind # "halt"
      BY <1>2 DEF CancelMsg
    <2>4. GoalMsg(h) = Head(inbox) => h = g
      BY <2>1, Messages
    <2>5. settling'.goal = h \/ WithDriver(h)'
      BY <1>a, <1>c, <2>2, <2>4 DEF TakeGoal, BeginSettle
    <2> QED BY <1>1, <2>3, <2>5
  <1>3. CASE Head(inbox).kind = "cancel"
    <2>1. PICK g \in Goals : Head(inbox) = CancelMsg(g) /\ Head(inbox).goal = g
      BY <1>b, <1>3, Messages
    <2>2. \/ active = g /\ StopActive("Preempted")
          \/ active # g /\ UNCHANGED <<active, settling>>
      BY <1>3, <2>1 DEF Drain
    <2>3. GoalMsg(h) # Head(inbox) /\ (CancelMsg(h) = Head(inbox) => h = g)
      BY <2>1, Messages DEF CancelMsg
    <2>4. settling'.goal = h \/ WithDriver(h)'
      BY <1>c, <2>2, <2>3 DEF StopActive, BeginSettle
    <2>5. settling'.goal = h \/ Occurs(GoalMsg(h), inbox) \/ CancelMsg(h) # Head(inbox)
      BY <2>2, <2>3 DEF StopActive, BeginSettle
    <2> QED BY <1>1, <1>3, <2>4, <2>5
  <1>4. CASE Head(inbox).kind = "halt"
    <2>1. GoalMsg(h) # Head(inbox)
      BY <1>4 DEF GoalMsg
    <2>2. \/ active # NoGoal /\ StopActive(Head(inbox).code)
          \/ active = NoGoal /\ UNCHANGED <<active, settling>>
      BY <1>4 DEF Drain
    <2>3. settling'.goal = h \/ Occurs(GoalMsg(h), inbox)
      BY <1>a, <2>2 DEF StopActive, BeginSettle
    <2> QED BY <1>1, <1>c, <2>1, <2>3
  <1> QED BY <1>2, <1>3, <1>4 DEF Drain

\* No step takes the stop farther from a goal the driver has, and each message
\* the sampler drains brings it nearer, until the goal is being settled: with
\* the sampler's fairness and StopWithinLength this is why AckedCancelEnds.
THEOREM CancelsNear ==
  Spec => [][\A g \in Goals : \A n \in Nat :
               WithDriver(g) /\ StopWithin(g, inbox, n) => Nears(g, n)]_vars
  <1>1. IInv /\ [Next]_vars =>
          [\A g \in Goals : \A n \in Nat :
             WithDriver(g) /\ StopWithin(g, inbox, n) => Nears(g, n)]_vars
    <2> SUFFICES ASSUME IInv, Next, NEW h \in Goals, NEW n \in Nat,
                        WithDriver(h), StopWithin(h, inbox, n)
                 PROVE  Nears(h, n)
      OBVIOUS
    <2>a. TypeOK /\ RequestInv(h) /\ inbox \in Seq(Message)
      BY DEF IInv, TypeOK, DriverTypeOK
    <2> USE DEF Nears, WithDriver, Posted
    <2>1. ASSUME UNCHANGED active, ~Drain,
                 \/ inbox' = inbox
                 \/ \E e \in Message : e # GoalMsg(h) /\ inbox' = Append(inbox, e)
          PROVE  Nears(h, n)
      <3>1. CASE inbox' = inbox
        BY <2>1, <3>1
      <3>2. ASSUME NEW e \in Message, e # GoalMsg(h), inbox' = Append(inbox, e)
            PROVE  Nears(h, n)
        <4>1. StopWithin(h, inbox', n)
          BY <2>a, <3>2, StopWithinAppend
        <4>2. Occurs(GoalMsg(h), inbox) => Occurs(GoalMsg(h), inbox')
          BY <2>a, <3>2, OccursAppend
        <4> QED BY <2>1, <4>1, <4>2
      <3> QED BY <2>1, <3>1, <3>2
    <2>2. CASE Drain
      BY <2>2, DrainNears
    <2>3. ASSUME NEW g \in Goals, HandOver(g), ~Drain PROVE Nears(h, n)
      <3>1. g # h
        BY <2>a, <2>3 DEF HandOver, RequestInv, HeldByRequest, HeldByDriver
      <3> QED BY <2>1, <2>3, <3>1, Messages DEF HandOver, PostGated
    <2>4. ASSUME NEW g \in Goals, CancelAtSink(g), ~Drain PROVE Nears(h, n)
      BY <2>1, <2>4, Messages DEF CancelAtSink
    <2>5. ASSUME Environment, ~Drain PROVE Nears(h, n)
      BY <2>1, <2>5, <2>a, EnvironmentStep, Messages
    <2>6. ASSUME FinishMotion, ~Drain PROVE Nears(h, n)
      BY <2>1, <2>6 DEF FinishMotion, StopActive, BeginSettle
    <2>7. ASSUME ~Drain, \/ LookUp \/ Decide \/ End
                         \/ \E g \in Goals :
                              \/ RejectGoal(g) \/ PassChecks(g) \/ Submit(g)
                              \/ StoreHandle(g) \/ FindToken(g) \/ Acknowledge(g)
          PROVE  Nears(h, n)
      <3>1. UNCHANGED <<inbox, active>>
        BY <2>7 DEF LookUp, Decide, End, RejectGoal, PassChecks, Submit, StoreHandle,
           FindToken, Acknowledge, driverVars
      <3> QED BY <2>1, <2>7, <3>1
    <2> QED BY NextCases, <2>2, <2>3, <2>4, <2>5, <2>6, <2>7
  <1> QED BY <1>1, Inductive, PTL DEF Spec

-----------------------------------------------------------------------------
(* The server implements the contract its clients rely on.                 *)

LEMMA ContractStep == IInv /\ [Next]_vars => [Contract!Next]_(Contract!contractVars)
  <1> SUFFICES ASSUME IInv, [Next]_vars PROVE [Contract!Next]_(Contract!contractVars)
    OBVIOUS
  <1>a. TypeOK /\ ThreadsInv /\ \A h \in Goals : RequestInv(h) /\ DriverInv(h)
    BY DEF IInv
  <1> USE DEF Contract!contractVars, clientVars
  <1>1. ASSUME NEW g \in Goals, RejectGoal(g) PROVE Contract!Next
    BY <1>1 DEF RejectGoal, Contract!Next, Contract!Reject
  <1>2. ASSUME NEW g \in Goals, Submit(g) PROVE Contract!Next
    <2>1. handle[g] = "none"
      BY <1>a, <1>2 DEF Submit, RequestInv
    <2> QED BY <1>2, <2>1 DEF Submit, Contract!Next, Contract!Accept, Contract!Reject
  <1>3. ASSUME NEW g \in Goals, Acknowledge(g)
        PROVE  [Contract!Next]_(Contract!contractVars)
    BY <1>3 DEF Acknowledge, Contract!Next, Contract!AckCancel
  <1>4. ASSUME End PROVE Contract!Next
    <2> DEFINE g == settling.goal
    <2>1. /\ g \in Goals /\ settling.code \in Codes
          /\ settling.call \in TerminalCalls
      BY <1>a, <1>4 DEF End, ThreadsInv, TypeOK
    <2>2. /\ handle[g] \in Live
          /\ settling.call = "canceled" => handle[g] = "canceling"
          /\ settling.call = "succeed" => settling.code = "Successful"
          /\ settling.call = "abort" => settling.code # "Successful"
      BY <1>a, <1>4, <2>1 DEF End, DriverInv, HeldByDriver
    <2>3. LegalCall(handle[g], settling.call)
      BY <2>2 DEF LegalCall, Live
    <2>4. /\ handle' = [handle EXCEPT ![g] = EndState(settling.call)]
          /\ result' = [result EXCEPT ![g] = settling.code]
          /\ UNCHANGED ackedCancel
      BY <1>4, <2>3 DEF End
    <2>5. Contract!Finish(g, EndState(settling.call), settling.code)
      BY <2>1, <2>2, <2>4
      DEF Contract!Finish, Contract!Running, EndState, Live, TerminalCalls
    <2>6. EndState(settling.call) \in {"succeeded", "aborted", "canceled"}
      BY DEF EndState
    <2> QED BY <2>1, <2>5, <2>6 DEF Contract!Next, Contract!End
  <1>5. ASSUME NEW g \in Goals,
               \/ PassChecks(g) \/ StoreHandle(g) \/ HandOver(g)
               \/ FindToken(g) \/ CancelAtSink(g)
        PROVE  UNCHANGED Contract!contractVars
    BY <1>5 DEF PassChecks, StoreHandle, HandOver, FindToken, CancelAtSink
  <1>6. ASSUME \/ Drain \/ LookUp \/ Decide \/ FinishMotion \/ Environment
               \/ UNCHANGED vars
        PROVE  UNCHANGED Contract!contractVars
    BY <1>6 DEF Drain, LookUp, Decide, FinishMotion, Environment, vars
  <1> QED BY NextCases, <1>1, <1>2, <1>3, <1>4, <1>5, <1>6

\* execute_joint_trajectory keeps the contract of an action of this node,
\* whatever the interleaving.
THEOREM Refinement == Spec => ImplementsContract
  <1>1. Init => Contract!Init
    BY DEF Init, Contract!Init
  <1> QED
    BY <1>1, ContractStep, Inductive, PTL
    DEF Spec, ImplementsContract, Contract!SafeSpec
-----------------------------------------------------------------------------
(* Why a goal may be orphaned: its authority went while it was handed over. *)

\* No authority is taken away from a goal the driver has accepted and not been
\* handed yet.
AuthorityKept ==
  [][ChangeAuthority =>
       \A g \in Goals : HeldByRequest(g) => token[g] \in admits']_vars

\* Nobody's handover is refused, because a token once admitted stays so.
HandOverInv ==
  /\ unhanded = {}
  /\ \A g \in Goals : HeldByRequest(g) => token[g] \in admits

\* Every goal a client waits on is still owed its result by somebody.
NoOrphans ==
  \A g \in Goals : handle[g] \in Live => HeldByRequest(g) \/ HeldByDriver(g)

\* A goal on its way to the driver was accepted by it and stays admitted.
LEMMA HandOverKept ==
  ASSUME IInv, [Next]_vars, HandOverInv,
         [ChangeAuthority =>
            \A g \in Goals : HeldByRequest(g) => token[g] \in admits']_vars
  PROVE  HandOverInv'
  <1>a. TypeOK /\ disturbances \in Nat
    BY DEF IInv, TypeOK, DriverTypeOK
  <1> USE DEF HandOverInv, HeldByRequest, histVars, driverVars, Serve, Idle
  <1>1. ASSUME NEW g \in Goals,
               \/ RejectGoal(g) \/ PassChecks(g) \/ StoreHandle(g) \/ HandOver(g)
               \/ FindToken(g) \/ CancelAtSink(g) \/ Acknowledge(g)
        PROVE  HandOverInv'
    BY <1>1 DEF RejectGoal, PassChecks, StoreHandle, HandOver, FindToken, CancelAtSink,
       Acknowledge
  <1>2. ASSUME NEW g \in Goals, Submit(g) PROVE HandOverInv'
    <2>1. /\ unhanded' = unhanded /\ admits' = admits /\ token' = token
          /\ \/ Serve("storing", g, FALSE) /\ token[g] \in admits
             \/ executor' = Idle
      BY <1>2 DEF Submit, GoalResponses
    <2> QED BY <2>1
  <1>3. ASSUME Drain \/ LookUp \/ Decide \/ End \/ FinishMotion \/ UNCHANGED vars
        PROVE  HandOverInv'
    BY <1>3 DEF Drain, LookUp, Decide, End, FinishMotion, vars
  <1>4. ASSUME Environment PROVE HandOverInv'
    <2>1. CASE ChangeAuthority
      <3>1. disturbances' # disturbances
        BY <1>a, <2>1 DEF ChangeAuthority
      <3>2. \A g \in Goals : HeldByRequest(g) => token[g] \in admits'
        BY <2>1, <3>1 DEF vars
      <3> QED BY <1>4, <3>2 DEF Environment
    <2>2. CASE LatchContact \/ ClearContact
      BY <1>4, <2>2 DEF Environment, LatchContact, ClearContact
    <2> QED BY <1>4, <2>1, <2>2 DEF Environment
  <1> QED BY NextCases, <1>1, <1>2, <1>3, <1>4

\* The handover whose authority is gone is the only way to orphan a goal: with
\* none refused on its way, every live goal is with its request or the driver,
\* so that ExactlyOneSettler holds of it without exception.
THEOREM OnlyRefusedHandoversOrphan == Spec /\ AuthorityKept => []NoOrphans
  <1>1. Init => HandOverInv
    BY DEF Init, HandOverInv, HeldByRequest, Idle
  <1>2. IInv /\ HandOverInv /\ [Next]_vars
          /\ [ChangeAuthority =>
                \A g \in Goals : HeldByRequest(g) => token[g] \in admits']_vars
        => HandOverInv'
    BY HandOverKept
  <1>3. IInv /\ HandOverInv => NoOrphans
    BY DEF IInv, OwedInv, HandOverInv, NoOrphans
  <1> QED BY <1>1, <1>2, <1>3, Inductive, PTL DEF Spec, AuthorityKept

\* A goal that was rejected or has ended stays so and keeps its result: no
\* later call of settle(), late cancel or late answer of the driver ever
\* revises what its client was told.
THEOREM ResultsAreFinal ==
  Spec => [][\A g \in Goals :
               handle[g] \in Ended \cup {"rejected"} =>
                 handle'[g] = handle[g] /\ result'[g] = result[g]]_vars
  <1> DEFINE Final == \A g \in Goals :
                        handle[g] \in Ended \cup {"rejected"} =>
                          handle'[g] = handle[g] /\ result'[g] = result[g]
  <1>1. ASSUME TypeOK, Contract!Next PROVE Final
    <2> SUFFICES ASSUME NEW g \in Goals, handle[g] \in Ended \cup {"rejected"}
                 PROVE  handle'[g] = handle[g] /\ result'[g] = result[g]
      OBVIOUS
    <2>1. PICK h \in Goals : \/ Contract!Reject(h) \/ Contract!Accept(h)
                             \/ Contract!AckCancel(h) \/ Contract!End(h)
      BY <1>1 DEF Contract!Next
    <2>2. g # h
      BY <2>1 DEF Contract!Reject, Contract!Accept, Contract!AckCancel, Contract!End,
         Contract!Finish, Contract!Running, Ended
    <2> QED
      BY <1>1, <2>1, <2>2 DEF TypeOK, Contract!Reject, Contract!Accept,
         Contract!AckCancel, Contract!End, Contract!Finish
  <1>2. IInv /\ [Next]_vars => [Final]_vars
    BY <1>1, ContractStep DEF IInv, Contract!contractVars
  <1> QED BY <1>2, Inductive, PTL DEF Spec
=============================================================================
