---------------------- MODULE PlannedMoveServerProofs ----------------------
(***************************************************************************)
(* Proofs about PlannedMoveServer for every set of goals and tokens, both  *)
(* arbitration modes and any number of disturbances.                       *)
(***************************************************************************)
EXTENDS PlannedMoveServer, DriverProofs

USE DriverAssumption

-----------------------------------------------------------------------------
(* The next-state relation, one disjunct per action.                       *)

\* Next as a flat disjunction, for proofs that take one action at a time.
LEMMA NextCases ==
  ASSUME Next
  PROVE  \/ \E g \in Goals :
              \/ RejectGoal(g)
              \/ AcceptGoal(g)
              \/ HandleAccepted(g)
              \/ Submit(g)
              \/ MarkExecuting(g)
              \/ RegisterOwner(g)
              \/ HandOver(g)
              \/ RereadCancel(g)
              \/ ReissueCancel(g)
              \/ DecideLocal(g)
              \/ EndLocal(g)
              \/ Erase(g)
              \/ HandleCancel(g)
              \/ CancelAtDriver(g)
              \/ CancelAtPlanner(g)
              \/ CancelTransition(g)
              \/ \E usable \in BOOLEAN : PlanDone(g, usable)
         \/ DrainGoal
         \/ DrainCancel
         \/ DrainHalt
         \/ Route
         \/ LookUp
         \/ Decide
         \/ End
         \/ FinishMotion
         \/ Environment
  BY DEF Next, PlanCallback, CancelThread, Sampler, Drain

-----------------------------------------------------------------------------
(* Type correctness.                                                       *)

\* A terminal call leaves a handle in a final state and nowhere else.
LEMMA EndStates == \A call : EndState(call) \in Ended
  BY DEF EndState, Ended

\* terminal() keeps the types of what its client sees.
LEMMA TerminalCallType ==
  ASSUME TypeOK, NEW g \in Goals, NEW e, e.code \in Codes, TerminalCall(g, e)
  PROVE  /\ handle' \in [Goals -> HandleStates]
         /\ result' \in [Goals -> Codes \cup {"none"}]
         /\ ackedCancel' = ackedCancel
         /\ threw' \subseteq Goals
  <1>1. CASE LegalCall(handle[g], e.call)
    <2>1. EndState(e.call) \in HandleStates
      BY EndStates DEF HandleStates
    <2>2. /\ handle' = [handle EXCEPT ![g] = EndState(e.call)]
          /\ result' = [result EXCEPT ![g] = e.code]
          /\ threw' = threw /\ ackedCancel' = ackedCancel
      BY <1>1 DEF TerminalCall
    <2> QED BY <2>1, <2>2 DEF TypeOK
  <1>2. CASE ~LegalCall(handle[g], e.call)
    BY <1>2 DEF TypeOK, TerminalCall, clientVars
  <1> QED BY <1>1, <1>2

\* settle_local() keeps the types of what it writes.
LEMMA SettleLocalType ==
  ASSUME TypeOK, NEW g \in Goals, NEW code \in Codes, SettleLocal(g, code)
  PROVE  /\ pc' \in [Goals -> {"none", "accepted", "returned"} \cup PlanPoints]
         /\ ending' \in [Goals -> [code : Codes, call : TerminalCalls]]
  BY DEF TypeOK, SettleLocal, GoTo, PlanPoints, TerminalCalls

LEMMA InitTypeOK == Init => TypeOK
  <1> SUFFICES ASSUME Init PROVE TypeOK
    OBVIOUS
  <1>1. DriverTypeOK
    <2>1. <<>> \in Seq(Message) /\ 0 \in 0..MaxDisturbances
      OBVIOUS
    <2> QED BY <2>1 DEF Init, DriverInit, DriverTypeOK
  <1>2. NoEnding \in [code : Codes, call : TerminalCalls]
    BY DEF NoEnding, Codes, TerminalCalls
  <1>3. NotSettling \in [at : SettlePoints, goal : Goals \cup {NoGoal},
                         code : Codes, call : TerminalCalls]
    BY DEF NotSettling, Codes, TerminalCalls, SettlePoints
  <1> QED
    BY <1>1, <1>2, <1>3 DEF Init, TypeOK, HandleStates, CancelPoints, PlanPoints

LEMMA NextTypeOK == TypeOK /\ SettlingInv /\ [Next]_vars => TypeOK'
  <1> SUFFICES ASSUME TypeOK, SettlingInv, [Next]_vars PROVE TypeOK'
    OBVIOUS
  <1> USE DEF TypeOK, DriverTypeOK, driverVars, clientVars, entryVars, histVars
  <1>1. ASSUME NEW g \in Goals, RejectGoal(g) PROVE TypeOK'
    BY <1>1 DEF RejectGoal, HandleStates
  <1>2. ASSUME NEW g \in Goals, AcceptGoal(g) PROVE TypeOK'
    BY <1>2 DEF AcceptGoal, HandleStates, Live, GoTo
  <1>3. ASSUME NEW g \in Goals, HandleAccepted(g) PROVE TypeOK'
    BY <1>3 DEF HandleAccepted, GoTo, PlanPoints
  <1>4. ASSUME NEW g \in Goals, Submit(g) PROVE TypeOK'
    <2>1. CASE GoTo(g, "marking") /\ UNCHANGED ending
      BY <1>4, <2>1 DEF Submit, GoTo, PlanPoints
    <2>2. CASE \E code \in {"ContactStop", "InvalidGoal"} : SettleLocal(g, code)
      <3>1. PICK code \in {"ContactStop", "InvalidGoal"} : SettleLocal(g, code)
        BY <2>2
      <3> QED BY <1>4, <3>1, SettleLocalType DEF Submit, Codes
    <2> QED BY <1>4, <2>1, <2>2 DEF Submit
  <1>5. ASSUME NEW g \in Goals, MarkExecuting(g) PROVE TypeOK'
    BY <1>5 DEF MarkExecuting, GoTo, PlanPoints
  <1>6. ASSUME NEW g \in Goals, RegisterOwner(g) PROVE TypeOK'
    BY <1>6 DEF RegisterOwner, GoTo, PlanPoints
  <1>7. ASSUME NEW g \in Goals, HandOver(g) PROVE TypeOK'
    BY <1>7, Messages, OccursAppend DEF HandOver, GoTo, PlanPoints, PostGated
  <1>8. ASSUME NEW g \in Goals, RereadCancel(g) PROVE TypeOK'
    BY <1>8 DEF RereadCancel, GoTo, PlanPoints
  <1>9. ASSUME NEW g \in Goals, ReissueCancel(g) PROVE TypeOK'
    BY <1>9, Messages, OccursAppend DEF ReissueCancel, GoTo, PostGated
  <1>10. ASSUME NEW g \in Goals, DecideLocal(g) PROVE TypeOK'
    BY <1>10 DEF DecideLocal, GoTo, PlanPoints, ChosenCall, TerminalCalls
  <1>11. ASSUME NEW g \in Goals, EndLocal(g) PROVE TypeOK'
    BY <1>11, TerminalCallType DEF EndLocal, GoTo, PlanPoints, NoEnding, Codes, TerminalCalls
  <1>12. ASSUME NEW g \in Goals, Erase(g) PROVE TypeOK'
    BY <1>12 DEF Erase, GoTo, EraseEntry
  <1>13. ASSUME NEW g \in Goals, HandleCancel(g) PROVE TypeOK'
    BY <1>13 DEF HandleCancel, CancelPoints
  <1>14. ASSUME NEW g \in Goals, CancelAtDriver(g) PROVE TypeOK'
    BY <1>14, Messages, OccursAppend DEF CancelAtDriver, CancelPoints, PostGated
  <1>15. ASSUME NEW g \in Goals, CancelAtPlanner(g) PROVE TypeOK'
    BY <1>15 DEF CancelAtPlanner, CancelPoints
  <1>16. ASSUME NEW g \in Goals, CancelTransition(g) PROVE TypeOK'
    BY <1>16 DEF CancelTransition, CancelPoints, HandleStates, Live
  <1>17. ASSUME NEW g \in Goals, NEW usable \in BOOLEAN, PlanDone(g, usable)
         PROVE TypeOK'
    <2>1. pc' \in [Goals -> {"none", "accepted", "returned"} \cup PlanPoints]
          /\ ending' \in [Goals -> [code : Codes, call : TerminalCalls]]
      BY <1>17, SettleLocalType DEF PlanDone, GoTo, PlanPoints, Codes
    <2> QED BY <1>17, <2>1 DEF PlanDone
  <1>18. CASE DrainGoal
    BY <1>18, Messages, OccursTail DEF DrainGoal, PopInbox, BeginSettle, Codes, SettlePoints, TerminalCalls
  <1>19. CASE DrainCancel
    BY <1>19, Messages, OccursTail DEF DrainCancel, PopInbox, BeginSettle, Codes, SettlePoints, TerminalCalls
  <1>20. CASE DrainHalt
    BY <1>20, Messages, OccursTail DEF DrainHalt, PopInbox, BeginSettle, Codes, SettlePoints, TerminalCalls
  <1>21. CASE Route
    BY <1>21 DEF Route, NotSettling, SettlePoints, Codes, TerminalCalls
  <1>22. CASE LookUp
    BY <1>22 DEF LookUp, EraseEntry, NotSettling, SettlePoints, Codes, TerminalCalls
  <1>23. CASE Decide
    BY <1>23 DEF Decide, ChosenCall, TerminalCalls, SettlePoints
  <1>24. CASE End
    <2>1. settling.goal \in Goals /\ settling.code \in Codes
      BY <1>24 DEF SettlingInv, End, SettlePoints
    <2> QED BY <1>24, <2>1, TerminalCallType
        DEF End, NotSettling, SettlePoints, Codes, TerminalCalls
  <1>25. CASE FinishMotion
    BY <1>25 DEF FinishMotion, BeginSettle, Codes, SettlePoints, TerminalCalls
  <1>26. CASE Environment
    <2>1. CASE ChangeAuthority
      BY <1>26, <2>1, Messages, OccursAppend DEF Environment, ChangeAuthority
    <2>2. CASE LatchContact
      BY <1>26, <2>2, Messages, OccursAppend DEF Environment, LatchContact
    <2>3. CASE ClearContact
      BY <1>26, <2>3 DEF Environment, ClearContact
    <2> QED BY <1>26, <2>1, <2>2, <2>3 DEF Environment
  <1>27. CASE UNCHANGED vars
    BY <1>27 DEF vars
  <1> HIDE DEF TypeOK, DriverTypeOK, driverVars, clientVars, entryVars, histVars
  <1> QED
    BY NextCases, <1>1, <1>2, <1>3, <1>4, <1>5, <1>6, <1>7, <1>8, <1>9, <1>10, <1>11, <1>12, <1>13, <1>14, <1>15, <1>16, <1>17, <1>18, <1>19, <1>20, <1>21, <1>22, <1>23, <1>24, <1>25, <1>26, <1>27

-----------------------------------------------------------------------------
(* The inductive invariant.                                                *)

LEMMA InitIInv == Init => IInv
  <1> SUFFICES ASSUME Init PROVE IInv
    OBVIOUS
  <1>1. TypeOK
    BY InitTypeOK
  <1>2. NoTerminalThrow /\ SettlingInv
    BY DEF Init, NoTerminalThrow, SettlingInv, NotSettling
  <1>3. \A m : ~Occurs(m, inbox) /\ AtMostOnce(m, inbox)
    BY DEF Init, DriverInit, Occurs, AtMostOnce
  <1>4. ASSUME NEW h \in Goals PROVE CallbackInv(h) /\ DriverInv(h) /\ OwedInv(h)
    BY <1>3 DEF Init, DriverInit, NotSettling, NoEnding, CallbackInv, DriverInv, OwedInv,
       HeldByCallback, HeldByDriver, AwaitsRouting, Posted, Live, Ended
  <1> QED BY <1>1, <1>2, <1>3, <1>4 DEF IInv

LEMMA NextIInv == IInv /\ [Next]_vars => IInv'
  <1> SUFFICES ASSUME IInv, [Next]_vars PROVE IInv'
    OBVIOUS
  <1>a. TypeOK /\ NoTerminalThrow /\ SettlingInv
        /\ \A h \in Goals : CallbackInv(h) /\ DriverInv(h) /\ OwedInv(h)
    BY DEF IInv
  <1>b. TypeOK'
    BY <1>a, NextTypeOK
  <1> DEFINE Rest == /\ NoTerminalThrow /\ SettlingInv
                     /\ \A h \in Goals : CallbackInv(h) /\ DriverInv(h) /\ OwedInv(h)
  <1> USE DEF CallbackInv, DriverInv, ChosenInv, OwedInv, HeldByCallback, HeldByDriver,
        AwaitsRouting, Posted, Live, Ended, NoTerminalThrow, SettlingInv, TypeOK,
        driverVars, clientVars, entryVars, histVars, GoTo
  <1>1. ASSUME NEW g \in Goals, RejectGoal(g) PROVE Rest'
    BY <1>a, <1>1 DEF RejectGoal, HandleStates
  <1>2. ASSUME NEW g \in Goals, AcceptGoal(g) PROVE Rest'
    BY <1>a, <1>2 DEF AcceptGoal, HandleStates
  <1>3. ASSUME NEW g \in Goals, HandleAccepted(g) PROVE Rest'
    BY <1>a, <1>3 DEF HandleAccepted
  <1>4. ASSUME NEW g \in Goals, Submit(g) PROVE Rest'
    <2>1. (GoTo(g, "marking") /\ ending' = ending) \/ GoTo(g, "deciding")
      BY <1>4 DEF Submit, SettleLocal
    <2>2. pc[g] = "submitting" /\ \A h \in Goals \ {g} : ending'[h] = ending[h]
      BY <1>a, <1>4 DEF Submit, SettleLocal
    <2>3. UNCHANGED <<driverVars, clientVars, entryVars, histVars, owners, canceler, settling>>
      BY <1>4 DEF Submit
    <2> QED BY <1>a, <2>1, <2>2, <2>3
  <1>5. ASSUME NEW g \in Goals, MarkExecuting(g) PROVE Rest'
    BY <1>a, <1>5 DEF MarkExecuting
  <1>6. ASSUME NEW g \in Goals, RegisterOwner(g) PROVE Rest'
    BY <1>a, <1>6 DEF RegisterOwner
  <1>7. ASSUME NEW g \in Goals, HandOver(g) PROVE Rest'
    BY <1>a, <1>7, Messages, OccursAppend, AtMostOnceAppend DEF HandOver, PostGated, DriverTypeOK
  <1>8. ASSUME NEW g \in Goals, RereadCancel(g) PROVE Rest'
    BY <1>a, <1>8 DEF RereadCancel
  <1>9. ASSUME NEW g \in Goals, ReissueCancel(g) PROVE Rest'
    BY <1>a, <1>9, Messages, OccursAppend, AtMostOnceAppend DEF ReissueCancel, PostGated, DriverTypeOK
  <1>10. ASSUME NEW g \in Goals, DecideLocal(g) PROVE Rest'
    BY <1>a, <1>10 DEF DecideLocal, ChosenCall
  <1>11. ASSUME NEW g \in Goals, EndLocal(g) PROVE Rest'
    BY <1>a, <1>11 DEF EndLocal, TerminalCall, LegalCall, EndState
  <1>12. ASSUME NEW g \in Goals, Erase(g) PROVE Rest'
    BY <1>a, <1>12 DEF Erase, EraseEntry
  <1>13. ASSUME NEW g \in Goals, HandleCancel(g) PROVE Rest'
    BY <1>a, <1>13 DEF HandleCancel
  <1>14. ASSUME NEW g \in Goals, CancelAtDriver(g) PROVE Rest'
    BY <1>a, <1>14, Messages, OccursAppend, AtMostOnceAppend DEF CancelAtDriver, PostGated, DriverTypeOK
  <1>15. ASSUME NEW g \in Goals, CancelAtPlanner(g) PROVE Rest'
    BY <1>a, <1>15 DEF CancelAtPlanner
  <1>16. ASSUME NEW g \in Goals, CancelTransition(g) PROVE Rest'
    BY <1>a, <1>16 DEF CancelTransition
  <1>17. ASSUME NEW g \in Goals, NEW usable \in BOOLEAN, PlanDone(g, usable)
         PROVE Rest'
    BY <1>a, <1>17 DEF PlanDone, SettleLocal
  <1>18. ASSUME DrainGoal PROVE Rest'
    BY <1>a, <1>18, Messages, OccursTail DEF DrainGoal, PopInbox, BeginSettle, DriverTypeOK
  <1>19. ASSUME DrainCancel PROVE Rest'
    BY <1>a, <1>19, Messages, OccursTail DEF DrainCancel, PopInbox, BeginSettle, DriverTypeOK
  <1>20. ASSUME DrainHalt PROVE Rest'
    BY <1>a, <1>20, Messages, OccursTail DEF DrainHalt, PopInbox, BeginSettle, DriverTypeOK
  <1>21. ASSUME Route PROVE Rest'
    BY <1>a, <1>21 DEF Route, NotSettling
  <1>22. ASSUME LookUp PROVE Rest'
    BY <1>a, <1>22 DEF LookUp, NotSettling, EraseEntry
  <1>23. ASSUME Decide PROVE Rest'
    BY <1>a, <1>23 DEF Decide, ChosenCall
  <1>24. ASSUME End PROVE Rest'
    BY <1>a, <1>24 DEF End, NotSettling, TerminalCall, LegalCall, EndState
  <1>25. ASSUME FinishMotion PROVE Rest'
    BY <1>a, <1>25 DEF FinishMotion, BeginSettle
  <1>26. ASSUME Environment PROVE Rest'
    <2>1. /\ UNCHANGED <<clientVars, entryVars, histVars, owners, pc, canceler,
                       ending, settling, active>>
          /\ \/ inbox' = inbox
             \/ inbox' = Append(inbox, HaltMsg("Halted"))
             \/ inbox' = Append(inbox, HaltMsg("ContactStop"))
      BY <1>26 DEF Environment, ChangeAuthority, LatchContact, ClearContact
    <2>2. \A h \in Goals :
            /\ Occurs(GoalMsg(h), inbox') <=> Occurs(GoalMsg(h), inbox)
            /\ AtMostOnce(GoalMsg(h), inbox) => AtMostOnce(GoalMsg(h), inbox')
      <3> SUFFICES ASSUME NEW h \in Goals, NEW c \in {"Halted", "ContactStop"},
                          inbox' = Append(inbox, HaltMsg(c))
                   PROVE  /\ Occurs(GoalMsg(h), inbox') <=> Occurs(GoalMsg(h), inbox)
                          /\ AtMostOnce(GoalMsg(h), inbox)
                               => AtMostOnce(GoalMsg(h), inbox')
        BY <2>1
      <3>1. HaltMsg(c) \in Message /\ GoalMsg(h) # HaltMsg(c)
            /\ inbox \in Seq(Message)
        BY <1>a, Messages DEF DriverTypeOK
      <3> HIDE DEF TypeOK
      <3> QED BY <3>1, OccursAppend, AtMostOnceAppend
    <2> QED BY <1>a, <2>1, <2>2
  <1>27. ASSUME UNCHANGED vars PROVE Rest'
    BY <1>a, <1>27 DEF vars
  <1> HIDE DEF Rest
  <1>c. Rest'
    BY NextCases, <1>1, <1>2, <1>3, <1>4, <1>5, <1>6, <1>7, <1>8, <1>9, <1>10, <1>11, <1>12, <1>13, <1>14, <1>15, <1>16, <1>17, <1>18, <1>19, <1>20, <1>21, <1>22, <1>23, <1>24, <1>25, <1>26, <1>27
  <1> QED BY <1>b, <1>c DEF IInv, Rest

\* The strengthened invariant holds in every reachable state.
THEOREM Inductive == Spec => []IInv
  BY InitIInv, NextIInv, PTL DEF Spec

-----------------------------------------------------------------------------
(* What follows from it.                                                   *)

\* Every variable always has its type.
THEOREM TypeCorrect == Spec => []TypeOK
  BY Inductive, PTL DEF IInv

\* No goal handle ever gets a second terminal call, and canceled() is never
\* called on a handle that is not CANCELING: the catch in terminal() is dead.
THEOREM NeverThrows == Spec => []NoTerminalThrow
  BY Inductive, PTL DEF IInv

\* Of the plan callback and the driver exactly one owes a live goal its
\* result, whatever the interleaving, and none owes it to an ended goal.
THEOREM OneSettler == Spec => []ExactlyOneSettler
  <1>1. IInv => ExactlyOneSettler
    BY DEF IInv, ExactlyOneSettler, CallbackInv, DriverInv, OwedInv
  <1> QED BY <1>1, Inductive, PTL

\* Every result the driver still has to give finds its server and its entry.
THEOREM Routable == Spec => []DriverGoalsRoutable
  <1>1. IInv => DriverGoalsRoutable
    BY DEF IInv, DriverGoalsRoutable, DriverInv
  <1> QED BY <1>1, Inductive, PTL

-----------------------------------------------------------------------------
(* The server implements the contract its clients rely on.                 *)

\* A call in terminal() that does not throw is an End of the contract.
LEMMA CallEnds ==
  ASSUME TypeOK, NEW g \in Goals, NEW e, e.code \in Codes,
         e.call = "canceled" => handle[g] = "canceling",
         e.call = "succeed" => e.code = "Successful",
         e.call = "abort" => e.code # "Successful",
         e.call \in TerminalCalls,
         handle[g] \in Live, TerminalCall(g, e)
  PROVE  Contract!End(g)
  <1>1. LegalCall(handle[g], e.call)
    BY DEF LegalCall, Live
  <1>2. /\ handle' = [handle EXCEPT ![g] = EndState(e.call)]
        /\ result' = [result EXCEPT ![g] = e.code]
        /\ UNCHANGED ackedCancel
    BY <1>1 DEF TerminalCall
  <1>3. Contract!Finish(g, EndState(e.call), e.code)
    BY <1>2 DEF Contract!Finish, Contract!Running, EndState, Live, TerminalCalls
  <1>4. EndState(e.call) \in {"succeeded", "aborted", "canceled"}
    BY DEF EndState
  <1> QED BY <1>3, <1>4 DEF Contract!End

\* Every step of the server and of the driver is a step of the contract or
\* leaves it alone.
LEMMA ContractStep == IInv /\ [Next]_vars => [Contract!Next]_(Contract!contractVars)
  <1> SUFFICES ASSUME IInv, [Next]_vars PROVE [Contract!Next]_(Contract!contractVars)
    OBVIOUS
  <1>a. TypeOK /\ SettlingInv /\ \A h \in Goals : CallbackInv(h) /\ DriverInv(h)
    BY DEF IInv
  <1> USE DEF Contract!contractVars, clientVars
  <1>1. ASSUME NEW g \in Goals, RejectGoal(g) PROVE Contract!Next
    BY <1>1 DEF RejectGoal, Contract!Next, Contract!Reject
  <1>2. ASSUME NEW g \in Goals, AcceptGoal(g) PROVE Contract!Next
    BY <1>2 DEF AcceptGoal, Contract!Next, Contract!Accept
  <1>3. ASSUME NEW g \in Goals, CancelTransition(g)
        PROVE  [Contract!Next]_(Contract!contractVars)
    BY <1>3 DEF CancelTransition, Contract!Next, Contract!AckCancel
  <1>4. ASSUME NEW g \in Goals, EndLocal(g) PROVE Contract!Next
    <2>1. handle[g] \in Live /\ ChosenInv(g, ending[g])
          /\ ending[g].code \in Codes /\ ending[g].call \in TerminalCalls
      BY <1>a, <1>4 DEF EndLocal, CallbackInv, HeldByCallback, TypeOK
    <2>2. Contract!End(g)
      BY <1>a, <1>4, <2>1, CallEnds DEF EndLocal, ChosenInv
    <2> QED BY <2>2 DEF Contract!Next
  <1>5. ASSUME End PROVE Contract!Next
    <2>1. settling.goal \in Goals /\ settling.code \in Codes
          /\ settling.call \in TerminalCalls
      BY <1>a, <1>5 DEF End, SettlingInv, TypeOK
    <2>2. handle[settling.goal] \in Live /\ ChosenInv(settling.goal, settling)
      BY <1>a, <1>5, <2>1 DEF End, DriverInv, HeldByDriver
    <2>3. Contract!End(settling.goal)
      BY <1>a, <1>5, <2>1, <2>2, CallEnds DEF End, ChosenInv
    <2> QED BY <2>1, <2>3 DEF Contract!Next
  <1>6. ASSUME NEW g \in Goals,
               \/ HandleAccepted(g) \/ Submit(g) \/ MarkExecuting(g)
               \/ RegisterOwner(g) \/ HandOver(g) \/ RereadCancel(g)
               \/ ReissueCancel(g) \/ DecideLocal(g) \/ Erase(g)
               \/ HandleCancel(g) \/ CancelAtDriver(g) \/ CancelAtPlanner(g)
               \/ \E usable \in BOOLEAN : PlanDone(g, usable)
        PROVE  UNCHANGED Contract!contractVars
    BY <1>6 DEF HandleAccepted, Submit, MarkExecuting, RegisterOwner, HandOver,
       RereadCancel, ReissueCancel, DecideLocal, Erase, HandleCancel,
       CancelAtDriver, CancelAtPlanner, PlanDone
  <1>7. ASSUME \/ DrainGoal \/ DrainCancel \/ DrainHalt \/ Route \/ LookUp
               \/ Decide \/ FinishMotion \/ Environment \/ UNCHANGED vars
        PROVE  UNCHANGED Contract!contractVars
    BY <1>7 DEF DrainGoal, DrainCancel, DrainHalt, Route, LookUp, Decide,
       FinishMotion, Environment, vars
  <1> QED BY NextCases, <1>1, <1>2, <1>3, <1>4, <1>5, <1>6, <1>7

\* The goals and results of a PlannedMoveServer are those of an ActionGoal:
\* whatever the interleaving, a goal ends at most once and with a status that
\* fits its result, and a cancel is acknowledged only while it runs.
THEOREM Refinement == Spec => ImplementsContract
  <1>1. Init => Contract!Init
    BY DEF Init, Contract!Init
  <1> QED
    BY <1>1, ContractStep, Inductive, PTL
    DEF Spec, ImplementsContract, Contract!SafeSpec

\* A goal that was rejected or has ended stays so and keeps its result: no
\* later call of terminal(), late cancel or late answer of the driver ever
\* revises what its client was told.
THEOREM ResultsAreFinal ==
  Spec => [][\A g \in Goals :
               handle[g] \in Ended \cup {"rejected"} =>
                 handle'[g] = handle[g] /\ result'[g] = result[g]]_vars
  <1> DEFINE Final == \A g \in Goals :
                        handle[g] \in Ended \cup {"rejected"} =>
                          handle'[g] = handle[g] /\ result'[g] = result[g]
  <1>1. ASSUME TypeOK, Contract!Next PROVE Final
    <2> SUFFICES ASSUME NEW g \in Goals, handle[g] \in Ended \cup {"rejected"}
                 PROVE  handle'[g] = handle[g] /\ result'[g] = result[g]
      OBVIOUS
    <2>1. PICK h \in Goals : \/ Contract!Reject(h) \/ Contract!Accept(h)
                             \/ Contract!AckCancel(h) \/ Contract!End(h)
      BY <1>1 DEF Contract!Next
    <2>2. g # h
      BY <2>1 DEF Contract!Reject, Contract!Accept, Contract!AckCancel, Contract!End,
         Contract!Finish, Contract!Running, Ended
    <2> QED
      BY <1>1, <2>1, <2>2 DEF TypeOK, Contract!Reject, Contract!Accept,
         Contract!AckCancel, Contract!End, Contract!Finish
  <1>2. IInv /\ [Next]_vars => [Final]_vars
    BY <1>1, ContractStep DEF IInv, Contract!contractVars
  <1> QED BY <1>2, Inductive, PTL DEF Spec

-----------------------------------------------------------------------------
(* A latched cancel is not lost in the handover.                           *)

WithDriver(g) == Posted(g) \/ active = g

\* What the driver has stays where IInv says it is, and a goal handed over
\* stays marked as executing.
LEMMA MarkKept ==
  ASSUME IInv, [Next]_vars, NEW h \in Goals, CancelInv(h)
  PROVE  pc'[h] \in {"registering", "handing", "rereading", "recanceling", "returned"}
           /\ h \in goals' => executing'[h]
  <1>a. TypeOK /\ CallbackInv(h)
    BY DEF IInv
  <1> USE DEF CancelInv, TypeOK, entryVars, GoTo
  <1>1. ASSUME NEW g \in Goals,
               \/ RejectGoal(g) \/ AcceptGoal(g) \/ HandleAccepted(g) \/ Submit(g)
               \/ \E usable \in BOOLEAN : PlanDone(g, usable)
        PROVE  pc'[h] \in {"registering", "handing", "rereading", "recanceling",
                           "returned"} /\ h \in goals' => executing'[h]
    <2>1. CASE RejectGoal(g)
      BY <1>a, <2>1 DEF RejectGoal
    <2>2. CASE AcceptGoal(g)
      BY <1>a, <2>2 DEF AcceptGoal
    <2>3. CASE HandleAccepted(g)
      BY <1>a, <2>3 DEF HandleAccepted
    <2>4. CASE Submit(g)
      <3>1. pc[g] = "submitting" /\ UNCHANGED <<goals, executing>>
            /\ (GoTo(g, "marking") \/ GoTo(g, "deciding"))
        BY <2>4 DEF Submit, SettleLocal
      <3> QED BY <1>a, <3>1
    <2>5. CASE \E usable \in BOOLEAN : PlanDone(g, usable)
      <3>1. pc[g] = "planning" /\ UNCHANGED <<goals, executing>>
            /\ \/ GoTo(g, "returned") /\ g \notin goals
               \/ GoTo(g, "deciding") \/ GoTo(g, "submitting")
        BY <2>5 DEF PlanDone, SettleLocal
      <3> QED BY <1>a, <3>1
    <2> QED BY <1>1, <2>1, <2>2, <2>3, <2>4, <2>5
  <1>2. ASSUME NEW g \in Goals,
               \/ MarkExecuting(g) \/ RegisterOwner(g) \/ HandOver(g)
               \/ RereadCancel(g) \/ ReissueCancel(g)
        PROVE  pc'[h] \in {"registering", "handing", "rereading", "recanceling",
                           "returned"} /\ h \in goals' => executing'[h]
    <2>1. CASE MarkExecuting(g)
      BY <1>a, <2>1 DEF MarkExecuting
    <2>2. CASE \/ RegisterOwner(g) \/ HandOver(g) \/ RereadCancel(g) \/ ReissueCancel(g)
      <3>1. /\ pc[g] \in {"registering", "handing", "rereading", "recanceling"}
            /\ UNCHANGED <<goals, executing>>
            /\ GoTo(g, "handing") \/ GoTo(g, "rereading") \/ GoTo(g, "recanceling")
                 \/ GoTo(g, "returned")
        BY <2>2 DEF RegisterOwner, HandOver, RereadCancel, ReissueCancel
      <3> QED BY <1>a, <3>1
    <2> QED BY <1>2, <2>1, <2>2
  <1>3. ASSUME NEW g \in Goals,
               \/ DecideLocal(g) \/ EndLocal(g) \/ Erase(g)
               \/ HandleCancel(g) \/ CancelAtDriver(g) \/ CancelAtPlanner(g)
               \/ CancelTransition(g)
        PROVE  pc'[h] \in {"registering", "handing", "rereading", "recanceling",
                           "returned"} /\ h \in goals' => executing'[h]
    BY <1>a, <1>3 DEF DecideLocal, EndLocal, Erase, EraseEntry, HandleCancel,
       CancelAtDriver, CancelAtPlanner, CancelTransition
  <1>4. ASSUME \/ DrainGoal \/ DrainCancel \/ DrainHalt \/ Route \/ LookUp
               \/ Decide \/ End \/ FinishMotion \/ Environment \/ UNCHANGED vars
        PROVE  pc'[h] \in {"registering", "handing", "rereading", "recanceling",
                           "returned"} /\ h \in goals' => executing'[h]
    BY <1>a, <1>4 DEF DrainGoal, DrainCancel, DrainHalt, Route, LookUp, EraseEntry,
       Decide, End, FinishMotion, Environment, vars
  <1> QED BY NextCases, <1>1, <1>2, <1>3, <1>4

\* A goal comes to the driver by its handover alone, and only while its token
\* is admitted.
LEMMA ComesByHandOver ==
  ASSUME IInv, [Next]_vars, NEW h \in Goals, ~WithDriver(h), WithDriver(h)'
  PROVE  HandOver(h) /\ token[h] \in admits
  <1>a. TypeOK /\ inbox \in Seq(Message)
    BY DEF IInv, TypeOK, DriverTypeOK
  <1>h. h # NoGoal
    OBVIOUS
  <1> USE DEF WithDriver, Posted
  <1>1. ASSUME active' = active,
               inbox' = inbox \/ \E e \in Message : e # GoalMsg(h) /\ inbox' = Append(inbox, e)
        PROVE  FALSE
    <2>1. Occurs(GoalMsg(h), inbox') /\ ~Occurs(GoalMsg(h), inbox)
      BY <1>1
    <2>2. PICK e \in Message : e # GoalMsg(h) /\ inbox' = Append(inbox, e)
      BY <1>1, <2>1
    <2>3. Occurs(GoalMsg(h), Append(inbox, e)) => Occurs(GoalMsg(h), inbox)
      BY <1>a, <2>2, OccursAppend
    <2> QED BY <2>1, <2>2, <2>3
  <1>2. ASSUME NEW g \in Goals, HandOver(g) PROVE HandOver(h) /\ token[h] \in admits
    BY <1>1, <1>2, Messages DEF HandOver, PostGated
  <1>3. ASSUME NEW g \in Goals, ReissueCancel(g) \/ CancelAtDriver(g) PROVE FALSE
    BY <1>1, <1>3, Messages DEF ReissueCancel, CancelAtDriver, PostGated
  <1>4. ASSUME Environment PROVE FALSE
    BY <1>1, <1>4, Messages
    DEF Environment, ChangeAuthority, LatchContact, ClearContact
  <1>5. ASSUME DrainGoal \/ DrainCancel \/ DrainHalt PROVE FALSE
    <2>1. inbox # <<>> /\ inbox' = Tail(inbox)
      BY <1>5 DEF DrainGoal, DrainCancel, DrainHalt, PopInbox
    <2>2. ~Occurs(GoalMsg(h), inbox') /\ Head(inbox) # GoalMsg(h)
          /\ Head(inbox) \in Message
      <3>1. ~Occurs(GoalMsg(h), inbox)
        OBVIOUS
      <3>2. /\ Head(inbox) \in Message /\ Occurs(Head(inbox), inbox)
            /\ Occurs(GoalMsg(h), Tail(inbox)) => Occurs(GoalMsg(h), inbox)
        BY <1>a, <2>1, OccursTail
      <3> QED BY <2>1, <3>1, <3>2
    <2>3. active' = h /\ active # h
      BY <2>2
    <2>4. CASE DrainGoal
      <3>1. Head(inbox).kind = "goal" /\ active' = Head(inbox).goal
        BY <2>3, <2>4 DEF DrainGoal
      <3> QED BY <2>2, <2>3, <3>1, Messages
    <2>5. CASE DrainCancel
      BY <1>h, <2>3, <2>5 DEF DrainCancel
    <2>6. CASE DrainHalt
      BY <1>h, <2>3, <2>6 DEF DrainHalt
    <2> QED BY <1>5, <2>4, <2>5, <2>6
  <1>6. ASSUME FinishMotion PROVE FALSE
    BY <1>6 DEF FinishMotion
  <1>7. ASSUME \/ Route \/ LookUp \/ Decide \/ End \/ UNCHANGED vars
               \/ \E g \in Goals :
                    \/ RejectGoal(g) \/ AcceptGoal(g) \/ HandleAccepted(g) \/ Submit(g)
                    \/ MarkExecuting(g) \/ RegisterOwner(g) \/ RereadCancel(g)
                    \/ DecideLocal(g) \/ EndLocal(g) \/ Erase(g) \/ HandleCancel(g)
                    \/ CancelAtPlanner(g) \/ CancelTransition(g)
                    \/ \E usable \in BOOLEAN : PlanDone(g, usable)
        PROVE  FALSE
    <2>1. UNCHANGED <<inbox, active>>
      BY <1>7 DEF driverVars, vars, Route, LookUp, Decide, End, RejectGoal, AcceptGoal,
         HandleAccepted, Submit, MarkExecuting, RegisterOwner, RereadCancel, DecideLocal,
         EndLocal, Erase, HandleCancel, CancelAtPlanner, CancelTransition, PlanDone
    <2> QED BY <1>1, <2>1
  <1> QED BY NextCases, <1>2, <1>3, <1>4, <1>5, <1>6, <1>7

\* A stop n messages ahead of a goal the driver has is as near after any step
\* that leaves the driver the goal, and nearer if the step drains a message.
Drains == DrainGoal \/ DrainCancel \/ DrainHalt
Nearer(g, n) ==
  /\ StopWithin(g, inbox', n)
  /\ Drains => n > 0 /\ StopWithin(g, inbox', n - 1)

LEMMA StopNears ==
  ASSUME IInv, [Next]_vars, NEW h \in Goals, NEW n \in Nat,
         WithDriver(h), WithDriver(h)', StopWithin(h, inbox, n)
  PROVE  Nearer(h, n)
  <1>a. TypeOK /\ inbox \in Seq(Message) /\ DriverInv(h) /\ CallbackInv(h)
    BY DEF IInv, TypeOK, DriverTypeOK
  <1> USE DEF WithDriver, Posted, Nearer
  <1>1. ASSUME \/ inbox' = inbox
               \/ \E e \in Message : e # GoalMsg(h) /\ inbox' = Append(inbox, e)
        PROVE  Nearer(h, n)
    <2>1. StopWithin(h, inbox', n)
      BY <1>a, <1>1, StopWithinAppend
    <2>2. ~(inbox # <<>> /\ inbox' = Tail(inbox))
      <3>1. /\ Len(inbox) \in Nat
            /\ \A e \in Message : Len(Append(inbox, e)) = Len(inbox) + 1
            /\ inbox # <<>> => Len(Tail(inbox)) = Len(inbox) - 1
        BY <1>a
      <3> QED BY <1>1, <3>1
    <2> QED BY <2>1, <2>2 DEF Drains, DrainGoal, DrainCancel, DrainHalt, PopInbox
  <1>2. ASSUME NEW g \in Goals, HandOver(g) PROVE Nearer(h, n)
    <2>1. g # h
      BY <1>a, <1>2 DEF HandOver, CallbackInv, HeldByCallback, HeldByDriver
    <2> QED BY <1>1, <1>2, <2>1, Messages DEF HandOver, PostGated
  <1>3. ASSUME NEW g \in Goals, ReissueCancel(g) \/ CancelAtDriver(g)
        PROVE  Nearer(h, n)
    BY <1>1, <1>3, Messages DEF ReissueCancel, CancelAtDriver, PostGated
  <1>4. ASSUME Environment PROVE Nearer(h, n)
    BY <1>1, <1>4, Messages
    DEF Environment, ChangeAuthority, LatchContact, ClearContact
  <1>5. ASSUME inbox # <<>>, inbox' = Tail(inbox),
               Head(inbox).kind = "goal" \/ Occurs(GoalMsg(h), inbox)
        PROVE  Nearer(h, n)
    <2>1. CASE Head(inbox).kind = "goal"
      <3>1. Head(inbox) # CancelMsg(h) /\ Head(inbox).kind # "halt"
        BY <2>1 DEF CancelMsg
      <3> QED BY <1>a, <1>5, <3>1, StopWithinTail
    <2>2. CASE Occurs(GoalMsg(h), inbox)
      BY <1>a, <1>5, <2>2, StopWithinTail
    <2> QED BY <1>5, <2>1, <2>2
  <1>6. ASSUME DrainGoal PROVE Nearer(h, n)
    BY <1>5, <1>6 DEF DrainGoal, PopInbox
  <1>7. ASSUME DrainHalt PROVE Nearer(h, n)
    <2>1. Occurs(GoalMsg(h), inbox)
      BY <1>a, <1>7, OccursTail DEF DrainHalt, PopInbox, TypeOK, DriverTypeOK
    <2> QED BY <1>5, <1>7, <2>1 DEF DrainHalt, PopInbox
  <1>8. ASSUME DrainCancel PROVE Nearer(h, n)
    <2>1. inbox # <<>> /\ inbox' = Tail(inbox)
      BY <1>8 DEF DrainCancel, PopInbox
    <2>2. CASE Head(inbox).goal = h
      <3>1. Occurs(GoalMsg(h), inbox)
        BY <1>a, <1>8, <2>2, OccursTail DEF DrainCancel, PopInbox, TypeOK, DriverTypeOK
      <3> QED BY <1>5, <2>1, <3>1
    <2>3. CASE Head(inbox).goal # h
      <3>1. Head(inbox) # CancelMsg(h) /\ Head(inbox).kind # "halt"
        BY <1>8, <2>3 DEF DrainCancel, CancelMsg
      <3> QED BY <1>a, <2>1, <3>1, StopWithinTail
    <2> QED BY <2>2, <2>3
  <1>9. ASSUME \/ Route \/ LookUp \/ Decide \/ End \/ FinishMotion \/ UNCHANGED vars
               \/ \E g \in Goals :
                    \/ RejectGoal(g) \/ AcceptGoal(g) \/ HandleAccepted(g) \/ Submit(g)
                    \/ MarkExecuting(g) \/ RegisterOwner(g) \/ RereadCancel(g)
                    \/ DecideLocal(g) \/ EndLocal(g) \/ Erase(g) \/ HandleCancel(g)
                    \/ CancelAtPlanner(g) \/ CancelTransition(g)
                    \/ \E usable \in BOOLEAN : PlanDone(g, usable)
        PROVE  Nearer(h, n)
    <2>1. UNCHANGED inbox
      BY <1>9 DEF driverVars, vars, Route, LookUp, Decide, End, FinishMotion, RejectGoal,
         AcceptGoal, HandleAccepted, Submit, MarkExecuting, RegisterOwner, RereadCancel,
         DecideLocal, EndLocal, Erase, HandleCancel, CancelAtPlanner, CancelTransition,
         PlanDone
    <2> QED BY <1>1, <2>1
  <1> QED BY NextCases, <1>2, <1>3, <1>4, <1>6, <1>7, <1>8, <1>9

\* No step takes the stop of a cancel farther from the goal it is to stop, and
\* every message the sampler drains brings it nearer, for as long as the driver
\* has the goal: CancelsPursued puts the stop there, StopWithinLength bounds
\* it, and the sampler's fairness leaves LatchedCancelEnds no other way out.
THEOREM CancelsNear ==
  Spec => [][\A g \in Goals : \A n \in Nat :
               WithDriver(g) /\ WithDriver(g)' /\ StopWithin(g, inbox, n)
                 => Nearer(g, n)]_vars
  <1>1. IInv /\ [Next]_vars =>
          [\A g \in Goals : \A n \in Nat :
             WithDriver(g) /\ WithDriver(g)' /\ StopWithin(g, inbox, n)
               => Nearer(g, n)]_vars
    BY StopNears
  <1> QED BY <1>1, Inductive, PTL DEF Spec

\* A stop ahead of a goal stays ahead of it for as long as the driver has it.
LEMMA StopStaysAhead ==
  ASSUME IInv, [Next]_vars, NEW h \in Goals,
         WithDriver(h), WithDriver(h)', StopAhead(h, inbox)
  PROVE  StopAhead(h, inbox')
  <1>1. inbox \in Seq(Message) /\ Len(inbox) \in Nat
    BY DEF IInv, TypeOK, DriverTypeOK
  <1>2. StopWithin(h, inbox, Len(inbox))
    BY <1>1, StopWithinLength
  <1> QED BY <1>1, <1>2, StopNears DEF Nearer, StopWithin, StopAhead

\* A goal keeps its token.
LEMMA TokenKept == [Next]_vars => token' = token
  <1> SUFFICES ASSUME [Next]_vars PROVE token' = token
    OBVIOUS
  <1> USE DEF entryVars, vars
  <1>1. ASSUME NEW g \in Goals,
               \/ RejectGoal(g) \/ AcceptGoal(g) \/ HandleAccepted(g) \/ Submit(g)
               \/ MarkExecuting(g) \/ RegisterOwner(g) \/ HandOver(g) \/ RereadCancel(g)
               \/ ReissueCancel(g) \/ \E usable \in BOOLEAN : PlanDone(g, usable)
        PROVE  token' = token
    BY <1>1 DEF RejectGoal, AcceptGoal, HandleAccepted, Submit, MarkExecuting,
       RegisterOwner, HandOver, RereadCancel, ReissueCancel, PlanDone
  <1>2. ASSUME NEW g \in Goals,
               \/ DecideLocal(g) \/ EndLocal(g) \/ Erase(g) \/ HandleCancel(g)
               \/ CancelAtDriver(g) \/ CancelAtPlanner(g) \/ CancelTransition(g)
        PROVE  token' = token
    BY <1>2 DEF DecideLocal, EndLocal, Erase, HandleCancel, CancelAtDriver,
       CancelAtPlanner, CancelTransition
  <1>3. ASSUME \/ DrainGoal \/ DrainCancel \/ DrainHalt \/ Route \/ LookUp
               \/ Decide \/ End \/ FinishMotion \/ Environment \/ UNCHANGED vars
        PROVE  token' = token
    BY <1>3 DEF DrainGoal, DrainCancel, DrainHalt, Route, LookUp, Decide, End,
       FinishMotion, Environment
  <1> QED BY NextCases, <1>1, <1>2, <1>3

\* Only an authority change touches what the Arbiter admits.
LEMMA AdmitsKept == [Next]_vars => admits' = admits \/ ChangeAuthority
  <1> SUFFICES ASSUME [Next]_vars PROVE admits' = admits \/ ChangeAuthority
    OBVIOUS
  <1> USE DEF driverVars, vars
  <1>1. ASSUME NEW g \in Goals,
               \/ RejectGoal(g) \/ AcceptGoal(g) \/ HandleAccepted(g) \/ Submit(g)
               \/ MarkExecuting(g) \/ RegisterOwner(g) \/ HandOver(g) \/ RereadCancel(g)
               \/ ReissueCancel(g) \/ \E usable \in BOOLEAN : PlanDone(g, usable)
        PROVE  admits' = admits
    BY <1>1 DEF RejectGoal, AcceptGoal, HandleAccepted, Submit, MarkExecuting,
       RegisterOwner, HandOver, RereadCancel, ReissueCancel, PlanDone
  <1>2. ASSUME NEW g \in Goals,
               \/ DecideLocal(g) \/ EndLocal(g) \/ Erase(g) \/ HandleCancel(g)
               \/ CancelAtDriver(g) \/ CancelAtPlanner(g) \/ CancelTransition(g)
        PROVE  admits' = admits
    BY <1>2 DEF DecideLocal, EndLocal, Erase, HandleCancel, CancelAtDriver,
       CancelAtPlanner, CancelTransition
  <1>3. ASSUME \/ DrainGoal \/ DrainCancel \/ DrainHalt \/ Route \/ LookUp
               \/ Decide \/ End \/ FinishMotion \/ UNCHANGED vars
        PROVE  admits' = admits
    BY <1>3 DEF DrainGoal, DrainCancel, DrainHalt, Route, LookUp, Decide, End,
       FinishMotion
  <1>4. ASSUME Environment PROVE admits' = admits \/ ChangeAuthority
    BY <1>4 DEF Environment, LatchContact, ClearContact
  <1> QED BY NextCases, <1>1, <1>2, <1>3, <1>4

\* A goal with the driver whose token is no longer admitted has a halt behind it.
LEMMA HaltFollows ==
  ASSUME IInv, [Next]_vars, NEW h \in Goals, CancelInv(h),
         WithDriver(h)', token'[h] \notin admits'
  PROVE  StopAhead(h, inbox')
  <1>a. inbox \in Seq(Message)
    BY DEF IInv, TypeOK, DriverTypeOK
  <1>b. token' = token
    BY TokenKept
  <1>c. WithDriver(h) /\ token[h] \notin admits => StopAhead(h, inbox)
    BY DEF CancelInv, WithDriver
  <1>1. CASE admits' = admits
    <2>1. WithDriver(h)
      BY <1>b, <1>1, ComesByHandOver
    <2> QED BY <1>b, <1>c, <1>1, <2>1, StopStaysAhead
  <1>2. CASE ChangeAuthority
    <2>1. WithDriver(h)
      <3>1. ~HandOver(h)
        BY <1>2 DEF HandOver, ChangeAuthority
      <3> QED BY <3>1, ComesByHandOver
    <2>2. CASE admits = {}
      BY <1>c, <1>2, <2>1, <2>2 DEF ChangeAuthority
    <2>3. CASE admits # {}
      <3>1. inbox' = Append(inbox, HaltMsg("Halted"))
        BY <1>2, <2>3 DEF ChangeAuthority
      <3>2. HaltMsg("Halted") \in Message /\ HaltMsg("Halted") # GoalMsg(h)
            /\ HaltMsg("Halted").kind = "halt"
        BY Messages DEF HaltMsg
      <3> QED BY <1>a, <3>1, <3>2, StopAheadAppend
    <2> QED BY <2>2, <2>3
  <1> QED BY <1>1, <1>2, AdmitsKept

\* A latched cancel with nobody left to post it was latched and posted before
\* this step, or is posted by it.
LEMMA LatchedBefore ==
  ASSUME IInv, [Next]_vars, NEW h \in Goals, CancelInv(h), WithDriver(h),
         h \in goals', cancelRequested'[h], CancelPosted(h)'
  PROVE  \/ h \in goals /\ cancelRequested[h] /\ CancelPosted(h)
         \/ ReissueCancel(h) \/ CancelAtDriver(h)
  <1> DEFINE Before == \/ h \in goals /\ cancelRequested[h] /\ CancelPosted(h)
                       \/ ReissueCancel(h) \/ CancelAtDriver(h)
  <1>a. TypeOK
    BY DEF IInv
  <1>b. pc[h] \in {"rereading", "recanceling", "returned"} /\ (h \in goals => executing[h])
    BY DEF IInv, DriverInv, HeldByDriver, WithDriver, CancelInv
  <1>c. pc[h] \notin {"accepted", "planning", "submitting"} /\ handle[h] # "none"
    <2>1. CallbackInv(h)
      BY DEF IInv
    <2> QED BY <1>b, <2>1 DEF CallbackInv, Live, Ended
  <1> USE DEF TypeOK, CancelPosted, entryVars, GoTo
  <1>1. ASSUME NEW g \in Goals,
               \/ RejectGoal(g) \/ AcceptGoal(g) \/ HandleAccepted(g) \/ Submit(g)
               \/ \E usable \in BOOLEAN : PlanDone(g, usable)
        PROVE  Before
    <2>1. CASE g = h
      BY <1>1, <1>c, <2>1 DEF RejectGoal, AcceptGoal, HandleAccepted, Submit, PlanDone
    <2>2. CASE g # h
      <3>1. pc'[h] = pc[h] /\ (h \in goals' => h \in goals)
            /\ cancelRequested'[h] = cancelRequested[h] /\ canceler' = canceler
        <4>1. CASE RejectGoal(g) \/ AcceptGoal(g)
          BY <1>a, <2>2, <4>1 DEF RejectGoal, AcceptGoal
        <4>h. CASE HandleAccepted(g)
          <5>1. /\ goals' = goals \cup {g} /\ GoTo(g, "planning") /\ canceler' = canceler
                /\ cancelRequested' = [cancelRequested EXCEPT ![g] = FALSE]
            BY <4>h DEF HandleAccepted
          <5>2. cancelRequested'[h] = cancelRequested[h]
            BY <1>a, <2>2, <5>1
          <5> QED BY <1>a, <2>2, <5>1, <5>2
        <4>2. CASE Submit(g)
          <5>1. GoTo(g, "marking") \/ GoTo(g, "deciding")
            BY <4>2 DEF Submit, SettleLocal
          <5> QED BY <1>a, <2>2, <4>2, <5>1 DEF Submit
        <4>3. CASE \E usable \in BOOLEAN : PlanDone(g, usable)
          <5>1. GoTo(g, "returned") \/ GoTo(g, "deciding") \/ GoTo(g, "submitting")
            BY <4>3 DEF PlanDone, SettleLocal
          <5>2. UNCHANGED <<goals, cancelRequested, canceler>>
            BY <4>3 DEF PlanDone
          <5> QED BY <1>a, <2>2, <5>1, <5>2
        <4> QED BY <1>1, <4>h, <4>1, <4>2, <4>3
      <3> QED BY <3>1
    <2> QED BY <2>1, <2>2
  <1>2. ASSUME NEW g \in Goals,
               \/ MarkExecuting(g) \/ RegisterOwner(g) \/ HandOver(g)
               \/ RereadCancel(g) \/ ReissueCancel(g)
        PROVE  Before
    BY <1>a, <1>b, <1>2 DEF MarkExecuting, RegisterOwner, HandOver, RereadCancel,
       ReissueCancel
  <1>3. ASSUME NEW g \in Goals, DecideLocal(g) \/ EndLocal(g) \/ Erase(g)
        PROVE  Before
    BY <1>a, <1>b, <1>3 DEF DecideLocal, EndLocal, Erase, EraseEntry
  <1>4. ASSUME NEW g \in Goals,
               \/ HandleCancel(g) \/ CancelAtDriver(g) \/ CancelAtPlanner(g)
               \/ CancelTransition(g)
        PROVE  Before
    BY <1>a, <1>b, <1>4 DEF HandleCancel, CancelAtDriver, CancelAtPlanner,
       CancelTransition
  <1>5. ASSUME \/ DrainGoal \/ DrainCancel \/ DrainHalt \/ Route \/ LookUp
               \/ Decide \/ End \/ FinishMotion \/ Environment \/ UNCHANGED vars
        PROVE  Before
    BY <1>a, <1>b, <1>5 DEF DrainGoal, DrainCancel, DrainHalt, Route, LookUp,
       EraseEntry, Decide, End, FinishMotion, Environment, vars
  <1> QED BY NextCases, <1>1, <1>2, <1>3, <1>4, <1>5

Pursued(g) ==
  g \in goals /\ cancelRequested[g] /\ CancelPosted(g) /\ WithDriver(g)
    => StopAhead(g, inbox)

\* Every step keeps a latched cancel ahead of its goal.
LEMMA PursuedKept ==
  ASSUME IInv, [Next]_vars, NEW h \in Goals, CancelInv(h), Pursued(h)
  PROVE  Pursued(h)'
  <1> SUFFICES ASSUME h \in goals', cancelRequested'[h], CancelPosted(h)', WithDriver(h)'
               PROVE  StopAhead(h, inbox')
    BY DEF Pursued
  <1>a. inbox \in Seq(Message) /\ pc \in [Goals -> {"none", "accepted", "returned"}
                                                   \cup PlanPoints]
    BY DEF IInv, TypeOK, DriverTypeOK
  <1>1. WithDriver(h)
    <2>1. ~HandOver(h)
      BY <1>a DEF HandOver, GoTo, CancelPosted
    <2> QED BY <2>1, ComesByHandOver
  <1>2. CASE h \in goals /\ cancelRequested[h] /\ CancelPosted(h)
    BY <1>1, <1>2, StopStaysAhead DEF Pursued
  <1>3. CASE ReissueCancel(h) \/ CancelAtDriver(h)
    <2>1. PostGated(CancelMsg(h), token[h])
      BY <1>3 DEF ReissueCancel, CancelAtDriver
    <2>2. CASE token[h] \in admits
      <3>1. inbox' = Append(inbox, CancelMsg(h))
        BY <2>1, <2>2 DEF PostGated
      <3>2. CancelMsg(h) \in Message /\ CancelMsg(h) # GoalMsg(h)
        BY Messages
      <3> QED BY <1>a, <3>1, <3>2, StopAheadAppend
    <2>3. CASE token[h] \notin admits
      <3>1. inbox' = inbox
        BY <2>1, <2>3 DEF PostGated
      <3> QED BY <1>1, <2>3, <3>1 DEF CancelInv, WithDriver
    <2> QED BY <2>2, <2>3
  <1> QED BY <1>1, <1>2, <1>3, LatchedBefore

\* A cancel latched in goals_ reaches the driver behind its goal, or the goal's
\* authority is gone and a halt is behind it: no interleaving of the cancel
\* thread with the handover loses it.
THEOREM CancelsPursued == Spec => []LatchedCancelPursued
  <1> DEFINE CancelsInv == \A g \in Goals : CancelInv(g) /\ Pursued(g)
  <1>1. Init => CancelsInv
    <2> SUFFICES ASSUME Init, NEW g \in Goals PROVE CancelInv(g) /\ Pursued(g)
      OBVIOUS
    <2>1. g \notin goals /\ active # g /\ ~Posted(g)
      BY DEF Init, DriverInit, Posted, Occurs
    <2> QED BY <2>1 DEF CancelInv, Pursued, WithDriver
  <1>2. IInv /\ CancelsInv /\ [Next]_vars => CancelsInv'
    <2> SUFFICES ASSUME IInv, CancelsInv, [Next]_vars, NEW h \in Goals
                 PROVE  CancelInv(h)' /\ Pursued(h)'
      OBVIOUS
    <2>1. CancelInv(h) /\ Pursued(h)
      OBVIOUS
    <2>2. Pursued(h)'
      BY <2>1, PursuedKept
    <2>3. CancelInv(h)'
      BY <2>1, MarkKept, HaltFollows DEF CancelInv, WithDriver
    <2> QED BY <2>2, <2>3
  <1>3. CancelsInv => LatchedCancelPursued
    BY DEF LatchedCancelPursued, Pursued, WithDriver
  <1> QED BY <1>1, <1>2, <1>3, Inductive, PTL DEF Spec
-----------------------------------------------------------------------------
(* Why an accepted cancel may be lost: it found no entry to latch it in.   *)

\* No cancel request is served between the goal's handle being made and
\* handle_accepted making its entry.
NoEarlyCancel == [][\A g \in Goals : HandleCancel(g) => pc[g] # "accepted"]_vars

\* A goal whose cancel was taken up has its cancel latched while it has an entry.
EarlyInv(g) ==
  /\ pc[g] \in {"none", "accepted"} => g \notin ackedCancel /\ canceler[g] = "idle"
  /\ g \in goals /\ (g \in ackedCancel \/ canceler[g] # "idle") => cancelRequested[g]

\* A cancel served no earlier than that stays latched.
LEMMA LatchKept ==
  ASSUME IInv, [Next]_vars, NEW h \in Goals, EarlyInv(h),
         [\A g \in Goals : HandleCancel(g) => pc[g] # "accepted"]_vars
  PROVE  EarlyInv(h)'
  <1>a. TypeOK /\ CallbackInv(h)
    BY DEF IInv
  <1> USE DEF EarlyInv, TypeOK, entryVars, clientVars, GoTo
  <1>1. ASSUME NEW g \in Goals,
               \/ RejectGoal(g) \/ AcceptGoal(g) \/ HandleAccepted(g)
        PROVE  EarlyInv(h)'
    <2>1. CASE RejectGoal(g) \/ AcceptGoal(g)
      BY <1>a, <2>1 DEF RejectGoal, AcceptGoal, CallbackInv, Live, Ended
    <2>2. CASE HandleAccepted(g)
      <3>1. CASE g = h
        BY <1>a, <2>2, <3>1 DEF HandleAccepted
      <3>2. CASE g # h
        <4>1. /\ goals' = goals \cup {g} /\ GoTo(g, "planning")
              /\ UNCHANGED <<canceler, ackedCancel>>
              /\ cancelRequested' = [cancelRequested EXCEPT ![g] = FALSE]
          BY <2>2 DEF HandleAccepted
        <4>2. cancelRequested'[h] = cancelRequested[h] /\ pc'[h] = pc[h]
          BY <1>a, <3>2, <4>1
        <4> QED BY <3>2, <4>1, <4>2
      <3> QED BY <3>1, <3>2
    <2> QED BY <1>1, <2>1, <2>2
  <1>2. ASSUME NEW g \in Goals,
               UNCHANGED <<ackedCancel, canceler, goals, cancelRequested>>,
               pc[g] \notin {"none", "accepted"},
               \E point \in PlanPoints \cup {"returned"} : GoTo(g, point)
        PROVE  EarlyInv(h)'
    <2>1. pc'[h] \in {"none", "accepted"} => pc[h] \in {"none", "accepted"}
      BY <1>a, <1>2 DEF PlanPoints
    <2> QED BY <1>2, <2>1
  <1>3. ASSUME NEW g \in Goals,
               \/ Submit(g) \/ MarkExecuting(g) \/ RegisterOwner(g) \/ HandOver(g)
               \/ RereadCancel(g) \/ ReissueCancel(g) \/ DecideLocal(g)
               \/ \E usable \in BOOLEAN : PlanDone(g, usable)
        PROVE  EarlyInv(h)'
    BY <1>2, <1>3 DEF Submit, MarkExecuting, RegisterOwner, HandOver, RereadCancel,
       ReissueCancel, DecideLocal, PlanDone, SettleLocal, PlanPoints
  <1>4. ASSUME NEW g \in Goals, EndLocal(g) PROVE EarlyInv(h)'
    BY <1>2, <1>4 DEF EndLocal, TerminalCall, PlanPoints
  <1>5. ASSUME NEW g \in Goals, Erase(g) PROVE EarlyInv(h)'
    BY <1>a, <1>5 DEF Erase, EraseEntry
  <1>6. ASSUME NEW g \in Goals, HandleCancel(g) PROVE EarlyInv(h)'
    <2>1. canceler'[g] # canceler[g]
      BY <1>a, <1>6 DEF HandleCancel
    <2>2. pc[g] # "accepted"
      BY <1>6, <2>1 DEF vars
    <2>3. g = h => pc[h] # "none"
      BY <1>a, <1>6 DEF HandleCancel, CallbackInv, Live
    <2> QED BY <1>a, <1>6, <2>2, <2>3 DEF HandleCancel
  <1>7. ASSUME NEW g \in Goals,
               CancelAtDriver(g) \/ CancelAtPlanner(g) \/ CancelTransition(g)
        PROVE  EarlyInv(h)'
    BY <1>a, <1>7 DEF CancelAtDriver, CancelAtPlanner, CancelTransition
  <1>8. ASSUME \/ DrainGoal \/ DrainCancel \/ DrainHalt \/ Route \/ LookUp
               \/ Decide \/ End \/ FinishMotion \/ Environment \/ UNCHANGED vars
        PROVE  EarlyInv(h)'
    BY <1>a, <1>8 DEF DrainGoal, DrainCancel, DrainHalt, Route, LookUp, EraseEntry,
       Decide, End, TerminalCall, FinishMotion, Environment, vars
  <1> QED BY NextCases, <1>1, <1>3, <1>4, <1>5, <1>6, <1>7, <1>8

\* The early cancel is the only one that is lost: were none served before the
\* goal has its entry, every acknowledged cancel would reach the driver behind
\* its goal, or find a halt there, whatever else interleaves.
THEOREM OnlyEarlyCancelsAreLost == Spec /\ NoEarlyCancel => []AckedCancelPursued
  <1> DEFINE Latched == \A g \in Goals : EarlyInv(g)
  <1>1. Init => Latched
    BY DEF Init, EarlyInv
  <1>2. IInv /\ Latched /\ [Next]_vars
          /\ [\A g \in Goals : HandleCancel(g) => pc[g] # "accepted"]_vars
        => Latched'
    BY LatchKept
  <1>3. IInv /\ Latched /\ LatchedCancelPursued => AckedCancelPursued
    BY DEF IInv, DriverInv, AwaitsRouting, EarlyInv, LatchedCancelPursued,
       AckedCancelPursued
  <1> QED
    BY <1>1, <1>2, <1>3, Inductive, CancelsPursued, PTL DEF Spec, NoEarlyCancel
-----------------------------------------------------------------------------
(* Why a goal may be orphaned: its authority went while it was handed over. *)

HandingOver(g) == pc[g] \in {"marking", "registering", "handing"}

\* No authority is taken away from a goal the driver has accepted and not been
\* handed yet.
AuthorityKept ==
  [][ChangeAuthority => \A g \in Goals : HandingOver(g) => token[g] \in admits']_vars

\* Nobody's handover is refused, because a token once admitted stays so.
HandOverInv ==
  /\ unhanded = {}
  /\ \A g \in Goals : HandingOver(g) => token[g] \in admits

\* Every goal a client waits on is still owed its result by somebody.
NoOrphans ==
  \A g \in Goals : handle[g] \in Live => HeldByCallback(g) \/ HeldByDriver(g)

\* A goal that reaches the handover, or is on its way there, is an admitted one.
LEMMA HandOverKept ==
  ASSUME IInv, [Next]_vars, HandOverInv,
         [ChangeAuthority =>
            \A g \in Goals : HandingOver(g) => token[g] \in admits']_vars
  PROVE  HandOverInv'
  <1>a. pc \in [Goals -> {"none", "accepted", "returned"} \cup PlanPoints]
        /\ disturbances \in Nat
    BY DEF IInv, TypeOK, DriverTypeOK
  <1>b. token' = token
    BY TokenKept
  <1> USE DEF HandOverInv, HandingOver, histVars, driverVars, GoTo
  <1>1. ASSUME unhanded' = unhanded, admits' = admits,
               \A h \in Goals : HandingOver(h)' => HandingOver(h) \/ token[h] \in admits
        PROVE  HandOverInv'
    BY <1>b, <1>1
  <1>2. ASSUME NEW g \in Goals,
               \/ RejectGoal(g) \/ AcceptGoal(g) \/ HandleAccepted(g)
               \/ MarkExecuting(g) \/ RegisterOwner(g)
        PROVE  HandOverInv'
    BY <1>a, <1>1, <1>2 DEF RejectGoal, AcceptGoal, HandleAccepted, MarkExecuting,
       RegisterOwner
  <1>3. ASSUME NEW g \in Goals, Submit(g) PROVE HandOverInv'
    <2>1. (GoTo(g, "marking") /\ token[g] \in admits) \/ GoTo(g, "deciding")
      BY <1>3 DEF Submit, SettleLocal, GoalResponses
    <2>2. unhanded' = unhanded /\ admits' = admits
      BY <1>3 DEF Submit
    <2> QED BY <1>a, <1>1, <2>1, <2>2
  <1>4. ASSUME NEW g \in Goals, HandOver(g) PROVE HandOverInv'
    BY <1>a, <1>1, <1>4 DEF HandOver
  <1>5. ASSUME NEW g \in Goals,
               \/ RereadCancel(g) \/ ReissueCancel(g) \/ DecideLocal(g)
               \/ EndLocal(g) \/ Erase(g)
               \/ \E usable \in BOOLEAN : PlanDone(g, usable)
        PROVE  HandOverInv'
    BY <1>a, <1>1, <1>5 DEF RereadCancel, ReissueCancel, DecideLocal, EndLocal, Erase,
       PlanDone, SettleLocal
  <1>6. ASSUME NEW g \in Goals,
               \/ HandleCancel(g) \/ CancelAtDriver(g) \/ CancelAtPlanner(g)
               \/ CancelTransition(g)
        PROVE  HandOverInv'
    BY <1>1, <1>6 DEF HandleCancel, CancelAtDriver, CancelAtPlanner, CancelTransition
  <1>7. ASSUME \/ DrainGoal \/ DrainCancel \/ DrainHalt \/ Route \/ LookUp
               \/ Decide \/ End \/ FinishMotion \/ UNCHANGED vars
        PROVE  HandOverInv'
    BY <1>1, <1>7 DEF DrainGoal, DrainCancel, DrainHalt, Route, LookUp, Decide, End,
       FinishMotion, vars
  <1>8. ASSUME Environment PROVE HandOverInv'
    <2>1. CASE ChangeAuthority
      <3>1. disturbances' # disturbances
        BY <1>a, <2>1 DEF ChangeAuthority
      <3>2. \A g \in Goals : HandingOver(g) => token[g] \in admits'
        BY <2>1, <3>1 DEF vars
      <3> QED BY <1>b, <1>8, <3>2 DEF Environment
    <2>2. CASE LatchContact \/ ClearContact
      BY <1>1, <1>8, <2>2 DEF Environment, LatchContact, ClearContact
    <2> QED BY <1>8, <2>1, <2>2 DEF Environment
  <1> QED BY NextCases, <1>2, <1>3, <1>4, <1>5, <1>6, <1>7, <1>8

\* The handover whose authority is gone is the only way to orphan a goal: with
\* none refused on its way, every live goal is with its callback or the driver,
\* so that ExactlyOneSettler holds of it without exception.
THEOREM OnlyRefusedHandoversOrphan == Spec /\ AuthorityKept => []NoOrphans
  <1>1. Init => HandOverInv
    BY DEF Init, HandOverInv, HandingOver
  <1>2. IInv /\ HandOverInv /\ [Next]_vars
          /\ [ChangeAuthority =>
                \A g \in Goals : HandingOver(g) => token[g] \in admits']_vars
        => HandOverInv'
    BY HandOverKept
  <1>3. IInv /\ HandOverInv => NoOrphans
    BY DEF IInv, OwedInv, HandOverInv, NoOrphans
  <1> QED BY <1>1, <1>2, <1>3, Inductive, PTL DEF Spec, AuthorityKept
-----------------------------------------------------------------------------
(* How far a live goal is from its result.                                 *)

\* The steps its callback has before it: to the handover, or to settling it.
CallbackLeft(point) ==
  CASE point = "accepted" -> 12
    [] point = "planning" -> 11
    [] point = "submitting" -> 10
    [] point = "marking" -> 9
    [] point = "registering" -> 8
    [] point = "handing" -> 7
    [] point = "deciding" -> 2
    [] OTHER -> 1

\* The steps settle() has before it.
SettleLeft(point) ==
  CASE point = "routing" -> 4
    [] point = "looking" -> 3
    [] point = "deciding" -> 2
    [] OTHER -> 1

\* The steps until g has its result, counting its stay in the inbox and its
\* motion as one each.
Left(g) ==
  CASE HeldByCallback(g) -> CallbackLeft(pc[g])
    [] ~HeldByCallback(g) /\ Posted(g) -> 6
    [] ~HeldByCallback(g) /\ ~Posted(g) /\ active = g -> 5
    [] ~HeldByCallback(g) /\ ~Posted(g) /\ active # g /\ settling.goal = g ->
         SettleLeft(settling.at)
    [] OTHER -> 0

\* The steps that are g's own: of its callback, and of the driver for it.
OwnStep(g) ==
  \/ HandleAccepted(g)
  \/ \E usable \in BOOLEAN : PlanDone(g, usable)
  \/ HeldByCallback(g) /\ PlanCallback(g)
  \/ DrainGoal /\ Head(inbox) = GoalMsg(g)
  \/ active = g /\ FinishMotion
  \/ settling.goal = g /\ Sampler

\* The measure is a natural number.
LEMMA LeftRange ==
  /\ \A point : CallbackLeft(point) \in 1 .. 12 /\ SettleLeft(point) \in 1 .. 4
  /\ \A g \in Goals : Left(g) \in 0 .. 12
  BY DEF CallbackLeft, SettleLeft, Left

\* Nothing is left exactly when the goal has its result.
LEMMA NothingLeft ==
  ASSUME IInv, NEW g \in Goals, g \notin unhanded
  PROVE  Left(g) = 0 <=> handle[g] \notin Live
  <1>1. Left(g) = 0 <=> ~HeldByCallback(g) /\ ~HeldByDriver(g)
    BY LeftRange DEF Left, HeldByDriver
  <1>2. CallbackInv(g) /\ DriverInv(g) /\ OwedInv(g)
    BY DEF IInv
  <1> QED BY <1>1, <1>2 DEF CallbackInv, DriverInv, OwedInv

\* Every step of its callback takes a goal nearer to its result.
LEMMA CallbackNears ==
  ASSUME IInv, NEW g \in Goals, g \notin unhanded', HeldByCallback(g),
         \/ HandleAccepted(g) \/ PlanCallback(g)
         \/ \E usable \in BOOLEAN : PlanDone(g, usable)
  PROVE  Left(g)' < Left(g)
  <1>a. /\ TypeOK /\ inbox \in Seq(Message)
        /\ ~HeldByDriver(g)
        /\ pc[g] # "accepted" => g \in goals
    BY DEF IInv, CallbackInv, TypeOK, DriverTypeOK
  <1> USE DEF GoTo, driverVars
  <1>1. ASSUME UNCHANGED <<inbox, active, settling>>,
               NEW point \in {"planning", "submitting", "marking", "registering",
                              "handing", "deciding", "ending", "erasing"},
               GoTo(g, point), CallbackLeft(pc[g]) > IF point = "erasing" THEN 0
                                                     ELSE CallbackLeft(point)
        PROVE  Left(g)' < Left(g)
    <2>1. pc'[g] = point /\ Left(g) = CallbackLeft(pc[g])
      BY <1>a, <1>1 DEF TypeOK, Left
    <2>2. ~Posted(g)' /\ active' # g /\ settling'.goal # g
      BY <1>a, <1>1 DEF HeldByDriver, Posted
    <2>3. CASE point = "erasing"
      <3>1. ~HeldByCallback(g)'
        BY <2>1, <2>3 DEF HeldByCallback
      <3>2. Left(g)' = 0
        BY <2>2, <3>1 DEF Left
      <3> QED BY <1>1, <2>1, <2>3, <3>2
    <2>4. CASE point # "erasing"
      <3>1. HeldByCallback(g)'
        BY <1>1, <2>1, <2>4 DEF HeldByCallback
      <3>2. Left(g)' = CallbackLeft(point)
        BY <2>1, <3>1 DEF Left
      <3> QED BY <1>1, <2>1, <2>4, <3>2
    <2> QED BY <2>3, <2>4
  <1>2. CASE HandleAccepted(g)
    BY <1>1, <1>2 DEF HandleAccepted, CallbackLeft
  <1>3. CASE \E usable \in BOOLEAN : PlanDone(g, usable)
    <2>1. pc[g] = "planning" /\ (GoTo(g, "submitting") \/ GoTo(g, "deciding"))
      BY <1>a, <1>3 DEF PlanDone, SettleLocal
    <2> QED BY <1>1, <1>3, <2>1 DEF PlanDone, CallbackLeft
  <1>4. CASE Submit(g)
    <2>1. pc[g] = "submitting" /\ (GoTo(g, "marking") \/ GoTo(g, "deciding"))
      BY <1>4 DEF Submit, SettleLocal
    <2> QED BY <1>1, <1>4, <2>1 DEF Submit, CallbackLeft
  <1>5. CASE MarkExecuting(g)
    BY <1>1, <1>5 DEF MarkExecuting, CallbackLeft
  <1>6. CASE RegisterOwner(g)
    BY <1>1, <1>6 DEF RegisterOwner, CallbackLeft
  <1>7. CASE HandOver(g)
    <2>1. pc[g] = "handing" /\ pc'[g] = "rereading" /\ Left(g) = 7
      BY <1>a, <1>7 DEF HandOver, TypeOK, Left, CallbackLeft
    <2>2. inbox' = Append(inbox, GoalMsg(g))
      BY <1>7 DEF HandOver, PostGated
    <2>3. Posted(g)'
      BY <1>a, <2>2, Messages, OccursAppend DEF Posted
    <2>4. Left(g)' = 6
      BY <2>1, <2>3 DEF Left, HeldByCallback
    <2> QED BY <2>1, <2>4
  <1>8. CASE DecideLocal(g)
    BY <1>1, <1>8 DEF DecideLocal, CallbackLeft
  <1>9. CASE EndLocal(g)
    BY <1>1, <1>9 DEF EndLocal, CallbackLeft
  <1>10. CASE RereadCancel(g) \/ ReissueCancel(g) \/ Erase(g)
    BY <1>10 DEF RereadCancel, ReissueCancel, Erase, HeldByCallback
  <1> QED
    BY <1>2, <1>3, <1>4, <1>5, <1>6, <1>7, <1>8, <1>9, <1>10 DEF PlanCallback
\* So does every step of the driver for it: out of the inbox, to the end of its
\* motion, through settle().
LEMMA DriverNears ==
  ASSUME IInv, NEW g \in Goals, ~HeldByCallback(g),
         \/ DrainGoal /\ Head(inbox) = GoalMsg(g)
         \/ active = g /\ FinishMotion
         \/ settling.goal = g /\ Sampler
  PROVE  Left(g)' < Left(g)
  <1>a. /\ TypeOK /\ inbox \in Seq(Message) /\ g # NoGoal
        /\ SettlingInv /\ DriverInv(g)
    BY DEF IInv, TypeOK, DriverTypeOK
  <1>b. pc' = pc => ~HeldByCallback(g)'
    BY DEF HeldByCallback
  <1> USE DEF BeginSettle, Left, SettleLeft
  <1>1. CASE DrainGoal /\ Head(inbox) = GoalMsg(g)
    <2>1. inbox # <<>> /\ inbox' = Tail(inbox) /\ pc' = pc /\ Head(inbox).goal = g
      BY <1>1 DEF DrainGoal, PopInbox, GoalMsg
    <2>2. Posted(g) /\ ~Posted(g)'
      BY <1>a, <1>1, <2>1, OccursTail DEF Posted, DriverInv
    <2>3. active' = g \/ (active' = active /\ settling'.goal = g /\ settling'.at = "routing")
      BY <1>1, <2>1 DEF DrainGoal
    <2>4. Left(g) = 6
      BY <2>2
    <2>5. Left(g)' \in {4, 5}
      BY <1>b, <2>1, <2>2, <2>3
    <2> QED BY <2>4, <2>5
  <1>2. CASE active = g /\ FinishMotion
    <2>1. /\ ~Posted(g) /\ ~Posted(g)' /\ pc' = pc /\ active' = NoGoal
          /\ settling'.goal = g /\ settling'.at = "routing"
      BY <1>a, <1>2 DEF FinishMotion, Posted, DriverInv
    <2>2. Left(g) = 5
      BY <1>2, <2>1
    <2>3. Left(g)' = 4
      BY <1>a, <1>b, <2>1
    <2> QED BY <2>2, <2>3
  <1>3. CASE settling.goal = g /\ Sampler
    <2>1. settling.at # "idle" /\ ~Posted(g) /\ active # g
      BY <1>a, <1>3 DEF SettlingInv, DriverInv
    <2>2. Left(g) = SettleLeft(settling.at)
      BY <1>3, <2>1
    <2>3. UNCHANGED <<inbox, active, pc>>
      BY <1>3, <2>1 DEF Sampler, Drain, DrainGoal, DrainCancel, DrainHalt, Route, LookUp,
         Decide, End, driverVars
    <2>4. Left(g)' = IF settling'.goal = g THEN SettleLeft(settling'.at) ELSE 0
      BY <1>b, <2>1, <2>3 DEF Posted
    <2>5. \/ settling.at = "routing"
             /\ (settling'.goal = NoGoal \/ (settling'.goal = g /\ settling'.at = "looking"))
          \/ settling.at = "looking"
             /\ (settling'.goal = NoGoal \/ (settling'.goal = g /\ settling'.at = "deciding"))
          \/ settling.at = "deciding" /\ settling'.goal = g /\ settling'.at = "ending"
          \/ settling.at = "ending" /\ settling'.goal = NoGoal
      <3>t. settling \in [at : SettlePoints, goal : Goals \cup {NoGoal},
                          code : Codes, call : TerminalCalls]
        BY <1>a DEF TypeOK
      <3>1. CASE Route
        BY <1>3, <3>1, <3>t DEF Route, NotSettling
      <3>2. CASE LookUp
        BY <1>3, <3>2, <3>t DEF LookUp, NotSettling
      <3>3. CASE Decide
        BY <1>3, <3>3, <3>t DEF Decide
      <3>4. CASE End
        BY <1>3, <3>4 DEF End, NotSettling
      <3> QED BY <1>3, <2>1, <3>1, <3>2, <3>3, <3>4
          DEF Sampler, Drain, DrainGoal, DrainCancel, DrainHalt
    <2> QED BY <1>a, <2>2, <2>4, <2>5
  <1> QED BY <1>1, <1>2, <1>3

\* And no step of anyone else, another goal, a cancel of this one, the driver for
\* another or the environment, takes it farther.
LEMMA OthersKeep ==
  ASSUME IInv, [Next]_vars, NEW g \in Goals, handle[g] \in Live, ~OwnStep(g)
  PROVE  Left(g)' <= Left(g)
  <1>a. /\ TypeOK /\ inbox \in Seq(Message) /\ g # NoGoal
        /\ SettlingInv /\ DriverInv(g) /\ CallbackInv(g)
    BY DEF IInv, TypeOK, DriverTypeOK
  <1>o. /\ ~HandleAccepted(g) /\ \A usable \in BOOLEAN : ~PlanDone(g, usable)
        /\ ~(HeldByCallback(g) /\ PlanCallback(g))
        /\ ~(DrainGoal /\ Head(inbox) = GoalMsg(g))
        /\ ~(active = g /\ FinishMotion) /\ ~(settling.goal = g /\ Sampler)
    BY DEF OwnStep
  <1> DEFINE InInbox == Occurs(GoalMsg(g), inbox)
  <1> USE DEF GoTo, driverVars
  <1>s. ASSUME pc'[g] = pc[g], InInbox' <=> InInbox, active' = active,
               settling' = settling
        PROVE  Left(g)' <= Left(g)
    <2>1. Left(g)' = Left(g)
      BY <1>s DEF Left, HeldByCallback, Posted
    <2> QED BY <2>1, LeftRange
  <1>t. ASSUME ~HeldByCallback(g), ~HeldByCallback(g)', InInbox' <=> InInbox,
               active' = active, settling' = settling
        PROVE  Left(g)' <= Left(g)
    <2>1. Left(g)' = Left(g)
      BY <1>t DEF Left, Posted
    <2> QED BY <2>1, LeftRange
  <1>p. ASSUME \/ inbox' = inbox
               \/ \E e \in Message : e # GoalMsg(g) /\ inbox' = Append(inbox, e)
        PROVE  InInbox' <=> InInbox
    <2>1. CASE inbox' = inbox
      BY <2>1
    <2>2. ASSUME NEW e \in Message, e # GoalMsg(g), inbox' = Append(inbox, e)
          PROVE  InInbox' <=> InInbox
      <3>1. Occurs(GoalMsg(g), Append(inbox, e)) <=> Occurs(GoalMsg(g), inbox)
        BY <1>a, <2>2, OccursAppend
      <3> QED BY <2>2, <3>1
    <2> QED BY <1>p, <2>1, <2>2
  <1> HIDE DEF InInbox
  <1>1. ASSUME NEW h \in Goals,
               RejectGoal(h) \/ AcceptGoal(h) \/ HandleAccepted(h) \/ Submit(h)
        PROVE  Left(g)' <= Left(g)
    <2>1. h # g \/ pc' = pc
      BY <1>o, <1>1 DEF RejectGoal, AcceptGoal, Live, Submit, PlanCallback, HeldByCallback
    <2>2. (\E point : GoTo(h, point)) \/ pc' = pc
      BY <1>1 DEF RejectGoal, AcceptGoal, HandleAccepted, Submit, SettleLocal
    <2>3. UNCHANGED <<inbox, active, settling>>
      BY <1>1 DEF RejectGoal, AcceptGoal, HandleAccepted, Submit
    <2>4. pc'[g] = pc[g]
      BY <1>a, <2>1, <2>2 DEF TypeOK
    <2> QED BY <1>p, <1>s, <2>3, <2>4
  <1>2. ASSUME NEW h \in Goals, MarkExecuting(h) \/ RegisterOwner(h) \/ HandOver(h)
        PROVE  Left(g)' <= Left(g)
    <2>1. h # g
      BY <1>o, <1>2 DEF MarkExecuting, RegisterOwner, HandOver, PlanCallback, HeldByCallback
    <2>2. pc'[g] = pc[g]
      BY <1>a, <1>2, <2>1 DEF MarkExecuting, RegisterOwner, HandOver, TypeOK
    <2>3. UNCHANGED <<active, settling>>
          /\ (inbox' = inbox \/ inbox' = Append(inbox, GoalMsg(h)))
      BY <1>2 DEF MarkExecuting, RegisterOwner, HandOver, PostGated
    <2>4. InInbox' <=> InInbox
      BY <1>p, <2>1, <2>3, Messages
    <2> QED BY <1>s, <2>2, <2>3, <2>4
  <1>3. ASSUME NEW h \in Goals, RereadCancel(h) \/ ReissueCancel(h) \/ Erase(h)
        PROVE  Left(g)' <= Left(g)
    <2>1. UNCHANGED <<active, settling>>
          /\ (inbox' = inbox \/ inbox' = Append(inbox, CancelMsg(h)))
      BY <1>3 DEF RereadCancel, ReissueCancel, Erase, PostGated
    <2>2. InInbox' <=> InInbox
      BY <1>p, <2>1, Messages
    <2>3. /\ pc[h] \in {"rereading", "recanceling", "erasing"}
          /\ \E point \in {"recanceling", "returned"} : GoTo(h, point)
      BY <1>3 DEF RereadCancel, ReissueCancel, Erase
    <2>4. CASE h = g
      <3>1. ~HeldByCallback(g) /\ ~HeldByCallback(g)'
        BY <1>a, <2>3, <2>4 DEF HeldByCallback, TypeOK
      <3> QED BY <1>t, <2>1, <2>2, <3>1
    <2>5. CASE h # g
      <3>1. pc'[g] = pc[g]
        BY <1>a, <2>3, <2>5 DEF TypeOK
      <3> QED BY <1>s, <2>1, <2>2, <3>1
    <2> QED BY <2>4, <2>5
  <1>4. ASSUME NEW h \in Goals,
               \/ DecideLocal(h) \/ EndLocal(h)
               \/ \E usable \in BOOLEAN : PlanDone(h, usable)
        PROVE  Left(g)' <= Left(g)
    <2>1. h # g
      BY <1>o, <1>4 DEF DecideLocal, EndLocal, PlanCallback, HeldByCallback
    <2>2. \E point : GoTo(h, point)
      BY <1>4 DEF DecideLocal, EndLocal, PlanDone, SettleLocal
    <2>3. UNCHANGED <<inbox, active, settling>>
      BY <1>4 DEF DecideLocal, EndLocal, PlanDone
    <2>4. pc'[g] = pc[g]
      BY <1>a, <2>1, <2>2 DEF TypeOK
    <2> QED BY <1>p, <1>s, <2>3, <2>4
  <1>5. ASSUME NEW h \in Goals,
               \/ HandleCancel(h) \/ CancelAtDriver(h) \/ CancelAtPlanner(h)
               \/ CancelTransition(h)
        PROVE  Left(g)' <= Left(g)
    <2>1. UNCHANGED <<pc, active, settling>>
          /\ (inbox' = inbox \/ inbox' = Append(inbox, CancelMsg(h)))
      BY <1>5
      DEF HandleCancel, CancelAtDriver, CancelAtPlanner, CancelTransition, PostGated
    <2> QED BY <1>p, <1>s, <2>1, Messages
  <1>6. ASSUME DrainGoal \/ DrainCancel \/ DrainHalt PROVE Left(g)' <= Left(g)
    <2>1. /\ inbox # <<>> /\ inbox' = Tail(inbox) /\ pc' = pc /\ settling.goal # g
          /\ Head(inbox) # GoalMsg(g)
      BY <1>a, <1>o, <1>6
      DEF DrainGoal, DrainCancel, DrainHalt, PopInbox, SettlingInv, GoalMsg
    <2>2. Occurs(GoalMsg(g), inbox') <=> Occurs(GoalMsg(g), inbox)
      BY <1>a, <2>1, OccursTail
    <2>3. active' = g => active = g
      <3>1. CASE DrainGoal
        <4>1. Head(inbox) \in Message /\ Head(inbox).kind = "goal"
          BY <1>a, <2>1, <3>1 DEF DrainGoal
        <4>2. Head(inbox).goal # g
          BY <2>1, <4>1, Messages
        <4> QED BY <3>1, <4>2 DEF DrainGoal
      <3>2. CASE DrainCancel \/ DrainHalt
        BY <1>a, <3>2 DEF DrainCancel, DrainHalt
      <3> QED BY <1>6, <3>1, <3>2
    <2>4. settling'.goal = g => active = g
      <3>1. CASE DrainGoal
        <4>1. Head(inbox) \in Message /\ Head(inbox).kind = "goal"
          BY <1>a, <2>1, <3>1 DEF DrainGoal
        <4>2. Head(inbox).goal # g
          BY <2>1, <4>1, Messages
        <4> QED BY <2>1, <3>1, <4>2 DEF DrainGoal, BeginSettle
      <3>2. CASE DrainCancel \/ DrainHalt
        BY <2>1, <3>2 DEF DrainCancel, DrainHalt, BeginSettle
      <3> QED BY <1>6, <3>1, <3>2
    <2> USE DEF HeldByCallback, Posted
    <2>5. CASE HeldByCallback(g) \/ Posted(g)
      <3>1. Left(g)' = Left(g)
        BY <2>1, <2>2, <2>5 DEF Left
      <3> QED BY <3>1, LeftRange
    <2>6. CASE ~HeldByCallback(g) /\ ~Posted(g) /\ active = g
      <3>1. Left(g) = 5
        BY <2>6 DEF Left
      <3>2. Left(g)' \in {0, 1, 2, 3, 4, 5}
        BY <2>1, <2>2, <2>6 DEF Left, SettleLeft
      <3> QED BY <3>1, <3>2
    <2>7. CASE ~HeldByCallback(g) /\ ~Posted(g) /\ active # g
      <3>1. Left(g)' = 0
        BY <2>1, <2>2, <2>3, <2>4, <2>7 DEF Left
      <3> QED BY <3>1, LeftRange
    <2> QED BY <2>5, <2>6, <2>7
  <1>7. ASSUME FinishMotion PROVE Left(g)' <= Left(g)
    <2>1. /\ UNCHANGED <<pc, inbox>> /\ active # g /\ active' # g
          /\ settling.goal # g /\ settling'.goal # g
      BY <1>a, <1>o, <1>7 DEF FinishMotion, BeginSettle, SettlingInv
    <2>2. Left(g)' = Left(g)
      BY <2>1 DEF Left, HeldByCallback, Posted
    <2> QED BY <2>2, LeftRange
  <1>8. ASSUME Route \/ LookUp \/ Decide \/ End PROVE Left(g)' <= Left(g)
    <2>1. settling.goal # g
      BY <1>o, <1>8 DEF Sampler
    <2>2. UNCHANGED <<pc, inbox, active>> /\ settling'.goal # g
      <3>1. settling'.goal \in {settling.goal, NoGoal}
        <4>1. settling \in [at : SettlePoints, goal : Goals \cup {NoGoal},
                            code : Codes, call : TerminalCalls]
          BY <1>a DEF TypeOK
        <4>2. \/ settling' = [settling EXCEPT !.at = "looking"]
              \/ settling' = [settling EXCEPT !.at = "deciding"]
              \/ \E call : settling' = [settling EXCEPT !.at = "ending", !.call = call]
              \/ settling' = NotSettling
          BY <1>8 DEF Route, LookUp, Decide, End
        <4>3. CASE \E call : settling' = [settling EXCEPT !.at = "ending", !.call = call]
          BY <4>1, <4>3
        <4>4. CASE \E at : settling' = [settling EXCEPT !.at = at]
          BY <4>1, <4>4
        <4>5. CASE settling' = NotSettling
          BY <4>5 DEF NotSettling
        <4> QED BY <4>2, <4>3, <4>4, <4>5
      <3> QED BY <1>a, <1>8, <2>1, <3>1 DEF Route, LookUp, Decide, End
    <2>3. Left(g)' = Left(g)
      BY <2>1, <2>2 DEF Left, HeldByCallback, Posted
    <2> QED BY <2>3, LeftRange
  <1>9. ASSUME Environment PROVE Left(g)' <= Left(g)
    <2>1. /\ UNCHANGED <<pc, active, settling>>
          /\ \/ inbox' = inbox \/ inbox' = Append(inbox, HaltMsg("Halted"))
             \/ inbox' = Append(inbox, HaltMsg("ContactStop"))
      BY <1>9 DEF Environment, ChangeAuthority, LatchContact, ClearContact
    <2> QED BY <1>p, <1>s, <2>1, Messages
  <1>10. ASSUME UNCHANGED vars PROVE Left(g)' <= Left(g)
    <2>1. UNCHANGED <<pc, inbox, active, settling>>
      BY <1>10 DEF vars
    <2> QED BY <1>p, <1>s, <2>1
  <1> QED
    BY NextCases, <1>1, <1>2, <1>3, <1>4, <1>5, <1>6, <1>7, <1>8, <1>9, <1>10

\* A live goal nears its result with every step of its own, its callback's or the
\* driver's, no other step takes it farther, and it has its result when nothing
\* is left, but for a goal whose handover was refused: the measure behind
\* ImplementsContractLive.
THEOREM GoalsAdvance ==
  Spec => [][\A g \in Goals :
               handle[g] \in Live /\ g \notin unhanded' =>
                 /\ Left(g)' <= Left(g)
                 /\ OwnStep(g) => Left(g)' < Left(g)
                 /\ Left(g)' = 0 <=> handle'[g] \notin Live]_vars
  <1> DEFINE Nothing == \A g \in Goals :
                          g \notin unhanded => (Left(g) = 0 <=> handle[g] \notin Live)
  <1>1. IInv => Nothing
    BY NothingLeft
  <1>2. IInv /\ Nothing' /\ [Next]_vars =>
          [\A g \in Goals :
             handle[g] \in Live /\ g \notin unhanded' =>
               /\ Left(g)' <= Left(g)
               /\ OwnStep(g) => Left(g)' < Left(g)
               /\ Left(g)' = 0 <=> handle'[g] \notin Live]_vars
    <2> SUFFICES ASSUME IInv, Nothing', [Next]_vars,
                        NEW g \in Goals, handle[g] \in Live, g \notin unhanded'
                 PROVE  /\ Left(g)' <= Left(g)
                        /\ OwnStep(g) => Left(g)' < Left(g)
                        /\ Left(g)' = 0 <=> handle'[g] \notin Live
      OBVIOUS
    <2>1. ASSUME OwnStep(g) PROVE Left(g)' < Left(g)
      <3>1. CASE HeldByCallback(g)
        <4>1. CallbackInv(g) /\ SettlingInv
          BY DEF IInv
        <4>2. ~HeldByDriver(g)
          BY <3>1, <4>1 DEF CallbackInv
        <4>3. ~(DrainGoal /\ Head(inbox) = GoalMsg(g))
          BY <4>2, OccursTail DEF HeldByDriver, Posted, DrainGoal, IInv, TypeOK,
             DriverTypeOK
        <4> QED BY <2>1, <3>1, <4>2, <4>3, CallbackNears DEF OwnStep, HeldByDriver
      <3>2. CASE ~HeldByCallback(g)
        <4>1. ~HandleAccepted(g) /\ ~\E usable \in BOOLEAN : PlanDone(g, usable)
          BY <3>2 DEF HandleAccepted, PlanDone, HeldByCallback
        <4> QED BY <2>1, <3>2, <4>1, DriverNears DEF OwnStep
      <3> QED BY <3>1, <3>2
    <2>2. Left(g)' \in 0 .. 12 /\ Left(g) \in 0 .. 12
      BY LeftRange DEF Left, CallbackLeft, SettleLeft
    <2>3. Left(g)' <= Left(g)
      BY <2>1, <2>2, OthersKeep
    <2> QED BY <2>1, <2>3
  <1> QED BY <1>1, <1>2, Inductive, PTL DEF Spec
=============================================================================
