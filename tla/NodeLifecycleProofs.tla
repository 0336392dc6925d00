------------------------ MODULE NodeLifecycleProofs ------------------------
(***************************************************************************)
(* Proofs about NodeLifecycle, for every bound and with or without contact *)
(* detection.                                                              *)
(***************************************************************************)
EXTENDS NodeLifecycle, TLAPS

USE LinkAssumption

-----------------------------------------------------------------------------
(* Type correctness: of the counts, of the call, and of the node's threads.  *)

Counts ==
  /\ clearsDone \in 0..MaxClears
  /\ events \in 0..MaxEvents
  /\ before \in 0..MaxClears
  /\ seen \in [state : LinkStates, clears : 0..MaxClears]

Flags ==
  /\ link \in LinkStates
  /\ pending \in BOOLEAN
  /\ contact \in {"clear", "latched", "dropping"}
  /\ at \in {"idle", "reading", "requesting", "refused", "polling", "judging"}
  /\ contactCleared \in BOOLEAN
  /\ answer \in Answers
  /\ commanded \in BOOLEAN

Threads ==
  /\ context \in {"valid", "shut"}
  /\ main \in MainPoints
  /\ executor \in {"off", "starting", "spinning", "canceled", "joined"}
  /\ drain \in {"off", "popping", "returned"}
  /\ onSignal \in {"rclcpp", "on_sigint"}
  /\ status \in Statuses
  /\ signaledIn \in MainPoints \cup {"never"}

LEMMA TypeParts == TypeOK <=> Counts /\ Flags /\ stop \in BOOLEAN /\ Threads
  BY Zenon DEF TypeOK, LinkTypeOK, Counts, Flags, Threads

LEMMA InitTypeOK == Init => TypeOK
<1> SUFFICES ASSUME Init PROVE Counts /\ Flags /\ stop \in BOOLEAN /\ Threads
  BY TypeParts
<1>1. Counts
  BY DEF Init, LinkInit, Counts, LinkStates
<1>2. Flags
  BY DEF Init, LinkInit, Flags, LinkStates, Answers, Messages
<1>3. stop \in BOOLEAN
  BY DEF Init, LinkInit
<1>4. Threads
  BY DEF Init, Threads, MainPoints, Starting, Statuses
<1> QED BY <1>1, <1>2, <1>3, <1>4

\* The counts are moved by the link, by what a call reads of it, and no more.
LEMMA NextCounts == Counts /\ link \in LinkStates /\ [Next]_vars => Counts'
<1> SUFFICES ASSUME Counts, link \in LinkStates, [Next]_vars PROVE Counts'
  OBVIOUS
<1> USE DEF Counts
<1>1. ASSUME UNCHANGED <<clearsDone, events, before, seen>> PROVE Counts'
  BY <1>1
<1>2. CASE UNCHANGED vars
  BY <1>1, <1>2 DEF vars, linkVars, callVars
<1>3. CASE Signal \/ LinkThrows \/ MainStep \/ SpinBegins \/ DrainReturns
  BY <1>1, <1>3 DEF Signal, LinkThrows, MainStep, Start, StartThreads, LinkReturns,
     MakeSafe, CancelExecutor, JoinSpin, JoinDrain, SpinBegins, DrainReturns, linkVars, callVars
<1>4. CASE Arm
  BY <1>4 DEF Arm, ArmEvent, ContactEvent, ResolveClear, Event, callVars
<1>5. CASE ClearFaults
  BY <1>1, <1>5 DEF ClearFaults, CallClear
<1>6. CASE OnClear \/ Deadline
  <2>1. CASE ReadBefore
    BY <2>1 DEF ReadBefore, linkVars
  <2>2. CASE RequestClear
    BY <1>1, <2>2 DEF RequestClear
  <2>3. CASE Poll
    BY <2>3 DEF Poll, linkVars
  <2>4. CASE AnswerRefused \/ AnswerOutcome \/ AnswerStopping \/ KeepPolling \/ AnswerLate
    BY <1>1, <2>4 DEF AnswerRefused, AnswerOutcome, AnswerStopping, KeepPolling, AnswerLate,
       linkVars
  <2> QED BY <1>6, <2>1, <2>2, <2>3, <2>4 DEF OnClear, Deadline, ClearStep
<1> QED BY <1>2, <1>3, <1>4, <1>5, <1>6 DEF Next

\* What the link and a call say of themselves keeps its types.
LEMMA NextFlags == Flags /\ [Next]_vars => Flags'
<1> SUFFICES ASSUME Flags, [Next]_vars PROVE Flags'
  OBVIOUS
<1> USE DEF Flags
<1>1. ASSUME UNCHANGED <<linkVars, callVars>> PROVE Flags'
  BY <1>1 DEF linkVars, callVars
<1>2. CASE UNCHANGED vars
  BY <1>1, <1>2 DEF vars
<1>3. CASE Signal \/ LinkThrows \/ MainStep \/ SpinBegins \/ DrainReturns
  BY <1>1, <1>3 DEF Signal, LinkThrows, MainStep, Start, StartThreads, LinkReturns,
     MakeSafe, CancelExecutor, JoinSpin, JoinDrain, SpinBegins, DrainReturns
<1>4. CASE Arm
  BY <1>4 DEF Arm, ArmEvent, ContactEvent, ResolveClear, MoveLink, LinkStates, callVars
<1>5. CASE ClearFaults
  BY <1>5 DEF ClearFaults, CallClear
<1>6. CASE OnClear \/ Deadline
  <2> USE DEF linkVars
  <2>1. CASE AnswerRefused \/ AnswerOutcome \/ AnswerStopping \/ AnswerLate
    <3>1. /\ UNCHANGED <<link, pending, contact, contactCleared, commanded>>
          /\ at' = "idle"
      BY <2>1 DEF AnswerRefused, AnswerOutcome, AnswerStopping, AnswerLate, Answer
    <3>2. \E success \in BOOLEAN, message \in Messages :
            answer' = [success |-> success, message |-> message]
      BY <2>1 DEF AnswerRefused, AnswerOutcome, AnswerStopping, AnswerLate, Answer, Messages
    <3>3. answer' \in Answers
      BY <3>2 DEF Answers
    <3> QED BY <3>1, <3>3
  <2>2. CASE ReadBefore \/ RequestClear \/ Poll \/ KeepPolling
    BY <2>2 DEF ReadBefore, RequestClear, Poll, KeepPolling
  <2> QED BY <1>6, <2>1, <2>2 DEF OnClear, Deadline, ClearStep
<1> QED BY <1>2, <1>3, <1>4, <1>5, <1>6 DEF Next

\* g_stop is only ever set.
LEMMA OneWay == [Next]_vars => stop' = stop \/ stop' = TRUE
<1> SUFFICES ASSUME [Next]_vars PROVE stop' = stop \/ stop' = TRUE
  OBVIOUS
<1>1. CASE UNCHANGED vars \/ Signal \/ LinkThrows \/ SpinBegins \/ DrainReturns \/ Arm
  BY <1>1 DEF vars, Signal, LinkThrows, SpinBegins, DrainReturns, Arm
<1>2. CASE MainStep
  BY <1>2 DEF MainStep, Start, StartThreads, LinkReturns, MakeSafe, CancelExecutor,
     JoinSpin, JoinDrain
<1>3. CASE ClearFaults \/ OnClear \/ Deadline
  BY <1>3 DEF ClearFaults, OnClear, Deadline, CallClear, ClearStep, ReadBefore,
     RequestClear, AnswerRefused, Poll, AnswerOutcome, AnswerStopping, KeepPolling,
     AnswerLate
<1> QED BY <1>1, <1>2, <1>3 DEF Next

\* The threads and the signals keep theirs.
LEMMA NextThreads == Threads /\ [Next]_vars => Threads'
<1> SUFFICES ASSUME Threads, [Next]_vars PROVE Threads'
  OBVIOUS
<1>1. ASSUME UNCHANGED <<main, threadVars, startVars, signaledIn>> PROVE Threads'
  BY <1>1 DEF Threads, threadVars, startVars
<1>2. CASE UNCHANGED vars
  BY <1>1, <1>2 DEF vars
<1>3. CASE SpinBegins \/ DrainReturns
  BY <1>3 DEF SpinBegins, DrainReturns, Threads, startVars
<1>4. CASE Arm \/ ClearFaults \/ OnClear \/ Deadline
  BY <1>1, <1>4 DEF Arm, ClearFaults, OnClear, Deadline
<1>5. CASE Signal
  <2>1. /\ UNCHANGED <<main, executor, drain, onSignal, status>>
        /\ context' = context \/ context' = "shut"
        /\ signaledIn' = signaledIn \/ signaledIn' = main
    BY <1>5 DEF Signal, threadVars
  <2> QED BY <2>1, Zenon DEF Threads
<1>6. ASSUME NEW from, NEW to \in Starting \cup {"running"} \cup WindingDown,
             Goto(from, to), signaledIn' = signaledIn,
             executor' \in {executor, "starting", "canceled", "joined"},
             drain' \in {drain, "popping"}
      PROVE  Threads'
  <2>1. to \in MainPoints
    BY DEF MainPoints
  <2>2. main' = to /\ UNCHANGED <<context, onSignal, status>>
    BY <1>6 DEF Goto, startVars
  <2> QED BY <1>6, <2>1, <2>2 DEF Threads
<1>7. ASSUME NEW from, NEW code \in Statuses,
             Exit(from, code), UNCHANGED <<executor, drain, signaledIn>>
      PROVE  Threads'
  <2>1. "exited" \in MainPoints
    BY DEF MainPoints
  <2>2. main' = "exited" /\ status' = code /\ UNCHANGED <<context, onSignal>>
    BY <1>7 DEF Exit
  <2> QED BY <1>7, <2>1, <2>2 DEF Threads
<1>8. \A code \in {"none", "0", "1", "2", "misconfigured", "no context"} : code \in Statuses
  BY DEF Statuses
<1>9. CASE Start
  <2>1. UNCHANGED <<executor, drain, signaledIn>>
    BY <1>9 DEF Start, threadVars
  <2>2. ASSUME NEW from, NEW to \in Starting, Goto(from, to) PROVE Threads'
    BY <1>6, <2>1, <2>2
  <2>3. ASSUME NEW from,
               NEW code \in {"0", "1", "2", "misconfigured", "no context"}, Exit(from, code)
        PROVE  Threads'
    BY <1>7, <1>8, <2>1, <2>3
  <2>4. /\ "creating" \in Starting /\ "waiting" \in Starting /\ "taking" \in Starting
        /\ "no model" \in Starting /\ "installing" \in Starting
        /\ "building" \in Starting /\ "configuring" \in Starting
        /\ "wiring" \in Starting /\ "setup" \in Starting
    BY DEF Starting
  <2>5. CASE Parse \/ CreateNode
    BY <2>2, <2>3, <2>4, <2>5 DEF Parse, CreateNode
  <2>6. CASE Wait \/ Take
    BY <2>2, <2>4, <2>6 DEF Wait, Take
  <2>7. CASE NoModel \/ ReturnEarly
    BY <2>3, <2>7 DEF NoModel, ReturnEarly
  <2>8. CASE InstallHandlers
    <3>1. "building" \in MainPoints
      BY <2>4 DEF MainPoints
    <3> QED BY <2>1, <2>8, <3>1 DEF InstallHandlers, Threads
  <2>9. CASE Build
    BY <2>2, <2>3, <2>4, <2>9 DEF Build
  <2>10. CASE Configure \/ Wire
    BY <2>2, <2>3, <2>4, <2>10 DEF Configure, Wire
  <2> QED BY <1>9, <2>5, <2>6, <2>7, <2>8, <2>9, <2>10 DEF Start
<1> USE DEF threadVars, startVars
<1>10. "running" \in Starting \cup {"running"} \cup WindingDown
       /\ \A point \in WindingDown : point \in Starting \cup {"running"} \cup WindingDown
  OBVIOUS
<1>11. /\ "stopping" \in WindingDown /\ "disarming" \in WindingDown
       /\ "canceling" \in WindingDown /\ "joining spin" \in WindingDown
       /\ "joining drain" \in WindingDown
  BY DEF WindingDown
<1>12. CASE StartThreads
  BY <1>6, <1>10, <1>12 DEF StartThreads
<1>13. CASE LinkReturns \/ MakeSafe
  BY <1>6, <1>10, <1>11, <1>13 DEF LinkReturns, MakeSafe
<1>14. CASE CancelExecutor
  BY <1>6, <1>10, <1>11, <1>14 DEF CancelExecutor
<1>15. CASE JoinSpin
  BY <1>6, <1>10, <1>11, <1>15 DEF JoinSpin
<1>16. CASE JoinDrain
  <2>1. (IF status = "none" THEN "0" ELSE status) \in Statuses
    BY <1>8 DEF Threads
  <2> QED BY <1>7, <1>16, <2>1 DEF JoinDrain
<1>17. CASE LinkThrows
  <2>1. "stopping" \in MainPoints
    BY <1>11 DEF MainPoints
  <2> QED BY <1>8, <1>17, <2>1 DEF LinkThrows, Threads
<1> QED
  BY <1>2, <1>3, <1>4, <1>5, <1>9, <1>12, <1>13, <1>14, <1>15, <1>16, <1>17
  DEF Next, MainStep

LEMMA NextTypeOK == TypeOK /\ [Next]_vars => TypeOK'
<1> SUFFICES ASSUME TypeOK, [Next]_vars PROVE TypeOK'
  OBVIOUS
<1>1. Counts /\ Flags /\ stop \in BOOLEAN /\ Threads
  BY TypeParts
<1>2. Counts'
  BY <1>1, NextCounts DEF Flags
<1>3. Flags' /\ Threads'
  BY <1>1, NextFlags, NextThreads
<1>4. stop' \in BOOLEAN
  BY <1>1, OneWay, Zenon
<1>5. TypeOK' <=> Counts' /\ Flags' /\ stop' \in BOOLEAN /\ Threads'
  BY Zenon DEF TypeOK, LinkTypeOK, Counts, Flags, Threads
<1> QED BY <1>2, <1>3, <1>4, <1>5

-----------------------------------------------------------------------------
(* The inductive invariant.                                                *)

LEMMA InitIInv == Init => IInv
<1> SUFFICES ASSUME Init PROVE IInv
  OBVIOUS
<1>1. ThreadsInv /\ SignalInv
  BY DEF Init, LinkInit, ThreadsInv, SignalInv, ok, StopsCleanly, WindingDown, Starting
<1>2. CallInv
  BY DEF Init, LinkInit, CallInv, FaultSuccessMeansRunning
<1>3. WaitInv
  BY DEF Init, WaitInv, WindingDown
<1> QED BY <1>1, <1>2, <1>3, InitTypeOK DEF IInv

\* Which threads exist follows main, and a joined executor serves no call.
LEMMA NextThreadsInv == TypeOK /\ ThreadsInv /\ [Next]_vars => ThreadsInv'
<1> SUFFICES ASSUME TypeOK, ThreadsInv, [Next]_vars PROVE ThreadsInv'
  OBVIOUS
<1> USE DEF ThreadsInv, Goto, Exit, threadVars, startVars, ok, Starting
<1>1. CASE UNCHANGED vars
  BY <1>1 DEF vars, callVars
<1>2. CASE Signal
  BY <1>2 DEF Signal, callVars
<1>3. CASE LinkThrows
  BY <1>3 DEF LinkThrows, callVars
<1>4. CASE Start
  BY <1>4 DEF Start, Parse, CreateNode, Wait, Take, NoModel, InstallHandlers, Build, Configure, Wire,
     ReturnEarly, callVars
<1>5. CASE StartThreads \/ LinkReturns \/ MakeSafe \/ CancelExecutor \/ JoinSpin \/ JoinDrain
  BY <1>5 DEF StartThreads, LinkReturns, MakeSafe, CancelExecutor, JoinSpin, JoinDrain,
     callVars
<1>6. CASE SpinBegins \/ DrainReturns
  BY <1>6 DEF SpinBegins, DrainReturns, callVars
<1>7. CASE Arm
  BY <1>7 DEF Arm, ArmEvent, ContactEvent, ResolveClear, callVars
<1>8. CASE ClearFaults
  BY <1>8 DEF ClearFaults, CallClear
\* A call in progress means an executor that has begun to spin and is not joined.
<1>9. CASE OnClear \/ Deadline
  <2>1. at # "idle"
    BY <1>9 DEF OnClear, Deadline, ClearStep, ReadBefore, RequestClear,
       AnswerRefused, Poll, AnswerOutcome, AnswerStopping, KeepPolling, AnswerLate
  <2>2. executor \notin {"off", "starting", "joined"}
    BY <2>1
  <2>3. UNCHANGED <<main, executor, drain>>
    BY <1>9 DEF OnClear, Deadline
  <2> QED BY <2>2, <2>3
<1> QED BY <1>1, <1>2, <1>3, <1>4, <1>5, <1>6, <1>7, <1>8, <1>9 DEF Next, MainStep

\* The context, the handler and the exit status follow the signals.
LEMMA NextSignalInv == TypeOK /\ SignalInv /\ [Next]_vars => SignalInv'
<1> SUFFICES ASSUME TypeOK, SignalInv, [Next]_vars PROVE SignalInv'
  OBVIOUS
<1> USE DEF SignalInv, StopsCleanly, Goto, Exit, threadVars, startVars, ok, Starting, WindingDown
<1>1. ASSUME UNCHANGED <<main, startVars, signaledIn, stop>> PROVE SignalInv'
  BY <1>1
<1>2. CASE UNCHANGED vars
  BY <1>1, <1>2 DEF vars
<1>3. CASE Signal
  <2>1. main' = main /\ onSignal' = onSignal /\ status' = status /\ main # "exited"
    BY <1>3 DEF Signal, ok
  <2>2. signaledIn' = IF signaledIn = "never" THEN main ELSE signaledIn
    BY <1>3 DEF Signal, ok
  <2>3. CASE onSignal = "rclcpp"
    <3>1. context' = "shut" /\ stop' = stop /\ context = "valid"
      BY <1>3, <2>3 DEF Signal
    <3>2. main \in {"parsing", "creating", "waiting", "taking", "no model", "installing"}
      BY <2>1, <2>3 DEF TypeOK, MainPoints
    <3>3. signaledIn' \in {"parsing", "creating", "waiting", "taking", "no model", "installing"}
          /\ (signaledIn' \in {"waiting", "no model"} => main \in {"waiting", "no model"})
      BY <2>2, <2>3, <3>1, <3>2
    <3> QED BY <2>1, <2>3, <3>1, <3>2, <3>3
  <2>4. CASE onSignal = "on_sigint"
    <3>1. context' = context /\ stop' = TRUE
      BY <1>3, <2>4 DEF Signal
    <3>2. main \in {"building", "configuring", "wiring", "setup", "running"} \cup WindingDown
      BY <2>1, <2>4 DEF TypeOK, MainPoints
    <3>3. signaledIn' # "never"
      BY <2>2, <3>2
    <3> QED BY <2>1, <2>2, <3>1, <3>2, <3>3
  <2> QED BY <2>3, <2>4 DEF TypeOK
<1>4. CASE LinkThrows
  BY <1>4 DEF LinkThrows
<1>5. CASE Start
  <2>1. UNCHANGED <<stop, signaledIn>>
    BY <1>5 DEF Start
  <2>2. CASE Parse
    BY <2>1, <2>2 DEF Parse
  <2>3. CASE CreateNode
    BY <2>1, <2>3 DEF CreateNode
  <2>4. CASE Wait \/ Take
    BY <2>1, <2>4 DEF Wait, Take
  <2>5. CASE NoModel
    BY <2>1, <2>5 DEF NoModel
  <2>6. CASE InstallHandlers
    BY <2>1, <2>6 DEF InstallHandlers
  <2>7. CASE Build
    BY <2>1, <2>7 DEF Build
  <2>8. CASE Configure \/ Wire
    BY <2>1, <2>8 DEF Configure, Wire
  <2>9. CASE ReturnEarly
    BY <2>1, <2>9 DEF ReturnEarly
  <2> QED BY <1>5, <2>2, <2>3, <2>4, <2>5, <2>6, <2>7, <2>8, <2>9 DEF Start
<1>6. CASE StartThreads \/ LinkReturns \/ MakeSafe \/ CancelExecutor \/ JoinSpin \/ JoinDrain
  <2>1. CASE StartThreads
    BY <2>1 DEF StartThreads
  <2>2. CASE LinkReturns
    BY <2>2 DEF LinkReturns
  <2>3. CASE MakeSafe \/ CancelExecutor \/ JoinSpin
    <3>1. /\ UNCHANGED <<startVars, signaledIn, stop>>
          /\ main \in WindingDown /\ main' \in WindingDown
      BY <2>3 DEF MakeSafe, CancelExecutor, JoinSpin
    <3> QED BY <3>1
  <2>4. CASE JoinDrain
    BY <2>4 DEF JoinDrain
  <2> QED BY <1>6, <2>1, <2>2, <2>3, <2>4
<1>7. CASE SpinBegins \/ DrainReturns
  BY <1>1, <1>7 DEF SpinBegins, DrainReturns
<1>8. CASE Arm
  BY <1>1, <1>8 DEF Arm
<1>9. CASE ClearFaults \/ OnClear \/ Deadline
  BY <1>1, <1>9 DEF ClearFaults, OnClear, Deadline, CallClear, ClearStep, ReadBefore,
     RequestClear, AnswerRefused, Poll, AnswerOutcome, AnswerStopping, KeepPolling,
     AnswerLate
<1> QED BY <1>2, <1>3, <1>4, <1>5, <1>6, <1>7, <1>8, <1>9 DEF Next, MainStep

\* A signal is not lost, and the threads that main joins are those it started.
LEMMA NextWaitInv == TypeOK /\ SignalInv /\ WaitInv /\ [Next]_vars => WaitInv'
<1> SUFFICES ASSUME TypeOK, SignalInv, WaitInv, [Next]_vars PROVE WaitInv'
  OBVIOUS
<1> USE DEF WaitInv, Goto, Exit, threadVars, startVars, ok, WindingDown
<1>1. ASSUME UNCHANGED <<main, threadVars, startVars, signaledIn, stop>> PROVE WaitInv'
  BY <1>1
<1>2. CASE UNCHANGED vars
  BY <1>1, <1>2 DEF vars
\* rclcpp's handler is there only before the node is built.
<1>3. CASE Signal
  <2>1. UNCHANGED <<main, executor, drain>>
    BY <1>3 DEF Signal
  <2>2. CASE onSignal = "rclcpp"
    <3>1. main \notin {"configuring", "wiring", "setup", "running"} \cup WindingDown
      BY <2>2 DEF SignalInv
    <3>2. context' = "shut"
      BY <1>3, <2>2 DEF Signal
    <3> QED BY <2>1, <3>1, <3>2
  <2>3. CASE onSignal = "on_sigint"
    <3>1. stop' = TRUE /\ context' = context
      BY <1>3, <2>3 DEF Signal
    <3> QED BY <2>1, <3>1
  <2> QED BY <2>2, <2>3 DEF TypeOK
<1>4. CASE LinkThrows
  BY <1>4 DEF LinkThrows
<1>5. CASE Start
  <2>1. UNCHANGED <<stop, executor, drain, signaledIn>>
    BY <1>5 DEF Start
  <2>2. CASE Parse \/ CreateNode \/ Wait \/ Take \/ NoModel
    BY <2>1, <2>2 DEF Parse, CreateNode, Wait, Take, NoModel
  <2>3. CASE InstallHandlers
    BY <2>1, <2>3 DEF InstallHandlers
  <2>4. CASE Build
    BY <2>1, <2>4 DEF Build
  <2>5. CASE Configure \/ Wire \/ ReturnEarly
    BY <2>1, <2>5 DEF Configure, Wire, ReturnEarly
  <2> QED BY <1>5, <2>2, <2>3, <2>4, <2>5 DEF Start
<1>6. CASE StartThreads \/ LinkReturns \/ MakeSafe
  BY <1>6 DEF StartThreads, LinkReturns, MakeSafe
<1>7. CASE CancelExecutor \/ JoinSpin \/ JoinDrain
  BY <1>7 DEF CancelExecutor, JoinSpin, JoinDrain
<1>8. CASE SpinBegins \/ DrainReturns
  BY <1>8 DEF SpinBegins, DrainReturns
<1>9. CASE Arm
  BY <1>1, <1>9 DEF Arm
<1>10. CASE ClearFaults \/ OnClear \/ Deadline
  BY <1>1, <1>10 DEF ClearFaults, OnClear, Deadline, CallClear, ClearStep, ReadBefore,
     RequestClear, AnswerRefused, Poll, AnswerOutcome, AnswerStopping, KeepPolling,
     AnswerLate
<1> QED
  BY <1>2, <1>3, <1>4, <1>5, <1>6, <1>7, <1>8, <1>9, <1>10 DEF Next, MainStep

LEMMA AnswerFields ==
  ASSUME NEW a, NEW success, NEW message, a = [success |-> success, message |-> message]
  PROVE  a.success = success /\ a.message = message
  OBVIOUS

\* A success is answered from a read of a running link, or after one.
LEMMA NextCallInv == TypeOK /\ CallInv /\ [Next]_vars => CallInv'
<1> SUFFICES ASSUME TypeOK, CallInv, [Next]_vars PROVE CallInv'
  OBVIOUS
<1> USE DEF CallInv, FaultSuccessMeansRunning
<1>1. ASSUME UNCHANGED <<linkVars, callVars>> PROVE CallInv'
  BY <1>1 DEF linkVars, callVars
<1>2. CASE UNCHANGED vars
  BY <1>1, <1>2 DEF vars
<1>3. CASE Signal \/ LinkThrows \/ MainStep \/ SpinBegins \/ DrainReturns
  BY <1>1, <1>3 DEF Signal, LinkThrows, MainStep, Start, StartThreads, LinkReturns,
     MakeSafe, CancelExecutor, JoinSpin, JoinDrain, SpinBegins, DrainReturns
<1>4. CASE Arm
  <2>1. CASE ArmEvent
    BY <2>1 DEF ArmEvent, MoveLink
  <2>2. CASE ContactEvent
    BY <2>2 DEF ContactEvent, callVars
  <2>3. CASE ResolveClear
    BY <2>3 DEF ResolveClear, MoveLink
  <2> QED BY <1>4, <2>1, <2>2, <2>3 DEF Arm
<1>5. CASE ClearFaults
  BY <1>5 DEF ClearFaults, CallClear
<1>6. CASE OnClear \/ Deadline
  <2> USE DEF linkVars, Answer
  <2>1. CASE ReadBefore
    BY <2>1 DEF ReadBefore
  <2>2. CASE RequestClear
    BY <2>2 DEF RequestClear
  <2>3. CASE AnswerRefused
    <3>1. /\ UNCHANGED <<link, commanded, seen>>
          /\ at' = "idle"
      BY <2>3 DEF AnswerRefused
    <3>2. \/ answer' = [success |-> TRUE, message |-> "contact"]
          \/ answer' = [success |-> FALSE, message |-> "not faulted"]
      BY <2>3 DEF AnswerRefused
    <3>3. answer'.success = FALSE \/ answer'.message = "contact"
      BY <3>2, AnswerFields, Zenon
    <3> QED BY <3>1, <3>3
  <2>4. CASE Poll
    BY <2>4 DEF Poll
  <2>5. CASE AnswerOutcome \/ AnswerStopping \/ AnswerLate
    <3>1. /\ at = "judging" /\ UNCHANGED <<link, commanded, seen>>
          /\ at' = "idle"
          /\ \E message : answer' = [success |-> seen.state = "running", message |-> message]
      BY <2>5 DEF AnswerOutcome, AnswerStopping, AnswerLate
    <3>2. answer'.success = (seen.state = "running")
      BY <3>1, AnswerFields, Zenon
    <3> QED BY <3>1, <3>2
  <2>6. CASE KeepPolling
    BY <2>6 DEF KeepPolling
  <2> QED BY <1>6, <2>1, <2>2, <2>3, <2>4, <2>5, <2>6 DEF OnClear, Deadline, ClearStep
<1> QED BY <1>2, <1>3, <1>4, <1>5, <1>6 DEF Next

\* IInv is an invariant of every behaviour of the node.
THEOREM Inductive == Spec => []IInv
<1>1. IInv /\ [Next]_vars => IInv'
  BY NextTypeOK, NextThreadsInv, NextSignalInv, NextWaitInv, NextCallInv DEF IInv
<1> QED BY <1>1, InitIInv, PTL DEF Spec

-----------------------------------------------------------------------------
(* What follows from it.                                                   *)

\* When main returns, neither thread runs and no /clear_faults is in progress:
\* nothing still uses what main's stack held.
THEOREM MainReturnsLast == Spec => []NothingOutlivesMain
<1>1. IInv => NothingOutlivesMain
  BY DEF IInv, ThreadsInv, NothingOutlivesMain
<1> QED BY <1>1, Inductive, PTL

\* Wherever the signal falls, it is a requested stop; only in the two gaps can
\* it make the start throw.
THEOREM SignalsStopCleanly == Spec => []StopsCleanly
<1>1. IInv => StopsCleanly
  BY DEF IInv, SignalInv
<1> QED BY <1>1, Inductive, PTL

\* However many clears resolve while a call polls, a success is never answered
\* for an arm that has not run since the call.
THEOREM SuccessMeansRunning == Spec => []FaultSuccessMeansRunning
<1>1. IInv => FaultSuccessMeansRunning
  BY DEF IInv, CallInv
<1> QED BY <1>1, Inductive, PTL

-----------------------------------------------------------------------------
(* Liveness.  What a step does is proved; when a thread can take its step,   *)
(* WaitsOnlyHere, is a hypothesis, since the provers do not know ENABLED.    *)

Asked == signaledIn # "never"

\* How many steps main has left, at most, once a signal came during the start.
FourLeft == Asked /\ main = "building" /\ ok

ThreeLeft == Asked /\ main \in {"taking", "configuring"}

TwoLeft == Asked /\ main \in {"parsing", "waiting", "installing", "wiring"}

OneLeft ==
  /\ Asked
  /\ main \in {"creating", "no model", "setup"} \/ (main = "building" /\ ~ok)

Exited == main = "exited"

\* Only main moves itself, but for a link that gives up.
LEMMA MainMoves ==
  ASSUME [Next]_vars
  PROVE  main' = main \/ (<<MainStep>>_vars /\ main' # main) \/ LinkThrows
<1>1. CASE UNCHANGED vars
  BY <1>1 DEF vars
<1>2. CASE Signal \/ SpinBegins \/ DrainReturns \/ Arm \/ ClearFaults \/ OnClear \/ Deadline
  BY <1>2 DEF Signal, SpinBegins, DrainReturns, Arm, ClearFaults, OnClear, Deadline
<1>3. CASE MainStep
  BY <1>3 DEF vars
<1> QED BY <1>1, <1>2, <1>3 DEF Next

\* A signal during the start is not forgotten, nor is what became of the context.
LEMMA AskedStays ==
  ASSUME IInv, [Next]_vars, Asked
  PROVE  Asked' /\ (main = "building" => context' = context)
<1> USE DEF Asked, startVars, Goto, Exit
<1>1. CASE UNCHANGED vars
  BY <1>1 DEF vars
<1>2. CASE Signal
  BY <1>2 DEF Signal, IInv, SignalInv
<1>3. CASE LinkThrows \/ SpinBegins \/ DrainReturns \/ Arm \/ ClearFaults \/ OnClear \/ Deadline
  BY <1>3 DEF LinkThrows, SpinBegins, DrainReturns, Arm, ClearFaults, OnClear, Deadline
<1>4. CASE MainStep
  BY <1>4 DEF MainStep, Start, StartThreads, LinkReturns, MakeSafe, CancelExecutor,
     JoinSpin, JoinDrain, Parse, CreateNode, Wait, Take, NoModel, InstallHandlers,
     Build, Configure, Wire, ReturnEarly
<1> QED BY <1>1, <1>2, <1>3, <1>4 DEF Next

\* Each step of main brings a start that was asked to stop nearer to its end.
LEMMA StepsLeft ==
  ASSUME IInv, <<MainStep>>_vars, Asked'
  PROVE  /\ FourLeft => ThreeLeft' \/ Exited'
         /\ ThreeLeft => TwoLeft' \/ Exited'
         /\ TwoLeft => OneLeft' \/ Exited'
         /\ OneLeft => Exited'
<1> USE DEF FourLeft, ThreeLeft, TwoLeft, OneLeft, Exited, Asked, Goto, Exit
<1>1. CASE Start
  <2>1. CASE Parse \/ CreateNode \/ Wait \/ NoModel
    BY <2>1 DEF Parse, CreateNode, Wait, NoModel, IInv, SignalInv, WaitInv
  <2>2. CASE Take \/ Configure \/ Wire
    BY <2>2 DEF Take, Configure, Wire
  <2>3. CASE InstallHandlers
    BY <2>3 DEF InstallHandlers, ok, IInv, SignalInv, WaitInv
  <2>4. CASE Build \/ ReturnEarly
    BY <2>4 DEF Build, ReturnEarly
  <2> QED BY <1>1, <2>1, <2>2, <2>3, <2>4 DEF Start
<1>2. CASE StartThreads
  BY <1>2 DEF StartThreads, IInv, WaitInv
<1>3. CASE LinkReturns \/ MakeSafe \/ CancelExecutor \/ JoinSpin \/ JoinDrain
  BY <1>3 DEF LinkReturns, MakeSafe, CancelExecutor, JoinSpin, JoinDrain
<1> QED BY <1>1, <1>2, <1>3 DEF MainStep

\* A signal during the start ends the node.
LEMMA StartEnds ==
  FairSpec /\ []WaitsOnlyHere => ((Asked /\ main \in Starting) ~> Exited)
<1>1. IInv /\ [Next]_vars =>
        /\ FourLeft => FourLeft' \/ <<MainStep>>_vars
        /\ ThreeLeft => ThreeLeft' \/ <<MainStep>>_vars
        /\ TwoLeft => TwoLeft' \/ <<MainStep>>_vars
        /\ OneLeft => OneLeft' \/ <<MainStep>>_vars
  BY MainMoves, AskedStays DEF LinkThrows, FourLeft, ThreeLeft, TwoLeft, OneLeft, ok
<1>2. IInv /\ [Next]_vars /\ <<MainStep>>_vars =>
        /\ FourLeft => ThreeLeft' \/ Exited'
        /\ ThreeLeft => TwoLeft' \/ Exited'
        /\ TwoLeft => OneLeft' \/ Exited'
        /\ OneLeft => Exited'
  BY AskedStays, StepsLeft DEF FourLeft, ThreeLeft, TwoLeft, OneLeft
<1>3. WaitsOnlyHere =>
        (FourLeft \/ ThreeLeft \/ TwoLeft \/ OneLeft => ENABLED <<MainStep>>_vars)
  BY DEF WaitsOnlyHere, FourLeft, ThreeLeft, TwoLeft, OneLeft, Starting
<1>4. Asked /\ main \in Starting => FourLeft \/ ThreeLeft \/ TwoLeft \/ OneLeft
  BY DEF FourLeft, ThreeLeft, TwoLeft, OneLeft, Starting
<1> QED BY <1>1, <1>2, <1>3, <1>4, Inductive, PTL DEF FairSpec, Spec

\* Where main is going down; the call in progress once no other can begin.
Running == main = "running" /\ stop

Stopping == main = "stopping"

Disarming == main = "disarming"

Canceling == main = "canceling"

Canceled == main = "joining spin" /\ executor = "canceled"

Reading == at = "reading"

Requesting == at = "requesting"

Refused == at = "refused"

Polling == at = "polling"

Judging == at = "judging"

Quiet == at = "idle"

Unresolved == seen.clears = before

Joined == main = "joining drain"

Drained == drain = "returned"

\* g_stop stays set, and from the running on main only goes on to its end.
LEMMA GoingDown ==
  ASSUME IInv, [Next]_vars
  PROVE  /\ Running => Running' \/ Stopping'
         /\ Stopping => Stopping' \/ Disarming'
         /\ Disarming => Disarming' \/ Canceling'
         /\ Canceling => Canceling' \/ CancelLost' \/ Canceled'
         /\ Canceled => Canceled' \/ Joined'
         /\ Joined => Joined' \/ Exited'
         /\ Joined /\ Drained => Drained'
<1> USE DEF Running, Stopping, Disarming, Canceling, Canceled, Joined, Drained, Exited,
            CancelLost, Goto, Exit, threadVars
<1>0. stop => stop'
  BY OneWay, Zenon
<1>1. CASE UNCHANGED vars
  BY <1>1 DEF vars
<1>2. CASE Signal \/ Arm \/ ClearFaults \/ OnClear \/ Deadline
  <2>1. UNCHANGED <<main, executor, drain>>
    BY <1>2 DEF Signal, Arm, ClearFaults, OnClear, Deadline
  <2> QED BY <1>0, <2>1
<1>3. CASE LinkThrows
  BY <1>3 DEF LinkThrows
<1>4. CASE Start \/ StartThreads
  BY <1>4 DEF StartThreads, Start, Parse, CreateNode, Wait, Take, NoModel,
     InstallHandlers, Build, Configure, Wire, ReturnEarly
<1>5. CASE LinkReturns \/ MakeSafe \/ JoinSpin \/ JoinDrain
  BY <1>5 DEF LinkReturns, MakeSafe, JoinSpin, JoinDrain
<1>6. CASE CancelExecutor
  BY <1>6 DEF CancelExecutor, IInv, WaitInv
<1>7. CASE SpinBegins \/ DrainReturns
  BY <1>0, <1>7 DEF SpinBegins, DrainReturns
<1> QED BY <1>1, <1>2, <1>3, <1>4, <1>5, <1>6, <1>7 DEF Next, MainStep

\* What a step of main, or of the drain thread, brings about there.
LEMMA DownSteps ==
  ASSUME IInv
  PROVE  /\ <<MainStep>>_vars =>
              /\ Running => Stopping'
              /\ Stopping => Disarming'
              /\ Disarming => Canceling'
              /\ Canceling => CancelLost' \/ Canceled'
              /\ Canceled => Joined'
              /\ Joined => Exited'
         /\ <<DrainReturns>>_vars => Drained'
<1> USE DEF Running, Stopping, Disarming, Canceling, Canceled, Joined, Drained, Exited,
            CancelLost, Goto, Exit, threadVars
<1>1. CASE Start \/ StartThreads
  BY <1>1 DEF StartThreads, Start, Parse, CreateNode, Wait, Take, NoModel,
     InstallHandlers, Build, Configure, Wire, ReturnEarly, DrainReturns
<1>2. CASE LinkReturns \/ MakeSafe \/ JoinSpin \/ JoinDrain
  BY <1>2 DEF LinkReturns, MakeSafe, JoinSpin, JoinDrain, DrainReturns
<1>3. CASE CancelExecutor
  BY <1>3 DEF CancelExecutor, DrainReturns, IInv, WaitInv
<1>4. CASE ~MainStep
  BY <1>4 DEF DrainReturns
<1> QED BY <1>1, <1>2, <1>3, <1>4 DEF MainStep

\* How a call in progress goes on, whoever moves; none begins once the executor
\* is canceled.
LEMMA CallMoves ==
  ASSUME [Next]_vars
  PROVE  /\ Reading => Reading' \/ Requesting'
         /\ Requesting => Requesting' \/ Refused' \/ Polling'
         /\ Refused => Refused' \/ Quiet'
         /\ Polling => Polling' \/ Judging'
         /\ Judging => Judging' \/ Polling' \/ Quiet'
         /\ Judging /\ (stop \/ ~Unresolved) => Judging' \/ Quiet'
         /\ Canceled /\ Quiet => Quiet'
         /\ Judging /\ Judging' => UNCHANGED <<seen, before>>
<1> USE DEF Reading, Requesting, Refused, Polling, Judging, Quiet, Unresolved, Canceled,
            Answer, callVars
<1>1. CASE UNCHANGED vars
  BY <1>1 DEF vars
<1>2. CASE Signal \/ LinkThrows \/ SpinBegins \/ DrainReturns
  BY <1>2 DEF Signal, LinkThrows, SpinBegins, DrainReturns
<1>3. CASE MainStep
  BY <1>3 DEF MainStep, Start, StartThreads, LinkReturns, MakeSafe, CancelExecutor,
     JoinSpin, JoinDrain
<1>4. CASE Arm
  BY <1>4 DEF Arm, ArmEvent, ContactEvent, ResolveClear
<1>5. CASE ClearFaults
  BY <1>5 DEF ClearFaults, CallClear
<1>6. CASE OnClear \/ Deadline
  BY <1>6 DEF OnClear, Deadline, ClearStep, ReadBefore, RequestClear, AnswerRefused, Poll,
     AnswerOutcome, AnswerStopping, KeepPolling, AnswerLate
<1> QED BY <1>1, <1>2, <1>3, <1>4, <1>5, <1>6 DEF Next

\* What a step of the call brings about.
LEMMA CallSteps ==
  /\ <<OnClear>>_vars =>
       /\ Reading => Requesting'
       /\ Requesting => Refused' \/ Polling'
       /\ Refused => Quiet'
       /\ Polling => Judging'
       /\ Judging /\ (stop \/ ~Unresolved) => Quiet'
  /\ <<Deadline>>_vars => Quiet'
<1> USE DEF Reading, Requesting, Refused, Polling, Judging, Quiet, Unresolved, Answer
<1>1. OnClear =>
        /\ Reading => Requesting'
        /\ Requesting => Refused' \/ Polling'
        /\ Refused => Quiet'
        /\ Polling => Judging'
        /\ Judging /\ (stop \/ ~Unresolved) => Quiet'
  BY DEF OnClear, ClearStep, ReadBefore, RequestClear, AnswerRefused, Poll,
     AnswerOutcome, AnswerStopping, KeepPolling
<1>2. Deadline => Quiet'
  BY DEF Deadline, AnswerLate
<1> QED BY <1>1, <1>2

\* Once main is going down the call in progress is answered, and no other comes.
LEMMA CallsEnd ==
  FairSpec /\ []WaitsOnlyHere => (Canceled ~> Joined \/ (Canceled /\ Quiet))
<1>1. IInv /\ [Next]_vars => (Canceled => Canceled' \/ Joined')
  BY GoingDown
<1>2. [Next]_vars =>
        /\ Reading => Reading' \/ Requesting'
        /\ Requesting => Requesting' \/ Refused' \/ Polling'
        /\ Refused => Refused' \/ Quiet'
        /\ Polling => Polling' \/ Judging'
        /\ Judging => Judging' \/ Polling' \/ Quiet'
        /\ Judging /\ (stop \/ ~Unresolved) => Judging' \/ Quiet'
  BY CallMoves
<1>3. IInv => (Canceled => stop)
  BY DEF IInv, SignalInv, Canceled, WindingDown
<1>4. WaitsOnlyHere =>
        (Reading \/ Requesting \/ Refused \/ Polling \/ Judging => ENABLED <<OnClear>>_vars)
  BY DEF WaitsOnlyHere, Reading, Requesting, Refused, Polling, Judging
<1>5. IInv => Reading \/ Requesting \/ Refused \/ Polling \/ Judging \/ Quiet
  BY DEF IInv, TypeOK, LinkTypeOK, Reading, Requesting, Refused, Polling, Judging, Quiet
<1> QED BY <1>1, <1>2, <1>3, <1>4, <1>5, CallSteps, Inductive, PTL DEF FairSpec, Spec

\* A node that goes down comes to its end, unless its cancel was lost.
LEMMA DownEnds ==
  FairSpec /\ []WaitsOnlyHere =>
    ((Running \/ main \in WindingDown) ~> Exited \/ CancelLost)
<1>1. IInv /\ [Next]_vars =>
        /\ Running => Running' \/ Stopping'
        /\ Stopping => Stopping' \/ Disarming'
        /\ Disarming => Disarming' \/ Canceling'
        /\ Canceling => Canceling' \/ CancelLost' \/ Canceled'
        /\ Canceled => Canceled' \/ Joined'
        /\ Joined => Joined' \/ Exited'
        /\ Joined /\ Drained => Drained'
  BY GoingDown
<1>2. [Next]_vars => (Canceled /\ Quiet => Quiet')
  BY CallMoves
<1>3. IInv =>
        /\ <<MainStep>>_vars =>
             /\ Running => Stopping'
             /\ Stopping => Disarming'
             /\ Disarming => Canceling'
             /\ Canceling => CancelLost' \/ Canceled'
             /\ Canceled => Joined'
             /\ Joined => Exited'
        /\ <<DrainReturns>>_vars => Drained'
  BY DownSteps
<1>4. IInv /\ WaitsOnlyHere =>
        /\ Running \/ Stopping \/ Disarming \/ Canceling \/ (Canceled /\ Quiet)
             \/ (Joined /\ Drained)
           => ENABLED <<MainStep>>_vars
        /\ Joined => Drained \/ ENABLED <<DrainReturns>>_vars
  BY DEF WaitsOnlyHere, IInv, TypeOK, WaitInv, SignalInv, WindingDown, Running, Stopping,
     Disarming, Canceling, Canceled, Quiet, Joined, Drained
<1>5. IInv /\ main \in WindingDown =>
        Stopping \/ Disarming \/ Canceling \/ Canceled \/ CancelLost \/ Joined
  BY DEF IInv, WaitInv, WindingDown, Stopping, Disarming, Canceling, Canceled, CancelLost,
     Joined
<1> QED BY <1>1, <1>2, <1>3, <1>4, <1>5, CallsEnd, Inductive, PTL DEF FairSpec, Spec

\* Wherever the signal falls the node ends, and a link that gives up takes it
\* down, unless the cancel of the executor was lost.
THEOREM NodeEnds == FairSpec /\ []WaitsOnlyHere => ShutdownCompletes
<1>1. IInv /\ signaledIn # "never" =>
        (Asked /\ main \in Starting) \/ Running \/ main \in WindingDown \/ Exited
  BY DEF IInv, TypeOK, MainPoints, WaitInv, Asked, Running, Exited, ok
<1>2. Exited => main = "exited"
  BY DEF Exited
<1> QED
  BY <1>1, <1>2, StartEnds, DownEnds, Inductive, PTL DEF ShutdownCompletes, FairSpec, Spec

\* Every /clear_faults is answered: by its outcome, by a stop, or by a deadline
\* that it goes on meeting unresolved.
THEOREM ClearsEnd == FairSpec /\ []WaitsOnlyHere => EveryClearAnswered
<1>1. [Next]_vars =>
        /\ Reading => Reading' \/ Requesting'
        /\ Requesting => Requesting' \/ Refused' \/ Polling'
        /\ Refused => Refused' \/ Quiet'
        /\ Polling => Polling' \/ Judging'
        /\ Judging => Judging' \/ Polling' \/ Quiet'
        /\ Judging /\ (stop \/ ~Unresolved) => Judging' \/ Quiet'
        /\ Judging /\ Judging' => (Unresolved <=> Unresolved')
        /\ stop => stop'
  <2>1. [Next]_vars => (stop => stop')
    BY OneWay, Zenon
  <2> QED BY <2>1, CallMoves DEF Unresolved
<1>2. WaitsOnlyHere =>
        /\ Reading \/ Requesting \/ Refused \/ Polling \/ Judging => ENABLED <<OnClear>>_vars
        /\ Judging /\ Unresolved /\ ~stop => ENABLED <<Deadline>>_vars
  BY DEF WaitsOnlyHere, Reading, Requesting, Refused, Polling, Judging, Unresolved
<1>3. IInv => Reading \/ Requesting \/ Refused \/ Polling \/ Judging \/ Quiet
  BY DEF IInv, TypeOK, LinkTypeOK, Reading, Requesting, Refused, Polling, Judging, Quiet
<1>4. Quiet <=> at = "idle"
  BY DEF Quiet
<1> QED BY <1>1, <1>2, <1>3, <1>4, CallSteps, Inductive, PTL
        DEF EveryClearAnswered, FairSpec, Spec

-----------------------------------------------------------------------------
(* The lost cancel is the only thing in the way of a shutdown.             *)

\* The executor's thread has reached spin() whenever main cancels it.
SpinsInTime == [][CancelExecutor => executor = "spinning"]_vars

\* A cancel is lost only by the step that comes too early: never afterwards, as
\* the executor's thread cannot go back to where it was.
THEOREM OnlyLateSpinsLoseTheCancel == Spec /\ SpinsInTime => []~CancelLost
<1>1. Init => ~CancelLost
  BY DEF Init, CancelLost
<1>2. ASSUME IInv, ~CancelLost, [Next]_vars, [CancelExecutor => executor = "spinning"]_vars
      PROVE  ~CancelLost'
  <2> USE DEF CancelLost, Goto, Exit, threadVars
  <2>1. CASE UNCHANGED vars
    BY <1>2, <2>1 DEF vars
  <2>2. CASE Signal \/ LinkThrows \/ Arm \/ ClearFaults \/ OnClear \/ Deadline
    BY <1>2, <2>2 DEF Signal, LinkThrows, Arm, ClearFaults, OnClear, Deadline
  <2>3. CASE SpinBegins \/ DrainReturns
    BY <1>2, <2>3 DEF SpinBegins, DrainReturns
  <2>4. CASE Start \/ StartThreads
    BY <1>2, <2>4 DEF StartThreads, Start, Parse, CreateNode, Wait, Take, NoModel,
       InstallHandlers, Build, Configure, Wire, ReturnEarly
  <2>5. CASE LinkReturns \/ MakeSafe \/ JoinSpin \/ JoinDrain
    BY <1>2, <2>5 DEF LinkReturns, MakeSafe, JoinSpin, JoinDrain
  <2>6. CASE CancelExecutor
    <3>1. main' # main
      BY <2>6 DEF CancelExecutor
    <3>2. executor = "spinning"
      BY <1>2, <2>6, <3>1 DEF vars
    <3> QED BY <2>6, <3>2 DEF CancelExecutor
  <2> QED BY <1>2, <2>1, <2>2, <2>3, <2>4, <2>5, <2>6 DEF Next, MainStep
<1> QED BY <1>1, <1>2, Inductive, PTL DEF Spec, SpinsInTime

\* With the executor spinning in time, every signal and every link that gives
\* up ends the node: no join waits for ever, whatever the arm and the deadline
\* of a /clear_faults do.
THEOREM SpinningNodesEnd ==
  FairSpec /\ []WaitsOnlyHere /\ SpinsInTime =>
    /\ signaledIn # "never" ~> main = "exited"
    /\ main \in WindingDown ~> main = "exited"
<1>1. FairSpec => Spec
  BY PTL DEF FairSpec
<1> QED
  BY <1>1, NodeEnds, OnlyLateSpinsLoseTheCancel, PTL DEF ShutdownCompletes
=============================================================================
