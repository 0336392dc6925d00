---------------------- MODULE ArbitrationServerProofs ----------------------
(***************************************************************************)
(* Proofs about ArbitrationServer for every set of tokens and sources, any *)
(* queue depth and any number of grants and changes of mind.               *)
(***************************************************************************)
EXTENDS ArbitrationServer, TLAPS

USE ArbitrationAssumption

-----------------------------------------------------------------------------
(* Type correctness.                                                       *)

\* A status read off the Arbiter is a status.
LEMMA StatusTyped == TypeOK => Status \in StatusType
  BY DEF TypeOK, Status, StatusType

LEMMA NoStatusTyped == NoStatus \in StatusType
  <1>1. 0 \in 0..MaxGrants
    OBVIOUS
  <1> QED BY <1>1 DEF NoStatus, StatusType

\* What the e-stop sources put on the wire keeps it a queue of samples.
LEMMA QueuedTyped ==
  ASSUME NEW m \in Sample, wire \in Seq(Sample)
  PROVE  Queued(m) \in Seq(Sample)
  <1>1. CASE Len(wire) < Depth
    BY <1>1 DEF Queued
  <1>2. CASE ~(Len(wire) < Depth)
    <2>1. Len(wire) \in Nat /\ Len(wire) # 0
      BY <1>2
    <2>2. Tail(wire) \in Seq(Sample)
      BY <2>1
    <2> QED BY <1>2, <2>2 DEF Queued
  <1> QED BY <1>1, <1>2

LEMMA InitTypeOK == Init => TypeOK
  <1> SUFFICES ASSUME Init PROVE TypeOK
    OBVIOUS
  <1>1. 0 \in 0..MaxGrants /\ 0 \in 0..MaxFlips
    OBVIOUS
  <1>3. Status \in StatusType
    BY <1>1 DEF Init, Status, StatusType
  <1>2. <<>> \in Seq(Sample)
    OBVIOUS
  <1> QED BY <1>1, <1>2, <1>3, NoStatusTyped DEF Init, TypeOK, Points

LEMMA NextTypeOK == TypeOK /\ [Next]_vars => TypeOK'
  <1> SUFFICES ASSUME TypeOK, [Next]_vars PROVE TypeOK'
    OBVIOUS
  <1> USE DEF TypeOK, arbiterVars, serviceVars, statusVars, worldVars, Goto, Points
  <1>1. ASSUME NEW th \in Threads, Publish(th) PROVE TypeOK'
    BY <1>1, StatusTyped, NoStatusTyped
    DEF Publish, ReadStatus, StoreStatus, PublishStatus, Return
  <1>2. ASSUME NEW th \in Threads, ForgetToken(th) PROVE TypeOK'
    BY <1>2 DEF ForgetToken
  <1>3. ASSUME NEW t \in Tokens, Acquire(t) PROVE TypeOK'
    <2>1. generation' \in 0..MaxGrants
      BY <1>3 DEF Acquire
    <2>2. owner' \in Tokens \cup {NoToken} /\ granted' \in BOOLEAN
      BY <1>3 DEF Acquire
    <2> QED BY <1>3, <2>1, <2>2 DEF Acquire
  <1>4. ASSUME NEW t \in Tokens, Release(t) PROVE TypeOK'
    BY <1>4 DEF Release
  <1>5. CASE StoreRetained
    BY <1>5 DEF StoreRetained, EndRequest
  <1>6. CASE RevokeControl \/ StatusTimer
    BY <1>6 DEF RevokeControl, StatusTimer
  <1>7. CASE Revoke
    BY <1>7 DEF Revoke, EndRequest
  <1>8. ASSUME NEW s \in Sources, TakeUp(s) PROVE TypeOK'
    <2>1. Tail(wire) \in Seq(Sample) /\ Head(wire) \in Sample
      BY <1>8 DEF TakeUp
    <2>2. Head(wire).source \in Sources
      BY <2>1 DEF Sample
    <2>3. /\ engagedSources' \subseteq Sources
          /\ newest' \subseteq Sources
          /\ at' \in [Threads -> Points]
      BY <1>8, <2>2 DEF TakeUp, TakeEngage, TakeClearAttempt, TakeWithdrawal
    <2> QED BY <1>8, <2>1, <2>3 DEF TakeUp
  <1>9. CASE EstopLatch \/ EstopDropOwner \/ EstopClear
    BY <1>9 DEF EstopLatch, EstopDropOwner, EstopClear
  <1>10. ASSUME NEW s \in Sources, ChangeMind(s) PROVE TypeOK'
    BY <1>10 DEF ChangeMind
  <1>11. ASSUME NEW s \in Sources, Send(s) PROVE TypeOK'
    <2>1. [source |-> s, engaged |-> s \in asks, target |-> NoTarget] \in Sample
      BY DEF Sample
    <2>2. wire' \in Seq(Sample)
      BY <1>11, <2>1, QueuedTyped DEF Send
    <2> QED BY <1>11, <2>2 DEF Send
  <1>12. ASSUME NEW s \in Sources, NEW target \in Sources,
                SendClearAttempt(s, target)
         PROVE  TypeOK'
    BY <1>12, QueuedTyped DEF SendClearAttempt, Sample
  <1>13. CASE UNCHANGED vars
    BY <1>13 DEF vars
  <1> QED
    BY <1>1, <1>2, <1>3, <1>4, <1>5, <1>6, <1>7, <1>8, <1>9, <1>10, <1>11,
       <1>12, <1>13 DEF Next, ServiceStep, EstopStep, Threads

-----------------------------------------------------------------------------
(* The inductive invariant.                                                *)

LEMMA InitIInv == Init => IInv
  BY InitTypeOK
  DEF Init, IInv, LatchInv, RetainedInv, ReleaseSparesOthers, ServicePoints,
      EstopPoints, Points, Threads

LEMMA NextIInv == IInv /\ [Next]_vars => IInv'
  <1> SUFFICES ASSUME IInv, [Next]_vars PROVE IInv'
    OBVIOUS
  <1> DEFINE Rest == /\ at["service"] \in ServicePoints
                     /\ at["estop"] \in EstopPoints
                     /\ LatchInv /\ RetainedInv /\ ReleaseSparesOthers
  <1>a. TypeOK /\ Rest
    BY DEF IInv
  <1>b. TypeOK'
    BY <1>a, NextTypeOK
  <1> USE DEF TypeOK, LatchInv, RetainedInv, ReleaseSparesOthers, ServicePoints,
          EstopPoints, Points, Threads, arbiterVars, serviceVars, statusVars,
          worldVars, Goto
  <1>1. ASSUME NEW th \in Threads, Publish(th) PROVE Rest'
    BY <1>a, <1>1 DEF Publish, ReadStatus, StoreStatus, PublishStatus, Return
  <1>2. ASSUME NEW th \in Threads, ForgetToken(th) PROVE Rest'
    BY <1>a, <1>2 DEF ForgetToken
  <1>3. ASSUME NEW t \in Tokens, Acquire(t) PROVE Rest'
    BY <1>a, <1>3 DEF Acquire
  <1>4. ASSUME NEW t \in Tokens, Release(t) PROVE Rest'
    BY <1>a, <1>4 DEF Release
  <1>5. ASSUME StoreRetained PROVE Rest'
    BY <1>a, <1>5 DEF StoreRetained, EndRequest
  <1>6. ASSUME RevokeControl \/ StatusTimer PROVE Rest'
    BY <1>a, <1>6 DEF RevokeControl, StatusTimer
  <1>7. ASSUME Revoke PROVE Rest'
    BY <1>a, <1>7 DEF Revoke, EndRequest
  <1>8. ASSUME NEW s \in Sources, TakeUp(s) PROVE Rest'
    <2>1. CASE TakeEngage(Head(wire))
      BY <1>a, <1>8, <2>1 DEF TakeUp, TakeEngage
    <2>2. CASE TakeClearAttempt(Head(wire))
      BY <1>a, <1>8, <2>2 DEF TakeUp, TakeClearAttempt
    <2>3. CASE TakeWithdrawal(Head(wire))
      <3>1. /\ engagedSources = {Head(wire).source} => engagedSources' = {}
            /\ engagedSources = {} => engagedSources' = {}
            /\ engagedSources # {} /\ engagedSources # {Head(wire).source} =>
                 engagedSources' # {}
        BY <2>3 DEF TakeWithdrawal
      <3>2. newest' = engagedSources'
        BY <1>a, <2>3 DEF TakeWithdrawal
      <3>3. CASE engagedSources = {Head(wire).source}
        BY <1>a, <1>8, <2>3, <3>1, <3>2, <3>3 DEF TakeUp, TakeWithdrawal
      <3>4. CASE engagedSources # {Head(wire).source}
        BY <1>a, <1>8, <2>3, <3>1, <3>2, <3>4 DEF TakeUp, TakeWithdrawal
      <3> QED BY <3>3, <3>4
    <2> QED BY <1>8, <2>1, <2>2, <2>3 DEF TakeUp
  <1>9. ASSUME EstopLatch \/ EstopDropOwner \/ EstopClear PROVE Rest'
    BY <1>a, <1>9 DEF EstopLatch, EstopDropOwner, EstopClear
  <1>10. ASSUME \/ \E s \in Sources : ChangeMind(s) \/ Send(s)
                \/ \E s, target \in Sources : SendClearAttempt(s, target)
                \/ UNCHANGED vars
         PROVE  Rest'
    <2>1. UNCHANGED <<arbiterVars, serviceVars, retained, at, newest, engagedSources>>
      BY <1>10 DEF ChangeMind, Send, SendClearAttempt, vars
    <2> QED BY <1>a, <2>1
  <1> HIDE DEF Rest
  <1>c. Rest'
    BY <1>1, <1>2, <1>3, <1>4, <1>5, <1>6, <1>7, <1>8, <1>9, <1>10
    DEF Next, ServiceStep, EstopStep
  <1> QED BY <1>b, <1>c DEF IInv, Rest

\* The strengthened invariant holds in every reachable state.
THEOREM Inductive == Spec => []IInv
  BY InitIInv, NextIInv, PTL DEF Spec

-----------------------------------------------------------------------------
(* What follows from it.                                                   *)

\* Between two /estop samples the arm is stopped exactly while some source's
\* newest plain sample engages, and has no owner then.
THEOREM StoppedWhileAsked == Spec => []StoppedExactlyWhileAsked
  <1>1. IInv => StoppedExactlyWhileAsked
    BY DEF IInv, LatchInv, StoppedExactlyWhileAsked
  <1> QED BY <1>1, Inductive, PTL

\* Nobody who owns the arm is refused its release, however an e-stop cycle on
\* the other thread interleaves with the grant.
THEOREM OwnersCanRelease == Spec => []OwnerCanRelease
  <1>1. IInv => OwnerCanRelease
    BY DEF IInv, RetainedInv, OwnerCanRelease
  <1> QED BY <1>1, Inductive, PTL

\* A release ends no ownership but that of the token it carries.
THEOREM ReleasesSpareOthers == Spec => []ReleaseSparesOthers
  BY Inductive, PTL DEF IInv

-----------------------------------------------------------------------------
(* Why the latched topic may be outdated: a publish overtaken after m_.    *)

\* No status becomes the memo while an earlier one is still to be published:
\* what publishing under m_ would ensure.
PublishesInOrder ==
  [][\A th, other \in Threads : StoreStatus(th) => at[other] # "publishing"]_vars

\* What is about to be published is the memo, and only one thread is about to.
PublishInv ==
  /\ \A th \in Threads : at[th] = "publishing" => seen[th] = memo
  /\ (\A th \in Threads : at[th] # "publishing") => topic = memo
  /\ \A th, other \in Threads :
       at[th] = "publishing" /\ at[other] = "publishing" => th = other

\* Nothing but the overtaking leaves /control_status outdated: were each status
\* published before the next is stored, a late client would always find the
\* Arbiter's state once both threads rest on it, whatever they do between.
THEOREM OnlyOvertakingOutdates == Spec /\ PublishesInOrder => []LatchedTopicCurrent
  <1>1. Init => PublishInv
    BY DEF Init, PublishInv
  <1>2. ASSUME IInv, PublishInv, [Next]_vars,
               [\A th, other \in Threads : StoreStatus(th) => at[other] # "publishing"]_vars
        PROVE  PublishInv'
    <2>a. at \in [Threads -> Points] /\ seen \in [Threads -> StatusType]
      BY <1>2 DEF IInv, TypeOK
    <2> USE DEF PublishInv, arbiterVars, serviceVars, statusVars, worldVars, Goto
    <2>1. ASSUME NEW th \in Threads, ReadStatus(th) PROVE PublishInv'
      BY <1>2, <2>a, <2>1 DEF ReadStatus
    <2>2. ASSUME NEW th \in Threads, StoreStatus(th) PROVE PublishInv'
      <3>1. \A other \in Threads : at[other] # "publishing"
        <4>1. at'[th] # at[th]
          BY <2>a, <2>2 DEF StoreStatus, Return
        <4> QED BY <1>2, <2>2, <4>1 DEF vars
      <3>2. topic = memo /\ topic' = topic /\ memo' = seen[th]
        BY <1>2, <2>2, <3>1 DEF StoreStatus
      <3>3. CASE seen[th] = memo
        BY <2>a, <2>2, <3>1, <3>2, <3>3 DEF StoreStatus, Return
      <3>4. CASE seen[th] # memo
        BY <2>a, <2>2, <3>1, <3>2, <3>4 DEF StoreStatus
      <3> QED BY <3>3, <3>4
    <2>3. ASSUME NEW th \in Threads, PublishStatus(th) PROVE PublishInv'
      <3>1. topic' = seen[th] /\ memo' = memo /\ seen[th] = memo
        BY <1>2, <2>3 DEF PublishStatus
      <3>2. \A other \in Threads : at'[other] # "publishing"
        BY <1>2, <2>a, <2>3 DEF PublishStatus, Return
      <3> QED BY <3>1, <3>2
    <2>4. ASSUME NEW th \in Threads, UNCHANGED <<memo, topic, seen>>,
                 \/ UNCHANGED at
                 \/ \E point \in Points \ {"publishing"} :
                      at[th] # "publishing" /\ Goto(th, point)
          PROVE  PublishInv'
      <3>1. \A other \in Threads : at'[other] = "publishing" <=> at[other] = "publishing"
        BY <2>a, <2>4
      <3> QED BY <1>2, <2>4, <3>1
    <2>5. CASE \/ \E t \in Tokens : Acquire(t) \/ Release(t)
               \/ RevokeControl \/ StatusTimer \/ StoreRetained \/ Revoke
      BY <2>4, <2>5 DEF Acquire, Release, RevokeControl, StatusTimer, StoreRetained, Revoke,
         Threads, Points
    <2>6. CASE EstopLatch \/ EstopDropOwner \/ EstopClear
      BY <2>4, <2>6 DEF EstopLatch, EstopDropOwner, EstopClear, Threads, Points
    <2>7. ASSUME NEW th \in Threads, ForgetToken(th) PROVE PublishInv'
      BY <2>4, <2>7 DEF ForgetToken, Points
    <2>8. ASSUME NEW s \in Sources, TakeUp(s) PROVE PublishInv'
      BY <2>4, <2>8 DEF TakeUp, TakeEngage, TakeClearAttempt, TakeWithdrawal, Threads, Points
    <2>9. CASE \/ \E s \in Sources : ChangeMind(s) \/ Send(s)
               \/ \E s, target \in Sources : SendClearAttempt(s, target)
               \/ UNCHANGED vars
      BY <1>2, <2>9 DEF ChangeMind, Send, SendClearAttempt, vars
    <2> QED
      BY <1>2, <2>1, <2>2, <2>3, <2>5, <2>6, <2>7, <2>8, <2>9
      DEF Next, ServiceStep, EstopStep, Publish, Threads
  <1>3. PublishInv => LatchedTopicCurrent
    BY DEF PublishInv, LatchedTopicCurrent
  <1> QED BY <1>1, <1>2, <1>3, Inductive, PTL DEF Spec, PublishesInOrder
=============================================================================
