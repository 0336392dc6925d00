--------------------------- MODULE PlanLegsProofs ---------------------------
(***************************************************************************)
(* Proofs about PlanLegs for every set of goals, each with any number of   *)
(* targets.                                                                *)
(***************************************************************************)
EXTENDS PlanLegs, TLAPS

USE PlanAssumption, ChainAssumption

\* The plans are the legs and the blend of each goal.
LEMMA PlanIds ==
  /\ \A c \in Chains : \A k \in 1 .. Targets[c] + 1 : <<c, k>> \in Plans
  /\ \A p \in Plans : \E c \in Chains : \E k \in 1 .. Targets[c] + 1 : p = <<c, k>>
  OBVIOUS

\* A goal has at least one target, and the step it is at is one of its plans.
LEMMA Steps ==
  ASSUME TypeOK, NEW c \in Chains
  PROVE  /\ Targets[c] \in Nat \ {0}
         /\ step[c] \in Nat /\ step[c] \in 1 .. Targets[c] + 1
         /\ <<c, step[c]>> \in Plans
  BY PlanIds DEF TypeOK

-----------------------------------------------------------------------------
(* Type correctness.                                                       *)

LEMMA InitTypeOK == Init => TypeOK
  BY DEF Init, TypeOK, ClientInit, ClientTypeOK, PlanStates

LEMMA NextTypeOK == TypeOK /\ [Next]_vars => TypeOK'
  <1> SUFFICES ASSUME TypeOK, [Next]_vars PROVE TypeOK'
    OBVIOUS
  <1> USE DEF TypeOK, ClientTypeOK, PlanStates, Answered, MovePlan, clientVars,
          chainVars, cancelVars, handleVars, Enter, OnDone
  <1>1. ASSUME NEW c \in Chains, StartPlan(c) PROVE TypeOK'
    BY <1>1 DEF StartPlan
  <1>2. ASSUME NEW c \in Chains, Ask(c) PROVE TypeOK'
    BY <1>2 DEF Ask
  <1>3. ASSUME NEW c \in Chains, Dispatch(c) PROVE TypeOK'
    <2>1. plan' \in [Plans -> PlanStates] /\ UNCHANGED <<slot, cancelVars>>
      BY <1>3 DEF Dispatch, DispatchPlan
    <2>2. late' \in [Chains -> Nat]
      BY <1>3 DEF Dispatch
    <2>3. phase' \in [Chains -> {"idle", "asking", "dispatching", "waiting", "done"}]
      BY <1>3 DEF Dispatch
    <2>4. UNCHANGED <<step, answers, handleVars>>
      BY <1>3 DEF Dispatch
    <2> QED BY <2>1, <2>2, <2>3, <2>4
  <1>4. ASSUME NEW c \in Chains, Continue(c) PROVE TypeOK'
    <2>1. Targets[c] \in Nat /\ step[c] \in Nat /\ step[c] \in 1 .. Targets[c] + 1
      BY Steps
    <2>2. /\ step' \in [Chains -> Nat]
          /\ step'[c] \in 1 .. Targets[c] + 1
          /\ \A d \in Chains \ {c} : step'[d] = step[d]
      <3>1. CASE UNCHANGED step
        BY <2>1, <3>1
      <3>2. CASE /\ step' = [step EXCEPT ![c] = @ + 1]
                 /\ ~(step[c] >= IF c \in Many THEN Targets[c] + 1 ELSE Targets[c])
        BY <2>1, <3>2
      <3> QED BY <1>4, <3>1, <3>2 DEF Continue
    <2>3. answers' \in [Chains -> Nat]
      BY <1>4 DEF Continue
    <2>4. phase' \in [Chains -> {"idle", "asking", "dispatching", "waiting", "done"}]
      BY <1>4 DEF Continue
    <2> QED BY <1>4, <2>2, <2>3, <2>4 DEF Continue
  <1>5. ASSUME NEW c \in Chains, CancelPlanning(c) PROVE TypeOK'
    BY <1>5 DEF CancelPlanning, CopySlot, InFlight
  <1>6. ASSUME NEW c \in Chains, CancelStep(c) PROVE TypeOK'
    <2>1. CASE CallCancel(c)
      <3>1. {copied[c]} \ {NoPlan} \in SUBSET Plans
        BY <1>6
      <3>2. told' \in [Cancelers -> SUBSET Plans]
        BY <2>1, <3>1 DEF CallCancel, CallCopy
      <3> QED BY <2>1, <3>2 DEF CallCancel, CallCopy
    <2>2. CASE AckCancel(c)
      BY <2>2 DEF AckCancel
    <2> QED BY <1>6, <2>1, <2>2 DEF CancelStep
  <1>7. ASSUME NEW p \in Plans, PlannerStep(p) PROVE TypeOK'
    BY <1>7 DEF PlannerStep, GoalResponse, PlanResult
  <1>8. CASE UNCHANGED vars
    BY <1>8 DEF vars
  <1> QED BY <1>1, <1>2, <1>3, <1>4, <1>5, <1>6, <1>7, <1>8 DEF Next, ChainStep

-----------------------------------------------------------------------------
(* The inductive invariant.                                                *)

LEMMA InitIInv == Init => IInv
  <1> SUFFICES ASSUME Init PROVE IInv
    OBVIOUS
  <1>1. TypeOK
    BY InitTypeOK
  <1>2. SlotIsLive
    BY DEF Init, ClientInit, SlotIsLive
  <1>4. InFlightIsCancelable
    BY DEF Init, ClientInit, InFlightIsCancelable, InFlight
  <1>3. ASSUME NEW c \in Chains PROVE ProgressInv(c) /\ LateInv(c) /\ CancelInv(c)
    <2>1. step[c] = 1 /\ Targets[c] \in Nat
      BY <1>1, Steps DEF Init
    <2>2. \A k \in 1 .. Targets[c] + 1 : plan[<<c, k>>] = "none"
      BY PlanIds DEF Init, ClientInit
    <2>3. 1 \in 1 .. Targets[c] + 1
      BY <2>1
    <2>4. CancelInv(c)
      BY DEF Init, ClientInit, CancelInv
    <2> QED BY <2>1, <2>2, <2>3, <2>4 DEF Init, ProgressInv, LateInv
  <1> QED BY <1>1, <1>2, <1>3, <1>4 DEF IInv, ChainsInv

\* A chain whose own state and plans a step leaves alone keeps its invariant.
LEMMA Untouched ==
  ASSUME NEW d \in Chains, ProgressInv(d), LateInv(d),
         phase'[d] = phase[d], step'[d] = step[d], answers'[d] = answers[d],
         late'[d] = late[d], d \in canceling' <=> d \in canceling,
         <<d, step[d]>> \in Plans,
         \A k \in 1 .. Targets[d] + 1 : plan'[<<d, k>>] = plan[<<d, k>>],
         step[d] \in 1 .. Targets[d] + 1
  PROVE  ProgressInv(d)' /\ LateInv(d)'
  BY DEF ProgressInv, LateInv

\* Moving one plan moves no other.
LEMMA OneMoves ==
  ASSUME TypeOK, NEW p \in Plans, NEW from, NEW to, MovePlan(p, from, to)
  PROVE  /\ plan[p] = from /\ plan'[p] = to
         /\ \A q \in Plans : q # p => plan'[q] = plan[q]
  BY DEF TypeOK, ClientTypeOK, MovePlan

LEMMA NextChainsInv == ChainsInv /\ [Next]_vars => ChainsInv'
  <1> SUFFICES ASSUME ChainsInv, [Next]_vars PROVE ChainsInv'
    OBVIOUS
  <1> DEFINE ChainInv(d) == ProgressInv(d) /\ LateInv(d)
  <1> DEFINE Rest == SlotIsLive /\ \A d \in Chains : ChainInv(d)
  <1>a. TypeOK /\ SlotIsLive /\ \A d \in Chains : ProgressInv(d) /\ LateInv(d)
    BY DEF ChainsInv
  <1>b. TypeOK'
    BY <1>a, NextTypeOK
  <1>s. \A d \in Chains : /\ Targets[d] \in Nat /\ step[d] \in Nat
                          /\ step[d] \in 1 .. Targets[d] + 1
                          /\ <<d, step[d]>> \in Plans
                          /\ \A k \in 1 .. Targets[d] + 1 : <<d, k>> \in Plans
    BY <1>a, Steps, PlanIds
  <1>f. ASSUME NEW c \in Chains,
               \A d \in Chains \ {c} :
                 /\ phase'[d] = phase[d] /\ step'[d] = step[d]
                 /\ answers'[d] = answers[d] /\ late'[d] = late[d]
                 /\ d \in canceling' <=> d \in canceling
                 /\ \A k \in 1 .. Targets[d] + 1 :
                      plan'[<<d, k>>] = plan[<<d, k>>],
               ChainInv(c)', SlotIsLive'
        PROVE  Rest'
    <2>1. ASSUME NEW d \in Chains \ {c} PROVE ChainInv(d)'
      BY <1>a, <1>s, <1>f, Untouched
    <2> QED BY <1>f, <2>1
  <1> USE DEF clientVars, chainVars, cancelVars, handleVars, Enter, OnDone
  <1>1. ASSUME NEW c \in Chains, StartPlan(c) PROVE Rest'
    <2>1. ChainInv(c)' /\ SlotIsLive'
      BY <1>a, <1>1 DEF StartPlan, ProgressInv, LateInv, TypeOK, SlotIsLive
    <2> QED BY <1>a, <1>1, <1>f, <2>1 DEF StartPlan, TypeOK
  <1>2. ASSUME NEW c \in Chains, Ask(c) PROVE Rest'
    <2>1. SlotIsLive'
      BY <1>a, <1>2 DEF Ask, SlotIsLive
    <2>2. /\ phase[c] = "asking"
          /\ UNCHANGED <<plan, step, late, canceling>>
          /\ \/ phase'[c] = "done" /\ answers'[c] = answers[c] + 1
             \/ c \notin canceling /\ phase'[c] = "dispatching" /\ answers' = answers
      BY <1>a, <1>2 DEF Ask, TypeOK
    <2>3. ProgressInv(c)'
      BY <1>a, <2>2 DEF ProgressInv
    <2>4. ChainInv(c)'
      BY <1>a, <2>2, <2>3 DEF LateInv
    <2> QED BY <1>a, <1>2, <1>f, <2>1, <2>4 DEF Ask, TypeOK
  <1>3. ASSUME NEW c \in Chains, Dispatch(c) PROVE Rest'
    <2>p. PICK to \in {"sent", "failed"} : MovePlan(<<c, step[c]>>, "none", to)
      BY <1>3 DEF Dispatch, DispatchPlan
    <2>1. /\ plan[<<c, step[c]>>] = "none" /\ plan'[<<c, step[c]>>] = to
          /\ \A q \in Plans : q # <<c, step[c]>> => plan'[q] = plan[q]
      BY <1>a, <1>s, <2>p, OneMoves
    <2>2. SlotIsLive'
      BY <1>a, <1>3, <2>1 DEF Dispatch, DispatchPlan, SlotIsLive, TypeOK, ClientTypeOK
    <2>3. \A k \in 1 .. Targets[c] + 1 :
            k # step[c] => plan'[<<c, k>>] = plan[<<c, k>>]
      BY <1>s, <2>1
    <2>4. LateInv(c)'
      BY <1>a, <1>3 DEF Dispatch, LateInv, TypeOK
    <2>5. ProgressInv(c)'
      <3>1. /\ phase[c] = "dispatching" /\ phase'[c] = "waiting"
            /\ step' = step /\ answers' = answers
        BY <1>a, <1>3 DEF Dispatch, TypeOK
      <3>2. ASSUME NEW k \in 1 .. Targets[c] + 1
            PROVE  /\ k < step[c] => plan'[<<c, k>>] \in Answered
                   /\ k > step[c] => plan'[<<c, k>>] = "none"
        <4>t. Targets[c] \in Nat /\ step[c] \in Nat
          BY <1>s
        <4>1. k \in Nat /\ step[c] \in Nat
          BY <4>t
        <4>2. ProgressInv(c)
          BY <1>a
        <4>3. CASE k = step[c]
          BY <4>1, <4>3
        <4>4. CASE k # step[c]
          BY <4>2, <4>4, <2>3 DEF ProgressInv
        <4> QED BY <4>3, <4>4
      <3>3. answers[c] = 0
        BY <1>a, <3>1 DEF ProgressInv
      <3> QED BY <3>1, <3>2, <3>3 DEF ProgressInv
    <2>6. \A d \in Chains \ {c} : \A k \in 1 .. Targets[d] + 1 :
            plan'[<<d, k>>] = plan[<<d, k>>]
      BY <1>s, <2>1
    <2> QED BY <1>a, <1>3, <1>f, <2>2, <2>4, <2>5, <2>6 DEF Dispatch, TypeOK
  <1>4. ASSUME NEW c \in Chains, Continue(c) PROVE Rest'
    <2>1. SlotIsLive'
      BY <1>a, <1>4 DEF Continue, SlotIsLive
    <2>2. /\ phase[c] = "waiting" /\ plan[<<c, step[c]>>] \in Answered
          /\ plan' = plan /\ late' = late /\ canceling' = canceling
      BY <1>4 DEF Continue
    <2>3. ASSUME OnDone(c), UNCHANGED step PROVE ChainInv(c)'
      <3>1. phase'[c] = "done" /\ answers'[c] = answers[c] + 1 /\ step' = step
        BY <1>a, <2>3 DEF TypeOK
      <3>2. ProgressInv(c)'
        BY <1>a, <2>2, <3>1 DEF ProgressInv
      <3> QED BY <1>a, <2>2, <3>1, <3>2 DEF LateInv
    <2>4. ASSUME step' = [step EXCEPT ![c] = @ + 1],
                 Enter(c, "asking"), UNCHANGED answers
          PROVE  ChainInv(c)'
      <3>1. phase'[c] = "asking" /\ answers' = answers /\ step'[c] = step[c] + 1
        BY <1>a, <2>4 DEF TypeOK
      <3>2. step'[c] \in 1 .. Targets[c] + 1
        BY <1>b DEF TypeOK
      <3>3. \A k \in 1 .. Targets[c] + 1 :
              /\ k < step'[c] => plan[<<c, k>>] \in Answered
              /\ k >= step'[c] => plan[<<c, k>>] = "none"
        BY <1>a, <1>s, <2>2, <3>1 DEF ProgressInv
      <3>4. ProgressInv(c)'
        BY <1>a, <1>s, <2>2, <3>1, <3>2, <3>3 DEF ProgressInv
      <3> QED BY <1>a, <2>2, <3>1, <3>4 DEF LateInv
    <2>5. ChainInv(c)'
      BY <1>4, <2>3, <2>4 DEF Continue
    <2> QED BY <1>a, <1>4, <1>f, <2>1, <2>5 DEF Continue, TypeOK
  <1>5. ASSUME NEW c \in Chains, CancelPlanning(c) \/ CancelStep(c) PROVE Rest'
    <2>1. /\ UNCHANGED <<plan, slot, phase, step, answers, late>>
          /\ canceling' \in {canceling, canceling \cup {c}}
      BY <1>5 DEF CancelPlanning, CancelStep, CallCancel, CallCopy, AckCancel,
      CopySlot
    <2>2. SlotIsLive'
      BY <1>a, <2>1 DEF SlotIsLive
    <2>3. ChainInv(c)'
      BY <1>a, <1>s, <2>1 DEF ProgressInv, LateInv
    <2> QED BY <1>f, <2>1, <2>2, <2>3
  <1>6. ASSUME NEW p \in Plans, PlannerStep(p) PROVE Rest'
    <2>u. UNCHANGED <<phase, step, answers, late, canceling>>
      BY <1>6 DEF PlannerStep
    <2>p. PICK from, to :
            /\ MovePlan(p, from, to)
            /\ from \in {"sent", "inflight"}
            /\ to \in {"inflight"} \cup Answered
            /\ slot' = IF to = "inflight" THEN p
                       ELSE IF from = "inflight" THEN NoPlan ELSE slot
      BY <1>6 DEF PlannerStep, GoalResponse, PlanResult, Answered
    <2>1. /\ plan[p] = from /\ plan'[p] = to
          /\ \A q \in Plans : q # p => plan'[q] = plan[q]
      BY <1>a, <2>p, OneMoves
    <2>2. SlotIsLive'
      BY <1>a, <2>p, <2>1 DEF SlotIsLive, TypeOK, ClientTypeOK
    <2>c. PICK c \in Chains : \E k \in 1 .. Targets[c] + 1 : p = <<c, k>>
      BY PlanIds
    <2>k. PICK k \in 1 .. Targets[c] + 1 : p = <<c, k>>
      BY <2>c
    <2>3. \A d \in Chains : \A i \in 1 .. Targets[d] + 1 :
            <<d, i>> # p => plan'[<<d, i>>] = plan[<<d, i>>]
      BY <1>s, <2>1
    <2>4. step[c] = k /\ phase[c] = "waiting"
      <3>1. plan[<<c, k>>] \in {"sent", "inflight"}
        BY <2>k, <2>p, <2>1
      <3>2. plan[<<c, k>>] # "none" /\ plan[<<c, k>>] \notin Answered
        BY <3>1 DEF Answered
      <3>3. ProgressInv(c)
        BY <1>a
      <3>4. ~(k < step[c]) /\ ~(k > step[c])
        BY <3>2, <3>3 DEF ProgressInv
      <3>t. Targets[c] \in Nat /\ step[c] \in Nat
        BY <1>s
      <3>n. k \in Nat /\ step[c] \in Nat
        BY <3>t
      <3>5. step[c] = k
        BY <3>n, <3>4
      <3>6. phase[c] \notin {"idle", "asking", "dispatching", "done"}
        BY <3>2, <3>3, <3>5 DEF ProgressInv
      <3> QED BY <1>a, <3>5, <3>6 DEF TypeOK
    <2>5. ProgressInv(c)'
      BY <1>a, <1>s, <2>u, <2>k, <2>3, <2>4 DEF ProgressInv
    <2>6. LateInv(c)'
      BY <1>a, <2>u DEF LateInv
    <2> QED BY <1>f, <2>u, <2>k, <2>2, <2>3, <2>5, <2>6
  <1>7. ASSUME UNCHANGED vars PROVE Rest'
    BY <1>a, <1>7 DEF vars, SlotIsLive, ProgressInv, LateInv
  <1> HIDE DEF Rest
  <1>c. Rest'
    BY <1>1, <1>2, <1>3, <1>4, <1>5, <1>6, <1>7 DEF Next, ChainStep
  <1> QED BY <1>b, <1>c DEF ChainsInv, Rest

\* Chains, plans and slot: the part of the invariant that holds by itself.
LEMMA ChainsHold == Spec => []ChainsInv
  <1>1. IInv => ChainsInv
    BY DEF IInv
  <1> QED BY <1>1, InitIInv, NextChainsInv, PTL DEF Spec

-----------------------------------------------------------------------------
(* What follows from it.                                                   *)

\* Nothing of a chain is at the planner unless it waits, and then only its step.
LEMMA OnlyItsStep ==
  ASSUME ChainsInv, NEW c \in Chains
  PROVE  /\ AtPlanner(c) \subseteq {step[c]}
         /\ phase[c] # "waiting" \/ plan[<<c, step[c]>>] \in Answered => AtPlanner(c) = {}
  <1>1. TypeOK /\ ProgressInv(c)
    BY DEF ChainsInv
  <1>2. step[c] \in Nat /\ Targets[c] \in Nat /\ step[c] \in 1 .. Targets[c] + 1
    BY <1>1, Steps
  <1>3. ASSUME NEW k \in AtPlanner(c) PROVE k = step[c]
    <2>1. k \in Nat /\ k \in 1 .. Targets[c] + 1
      BY <1>2 DEF AtPlanner
    <2>2. ~(k < step[c]) /\ ~(k > step[c])
      BY <1>1, <2>1 DEF AtPlanner, ProgressInv, Answered
    <2> QED BY <1>2, <2>1, <2>2
  <1>4. phase[c] # "waiting" => plan[<<c, step[c]>>] \in {"none"} \cup Answered
    BY <1>1 DEF TypeOK, ProgressInv
  <1>5. plan[<<c, step[c]>>] \in {"none"} \cup Answered => step[c] \notin AtPlanner(c)
    BY DEF AtPlanner, Answered
  <1> QED BY <1>3, <1>4, <1>5

\* A chain of any number of legs is one planning request: every step of it is a
\* step of the request or invisible to it.
THEOREM ChainsImplementRequests == Spec => ImplementsRequest
  <1> DEFINE asking == {c \in Chains : phase[c] # "idle"}
             working == [c \in Chains |-> AtPlanner(c)]
  <1> USE DEF clientVars, chainVars, cancelVars, handleVars, Enter, OnDone
  <1>1. Init => Request!Init
    <2> SUFFICES ASSUME Init PROVE Request!Init
      OBVIOUS
    <2>1. ASSUME NEW c \in Chains PROVE AtPlanner(c) = {}
      BY PlanIds DEF Init, ClientInit, AtPlanner
    <2> QED BY <2>1 DEF Init, Request!Init
  <1>2. ChainsInv /\ [Next]_vars => [Request!Next]_(Request!requestVars)
    <2> SUFFICES ASSUME ChainsInv, [Next]_vars
                 PROVE  Request!Next \/ UNCHANGED <<asking, working, answers>>
      BY DEF Request!requestVars
    <2>a. TypeOK
      BY DEF ChainsInv
    <2>k. ASSUME UNCHANGED plan PROVE working' = working
      BY <2>k DEF AtPlanner
    <2>f. ASSUME NEW c \in Chains,
                 phase[c] # "idle", AtPlanner(c) = {}, answers[c] = 0, OnDone(c),
                 UNCHANGED plan
          PROVE  Request!Answer(c)
      <3>1. asking' = asking
        BY <2>a, <2>f DEF TypeOK
      <3>2. answers' = [answers EXCEPT ![c] = 1]
        BY <2>a, <2>f DEF TypeOK
      <3> QED BY <2>f, <2>k, <3>1, <3>2 DEF Request!Answer, Request!Between
    <2>1. ASSUME NEW c \in Chains, StartPlan(c) PROVE Request!Ask(c)
      <3>1. asking' = asking \cup {c} /\ c \notin asking
        BY <2>a, <2>1 DEF StartPlan, TypeOK
      <3> QED BY <2>1, <2>k, <3>1 DEF StartPlan, Request!Ask
    <2>2. ASSUME NEW c \in Chains, Ask(c)
          PROVE  Request!Answer(c) \/ UNCHANGED <<asking, working, answers>>
      <3>1. phase[c] = "asking" /\ answers[c] = 0 /\ AtPlanner(c) = {}
        BY <2>2, OnlyItsStep DEF Ask, ChainsInv, ProgressInv
      <3>2. CASE OnDone(c)
        BY <2>2, <2>f, <3>1, <3>2 DEF Ask
      <3>3. CASE Enter(c, "dispatching") /\ UNCHANGED answers
        <4>1. asking' = asking
          BY <2>a, <3>1, <3>3 DEF TypeOK
        <4> QED BY <2>2, <2>k, <3>3, <4>1 DEF Ask
      <3> QED BY <2>2, <3>2, <3>3 DEF Ask
    <2>3. ASSUME NEW c \in Chains, Dispatch(c)
          PROVE  Request!Plan(c, step[c]) \/ UNCHANGED <<asking, working, answers>>
      <3>p. PICK to \in {"sent", "failed"} : MovePlan(<<c, step[c]>>, "none", to)
        BY <2>3 DEF Dispatch, DispatchPlan
      <3>s. \A d \in Chains : \A k \in 1 .. Targets[d] + 1 : <<d, k>> \in Plans
        BY PlanIds
      <3>i. step[c] \in 1 .. Targets[c] + 1
        BY <2>a, Steps
      <3>1. /\ plan'[<<c, step[c]>>] = to
            /\ \A q \in Plans : q # <<c, step[c]>> => plan'[q] = plan[q]
        BY <2>a, <3>p, <3>s, <3>i, OneMoves
      <3>2. phase[c] = "dispatching" /\ answers[c] = 0 /\ AtPlanner(c) = {}
        BY <2>3, OnlyItsStep DEF Dispatch, ChainsInv, ProgressInv
      <3>3. asking' = asking /\ answers' = answers
        BY <2>a, <2>3 DEF Dispatch, TypeOK
      <3>4. \A d \in Chains \ {c} : AtPlanner(d)' = AtPlanner(d)
        BY <3>1, <3>s DEF AtPlanner
      <3>5. AtPlanner(c)' = IF to = "sent" THEN {step[c]} ELSE {}
        <4>1. \A k \in 1 .. Targets[c] + 1 :
                k # step[c] => plan'[<<c, k>>] \notin {"sent", "inflight"}
          BY <3>1, <3>2, <3>s DEF AtPlanner
        <4> QED BY <3>1, <3>i, <4>1 DEF AtPlanner
      <3>6. CASE to = "sent"
        <4>1. working' = [working EXCEPT ![c] = {step[c]}]
          BY <3>4, <3>5, <3>6
        <4> QED BY <3>2, <3>3, <4>1 DEF Request!Plan, Request!Between
      <3>7. CASE to # "sent"
        <4>1. working' = working
          BY <3>2, <3>4, <3>5, <3>7
        <4> QED BY <3>3, <4>1
      <3> QED BY <3>6, <3>7
    <2>4. ASSUME NEW c \in Chains, Continue(c)
          PROVE  Request!Answer(c) \/ UNCHANGED <<asking, working, answers>>
      <3>1. phase[c] = "waiting" /\ answers[c] = 0 /\ AtPlanner(c) = {}
        BY <2>4, OnlyItsStep DEF Continue, ChainsInv, ProgressInv
      <3>2. CASE OnDone(c)
        BY <2>4, <2>f, <3>1, <3>2 DEF Continue
      <3>3. CASE Enter(c, "asking") /\ UNCHANGED answers
        <4>1. asking' = asking
          BY <2>a, <3>1, <3>3 DEF TypeOK
        <4> QED BY <2>4, <2>k, <3>3, <4>1 DEF Continue
      <3> QED BY <2>4, <3>2, <3>3 DEF Continue
    <2>5. ASSUME NEW c \in Chains, CancelPlanning(c) \/ CancelStep(c)
          PROVE  UNCHANGED <<asking, working, answers>>
      BY <2>5, <2>k DEF CancelPlanning, CancelStep, CallCancel, CallCopy, AckCancel,
      CopySlot
    <2>6. ASSUME NEW p \in Plans, PlannerStep(p)
          PROVE  \/ \E c \in Chains : Request!Planned(c)
                 \/ UNCHANGED <<asking, working, answers>>
      <3>u. asking' = asking /\ answers' = answers
        BY <2>6 DEF PlannerStep
      <3>p. PICK from, to : /\ MovePlan(p, from, to)
                            /\ from \in {"sent", "inflight"}
                            /\ to \in {"inflight"} \cup Answered
        BY <2>6 DEF PlannerStep, GoalResponse, PlanResult, Answered
      <3>c. PICK c \in Chains : \E k \in 1 .. Targets[c] + 1 : p = <<c, k>>
        BY PlanIds
      <3>k. PICK k \in 1 .. Targets[c] + 1 : p = <<c, k>>
        BY <3>c
      <3>s. \A d \in Chains : \A i \in 1 .. Targets[d] + 1 : <<d, i>> \in Plans
        BY PlanIds
      <3>1. /\ plan[p] = from /\ plan'[p] = to
            /\ \A q \in Plans : q # p => plan'[q] = plan[q]
        BY <2>a, <3>p, OneMoves
      <3>2. \A d \in Chains \ {c} : AtPlanner(d)' = AtPlanner(d)
        BY <3>1, <3>k, <3>s DEF AtPlanner
      <3>3. k \in AtPlanner(c)
        BY <3>1, <3>k, <3>p DEF AtPlanner
      <3>4. AtPlanner(c) = {k}
        BY <3>3, OnlyItsStep
      <3>5. \A i \in 1 .. Targets[c] + 1 :
              i # k => plan'[<<c, i>>] \notin {"sent", "inflight"}
        BY <3>1, <3>4, <3>k, <3>s DEF AtPlanner
      <3>6. CASE to = "inflight"
        <4>1. AtPlanner(c)' = {k}
          BY <3>1, <3>5, <3>6, <3>k DEF AtPlanner
        <4>2. working' = working
          BY <3>2, <3>4, <4>1
        <4> QED BY <3>u, <4>2
      <3>7. CASE to \in Answered
        <4>1. AtPlanner(c)' = {}
          BY <3>1, <3>5, <3>7, <3>k DEF AtPlanner, Answered
        <4>2. working' = [working EXCEPT ![c] = {}]
          BY <3>2, <4>1
        <4>3. Request!Planned(c)
          BY <3>u, <3>4, <4>2 DEF Request!Planned
        <4> QED BY <4>3
      <3> QED BY <3>p, <3>6, <3>7
    <2>7. ASSUME UNCHANGED vars PROVE UNCHANGED <<asking, working, answers>>
      BY <2>7, <2>k DEF vars
    <2> HIDE DEF asking, working
    <2>8. ASSUME NEW c \in Chains, Dispatch(c)
          PROVE  Request!Next \/ UNCHANGED <<asking, working, answers>>
      BY <2>a, <2>3, <2>8, Steps DEF Request!Next
    <2> QED BY <2>1, <2>2, <2>4, <2>5, <2>6, <2>7, <2>8 DEF Next, ChainStep, Request!Next
  <1> QED BY <1>1, <1>2, ChainsHold, PTL DEF Spec, ImplementsRequest, Request!Spec

\* After a cancel is acknowledged at most one more plan is dispatched.
THEOREM CancelStopsChain == Spec => []OnePlanPastCancel
  <1>1. ChainsInv => OnePlanPastCancel
    BY DEF ChainsInv, LateInv, OnePlanPastCancel
  <1> QED BY <1>1, ChainsHold, PTL

-----------------------------------------------------------------------------
(* Which plan a cancel reaches.                                            *)

\* While one goal alone plans, the planner has one plan at most.
LEMMA OnePending ==
  ASSUME ChainsInv, NEW c \in Chains, \A d \in Chains \ {c} : phase[d] = "idle",
         NEW p \in Plans, plan[p] \in {"sent", "inflight"},
         NEW q \in Plans, plan[q] \in {"sent", "inflight"}
  PROVE  p = q
  <1>1. ASSUME NEW r \in Plans, plan[r] \in {"sent", "inflight"}
        PROVE  r = <<c, step[c]>>
    <2>c. PICK d \in Chains : \E k \in 1 .. Targets[d] + 1 : r = <<d, k>>
      BY PlanIds
    <2>1. PICK k \in 1 .. Targets[d] + 1 : r = <<d, k>>
      BY <2>c
    <2>2. k \in AtPlanner(d)
      BY <1>1, <2>1 DEF AtPlanner
    <2>3. phase[d] = "waiting" /\ k = step[d]
      BY <2>2, OnlyItsStep
    <2>4. d = c
      BY <2>3
    <2> QED BY <2>1, <2>3, <2>4
  <1> QED BY <1>1

\* A chain that has begun never goes back to idle.
LEMMA NeverIdleAgain ==
  ASSUME TypeOK, Next, NEW d \in Chains, phase'[d] = "idle"
  PROVE  phase[d] = "idle"
  <1> USE DEF Enter, OnDone, chainVars
  <1>1. ASSUME NEW c \in Chains, StartPlan(c) \/ ChainStep(c) PROVE phase[d] = "idle"
    <2>1. PICK point \in {"asking", "dispatching", "waiting", "done"} :
            phase' = [phase EXCEPT ![c] = point]
      BY <1>1 DEF StartPlan, ChainStep, Ask, Dispatch, Continue
    <2> QED BY <2>1 DEF TypeOK
  <1>2. ASSUME NEW c \in Chains, CancelPlanning(c) \/ CancelStep(c)
        PROVE  phase[d] = "idle"
    BY <1>2 DEF CancelPlanning, CancelStep, CallCancel, AckCancel
  <1>3. ASSUME NEW p \in Plans, PlannerStep(p) PROVE phase[d] = "idle"
    BY <1>3 DEF PlannerStep
  <1> QED BY <1>1, <1>2, <1>3 DEF Next

LEMMA NextCancelable ==
  ChainsInv /\ InFlightIsCancelable /\ [Next]_vars => InFlightIsCancelable'
  <1> SUFFICES ASSUME ChainsInv, InFlightIsCancelable, [Next]_vars,
                      NEW c \in Chains, \A d \in Chains \ {c} : phase'[d] = "idle",
                      NEW p \in Plans, plan'[p] = "inflight"
               PROVE  slot' = p
    BY DEF InFlightIsCancelable, InFlight, OthersIdle
  <1>a. TypeOK
    BY DEF ChainsInv
  <1>1. \A d \in Chains \ {c} : phase[d] = "idle"
    BY <1>a, NeverIdleAgain DEF vars, chainVars
  <1>2. plan[p] = "inflight" => slot = p
    BY <1>1 DEF InFlightIsCancelable, InFlight, OthersIdle
  <1>3. CASE plan' = plan /\ slot' = slot
    BY <1>2, <1>3
  <1>4. ASSUME NEW d \in Chains, Dispatch(d) PROVE slot' = p
    <2>1. PICK to \in {"sent", "failed"} : MovePlan(<<d, step[d]>>, "none", to)
      BY <1>4 DEF Dispatch, DispatchPlan
    <2>2. plan[p] = "inflight"
      <3>1. <<d, step[d]>> \in Plans
        BY <1>a, Steps
      <3> QED BY <1>a, <2>1, <3>1, OneMoves
    <2> QED BY <1>2, <1>4, <2>2 DEF Dispatch, DispatchPlan
  <1>5. ASSUME NEW q \in Plans, PlannerStep(q) PROVE slot' = p
    <2>1. PICK from \in {"sent", "inflight"}, to \in {"inflight"} \cup Answered :
            /\ MovePlan(q, from, to)
            /\ to = "inflight" => slot' = q
            /\ from = "sent" /\ to # "inflight" => slot' = slot
      BY <1>5 DEF PlannerStep, GoalResponse, PlanResult, Answered
    <2>2. /\ plan[q] = from /\ plan'[q] = to
          /\ \A r \in Plans : r # q => plan'[r] = plan[r]
      BY <1>a, <2>1, OneMoves
    <2>3. CASE p = q
      BY <2>1, <2>2, <2>3
    <2>4. CASE p # q
      <3>1. plan[p] = "inflight"
        BY <2>2, <2>4
      <3> QED BY <1>1, <2>2, <2>4, <3>1, OnePending
    <2> QED BY <2>3, <2>4
  <1>6. ASSUME NEW d \in Chains,
               StartPlan(d) \/ Ask(d) \/ Continue(d) \/ CancelPlanning(d) \/ CancelStep(d)
        PROVE  plan' = plan /\ slot' = slot
    BY <1>6 DEF StartPlan, Ask, Continue, CancelPlanning, CancelStep, CallCancel,
                CallCopy, AckCancel, CopySlot, clientVars
  <1>7. ASSUME UNCHANGED vars PROVE plan' = plan /\ slot' = slot
    BY <1>7 DEF vars, clientVars
  <1> QED BY <1>3, <1>4, <1>5, <1>6, <1>7 DEF Next, ChainStep

\* What a cancel reads of the slot is the plan in flight, if there is one, and
\* what it calls is what it has read.
LEMMA NextCancelInv ==
  ASSUME IInv, [Next]_vars, NEW c \in Chains
  PROVE  CancelInv(c)'
  <1>a. /\ TypeOK /\ SlotIsLive /\ InFlightIsCancelable /\ CancelInv(c)
        /\ ChainsInv
    BY DEF IInv, ChainsInv
  <1> USE DEF cancelVars
  <1>u. ASSUME UNCHANGED <<copied[c], told[c], found[c], canceler[c]>>,
               c \in alone' <=> c \in alone
        PROVE  CancelInv(c)'
    BY <1>a, <1>u DEF CancelInv, OwnPlans
  <1>1. CASE CancelPlanning(c)
    <2>1. /\ copied'[c] = slot /\ found'[c] = InFlight
          /\ canceler'[c] = "copied"
      BY <1>a, <1>1 DEF CancelPlanning, CopySlot, TypeOK, ClientTypeOK
    <2>2. slot # NoPlan => slot \in InFlight
      BY <1>a DEF SlotIsLive, InFlight, TypeOK, ClientTypeOK
    <2>3. ASSUME c \in alone'
          PROVE  InFlight \subseteq {slot} /\ InFlight \subseteq OwnPlans(c)
      <3>1. OthersIdle(c)
        BY <1>a, <1>1, <2>3 DEF CancelPlanning, CancelInv
      <3>2. ASSUME NEW p \in InFlight PROVE p = slot /\ p \in OwnPlans(c)
        <4>1. p \in Plans /\ plan[p] = "inflight"
          BY DEF InFlight
        <4>2. PICK d \in Chains : \E k \in 1 .. Targets[d] + 1 : p = <<d, k>>
          BY <4>1, PlanIds
        <4>3. PICK k \in 1 .. Targets[d] + 1 : p = <<d, k>>
          BY <4>2
        <4>4. k \in AtPlanner(d)
          BY <4>1, <4>3 DEF AtPlanner
        <4>5. phase[d] = "waiting"
          BY <1>a, <4>4, OnlyItsStep
        <4>6. d = c
          BY <3>1, <4>5 DEF OthersIdle
        <4>7. p \in OwnPlans(c)
          BY <4>3, <4>6 DEF OwnPlans
        <4> QED BY <1>a, <3>1, <4>7 DEF InFlightIsCancelable
      <3> QED BY <3>2
    <2>4. canceler'[c] # "idle" /\ canceler'[c] \notin {"called", "acked"}
      BY <2>1
    <2> QED BY <2>1, <2>2, <2>3, <2>4 DEF CancelInv, OwnPlans
  <1>2. CASE CallCancel(c)
    <2>1. /\ copied' = copied /\ found' = found /\ alone' = alone
          /\ told'[c] = {copied[c]} \ {NoPlan} /\ canceler'[c] = "called"
      BY <1>a, <1>2 DEF CallCancel, CallCopy, TypeOK, ClientTypeOK
    <2> QED BY <1>a, <2>1 DEF CancelInv, OwnPlans
  <1>3. CASE AckCancel(c)
    <2>1. /\ UNCHANGED <<copied, told, found, alone>>
          /\ canceler[c] = "called" /\ canceler'[c] = "acked"
      BY <1>a, <1>3 DEF AckCancel, TypeOK, clientVars
    <2> QED BY <1>a, <2>1 DEF CancelInv, OwnPlans
  <1>4. ASSUME NEW d \in Chains \ {c}, CancelPlanning(d) PROVE CancelInv(c)'
    BY <1>a, <1>u, <1>4 DEF CancelPlanning, CopySlot, TypeOK, ClientTypeOK
  <1>5. ASSUME NEW d \in Chains \ {c}, CancelStep(d) PROVE CancelInv(c)'
    BY <1>a, <1>u, <1>5
    DEF CancelStep, CallCancel, CallCopy, AckCancel, TypeOK, ClientTypeOK, clientVars
  <1>6. ASSUME NEW d \in Chains, StartPlan(d) \/ ChainStep(d) PROVE CancelInv(c)'
    BY <1>u, <1>6
    DEF StartPlan, ChainStep, Ask, Dispatch, DispatchPlan, Continue, clientVars,
        handleVars
  <1>7. ASSUME NEW p \in Plans, PlannerStep(p) PROVE CancelInv(c)'
    BY <1>u, <1>7 DEF PlannerStep, GoalResponse, PlanResult, handleVars
  <1>8. CASE UNCHANGED vars
    BY <1>u, <1>8 DEF vars, clientVars, handleVars
  <1> QED BY <1>1, <1>2, <1>3, <1>4, <1>5, <1>6, <1>7, <1>8 DEF Next, CancelStep

LEMMA NextIInv == IInv /\ [Next]_vars => IInv'
  BY NextChainsInv, NextCancelable, NextCancelInv DEF IInv

\* The strengthened invariant holds in every reachable state.
THEOREM Inductive == Spec => []IInv
  BY InitIInv, NextIInv, PTL DEF Spec

\* What a cancel asks the planner to give up is nothing but the plan that was in
\* flight when it read the slot, whatever happens before it calls; and it asks
\* for every plan that was, its own, if no other goal had begun to plan.
THEOREM CancelsReachPlans == Spec => []CancelReachesThePlan
  <1>1. IInv => CancelReachesThePlan
    <2> SUFFICES ASSUME IInv, NEW c \in Chains, canceler[c] \in {"called", "acked"}
                 PROVE  /\ told[c] \subseteq found[c]
                        /\ c \in alone =>
                             told[c] = found[c] /\ found[c] \subseteq OwnPlans(c)
      BY DEF CancelReachesThePlan
    <2>1. CancelInv(c) /\ NoPlan \notin found[c]
      BY DEF IInv, ChainsInv, TypeOK
    <2>2. told[c] = {copied[c]} \ {NoPlan}
      BY <2>1 DEF CancelInv
    <2>3. told[c] \subseteq found[c]
      BY <2>1, <2>2 DEF CancelInv
    <2>4. ASSUME c \in alone
          PROVE  told[c] = found[c] /\ found[c] \subseteq OwnPlans(c)
      <3>1. found[c] \subseteq {copied[c]} /\ found[c] \subseteq OwnPlans(c)
        BY <2>1, <2>4 DEF CancelInv
      <3> QED BY <2>1, <2>2, <2>3, <3>1
    <2> QED BY <2>3, <2>4
  <1> QED BY <1>1, Inductive, PTL
-----------------------------------------------------------------------------
(* What a chain has left to do, and that nobody else adds to it.           *)

\* What is left of the leg or blend chain c is at: to ask, to dispatch, to be
\* taken by the planner, to be answered, to go on.
LegLeft(c) ==
  CASE phase[c] = "asking" -> 5
    [] phase[c] = "dispatching" -> 4
    [] phase[c] = "waiting" /\ plan[<<c, step[c]>>] = "sent" -> 3
    [] phase[c] = "waiting" /\ plan[<<c, step[c]>>] = "inflight" -> 2
    [] OTHER -> 1

Left(c) ==
  IF phase[c] = "done" THEN 0 ELSE 5 * (Targets[c] + 1 - step[c]) + LegLeft(c)

\* Every step of a chain or of the planner for it leaves it less to do, and no
\* other step, of another goal or of a cancel, leaves it more.
LEMMA ChainNears ==
  ASSUME ChainsInv, [Next]_vars, NEW c \in Chains, phase[c] # "idle"
  PROVE  /\ Left(c)' <= Left(c)
         /\ ChainStep(c) \/ PlannerServes(c) => Left(c)' < Left(c)
  <1>a. TypeOK /\ ProgressInv(c)
    BY DEF ChainsInv
  <1>s. /\ Targets[c] \in Nat /\ step[c] \in Nat /\ step[c] \in 1 .. Targets[c] + 1
        /\ <<c, step[c]>> \in Plans
    BY <1>a, Steps
  <1>l. LegLeft(c) \in 1 .. 5 /\ Left(c) \in Nat
    BY <1>s DEF LegLeft, Left
  <1> USE DEF clientVars, chainVars, cancelVars, handleVars, Enter, OnDone, Answered
  <1>1. ASSUME Ask(c) PROVE Left(c)' < Left(c)
    <2>1. /\ phase[c] = "asking" /\ step' = step
          /\ phase'[c] \in {"done", "dispatching"}
      BY <1>a, <1>1 DEF Ask, TypeOK
    <2> QED BY <1>s, <2>1 DEF Left, LegLeft
  <1>2. ASSUME Dispatch(c) PROVE Left(c)' < Left(c)
    <2>1. /\ phase[c] = "dispatching" /\ step' = step /\ phase'[c] = "waiting"
          /\ plan'[<<c, step[c]>>] \in {"sent", "failed"}
      BY <1>a, <1>s, <1>2 DEF Dispatch, DispatchPlan, MovePlan, TypeOK, ClientTypeOK
    <2> QED BY <1>s, <2>1 DEF Left, LegLeft
  <1>3. ASSUME Continue(c) PROVE Left(c)' < Left(c)
    <2>1. /\ phase[c] = "waiting" /\ plan[<<c, step[c]>>] \in Answered
          /\ \/ phase'[c] = "done" /\ step' = step
             \/ phase'[c] = "asking" /\ step'[c] = step[c] + 1
      BY <1>a, <1>3 DEF Continue, TypeOK
    <2>2. LegLeft(c) = 1
      BY <2>1 DEF LegLeft
    <2>3. CASE phase'[c] = "done"
      BY <1>s, <2>1, <2>2, <2>3 DEF Left
    <2>4. CASE phase'[c] = "asking" /\ step'[c] = step[c] + 1
      <3>1. LegLeft(c)' = 5
        BY <2>4 DEF LegLeft
      <3>2. Left(c)' = 5 * (Targets[c] + 1 - (step[c] + 1)) + 5
        BY <2>4, <3>1 DEF Left
      <3> QED BY <1>s, <2>1, <2>2, <3>2 DEF Left
    <2> QED BY <2>1, <2>3, <2>4
  <1>4. ASSUME NEW k \in 1 .. Targets[c] + 1, PlannerStep(<<c, k>>)
        PROVE  Left(c)' < Left(c)
    <2>1. /\ UNCHANGED <<phase, step>>
          /\ \/ plan[<<c, k>>] = "sent" /\ plan'[<<c, k>>] \in {"inflight", "failed"}
             \/ plan[<<c, k>>] = "inflight" /\ plan'[<<c, k>>] \in {"ok", "failed"}
      BY <1>a, <1>4, PlanIds
      DEF PlannerStep, GoalResponse, PlanResult, MovePlan, TypeOK, ClientTypeOK
    <2>2. k = step[c] /\ phase[c] = "waiting"
      <3>1. k \in AtPlanner(c)
        BY <2>1 DEF AtPlanner
      <3> QED BY <3>1, OnlyItsStep
    <2> QED BY <1>s, <2>1, <2>2 DEF Left, LegLeft
  <1>5. ASSUME phase'[c] = phase[c], step'[c] = step[c],
               plan'[<<c, step[c]>>] = plan[<<c, step[c]>>]
        PROVE  Left(c)' = Left(c)
    BY <1>5 DEF Left, LegLeft
  <1>6. ASSUME NEW d \in Chains \ {c}, StartPlan(d) \/ Ask(d) \/ Continue(d)
        PROVE  Left(c)' = Left(c)
    BY <1>a, <1>5, <1>6 DEF StartPlan, Ask, Continue, TypeOK
  <1>7. ASSUME NEW d \in Chains \ {c}, Dispatch(d) PROVE Left(c)' = Left(c)
    <2>1. <<d, step[d]>> # <<c, step[c]>>
      OBVIOUS
    <2> QED BY <1>a, <1>s, <1>5, <1>7, <2>1
        DEF Dispatch, DispatchPlan, MovePlan, TypeOK, ClientTypeOK
  <1>8. ASSUME NEW p \in Plans, PlannerStep(p), ~PlannerServes(c)
        PROVE  Left(c)' = Left(c)
    <2>1. p # <<c, step[c]>>
      BY <1>s, <1>8 DEF PlannerServes
    <2> QED BY <1>a, <1>s, <1>5, <1>8, <2>1
        DEF PlannerStep, GoalResponse, PlanResult, MovePlan, TypeOK, ClientTypeOK
  <1>9. ASSUME NEW d \in Chains, CancelPlanning(d) \/ CancelStep(d)
        PROVE  Left(c)' = Left(c)
    BY <1>5, <1>9 DEF CancelPlanning, CancelStep, CallCancel, CallCopy, AckCancel,
      CopySlot
  <1>10. ASSUME UNCHANGED vars PROVE Left(c)' = Left(c)
    BY <1>5, <1>10 DEF vars
  <1>11. ASSUME ~UNCHANGED vars, ~ChainStep(c), ~PlannerServes(c)
         PROVE  Left(c)' = Left(c)
    <2>1. ~StartPlan(c)
      BY DEF StartPlan
    <2> QED BY <1>6, <1>7, <1>8, <1>9, <1>11, <2>1 DEF Next, ChainStep
  <1>12. ChainStep(c) \/ PlannerServes(c) => Left(c)' < Left(c)
    BY <1>1, <1>2, <1>3, <1>4 DEF ChainStep, PlannerServes
  <1>13. Left(c)' \in Nat
    <2>1. TypeOK'
      BY <1>a, NextTypeOK
    <2>2. step'[c] \in Nat /\ step'[c] \in 1 .. Targets[c] + 1
      BY <1>s, <2>1 DEF TypeOK
    <2>3. LegLeft(c)' \in 1 .. 5
      BY DEF LegLeft
    <2> QED BY <1>s, <2>2, <2>3 DEF Left
  <1>14. Left(c)' = Left(c) \/ Left(c)' < Left(c)
    BY <1>10, <1>11, <1>12
  <1>15. Left(c)' <= Left(c)
    BY <1>l, <1>13, <1>14
  <1> QED BY <1>12, <1>15

\* A goal that has begun to plan nears its answer with every step of its own
\* chain and of the planner for it, no step of another goal or of a cancel
\* takes it farther, and it is answered when nothing is left: the measure behind
\* OthersHoldUpNobody, for goals of any number of targets.
THEOREM ChainsAdvance ==
  Spec => [][\A c \in Chains :
               phase[c] # "idle" =>
                 /\ Left(c)' <= Left(c)
                 /\ ChainStep(c) \/ PlannerServes(c) => Left(c)' < Left(c)
                 /\ Left(c)' = 0 <=> answers'[c] = 1]_vars
  <1> DEFINE Answers == \A c \in Chains : Left(c) = 0 <=> answers[c] = 1
  <1>1. ChainsInv => Answers
    <2> SUFFICES ASSUME ChainsInv, NEW c \in Chains PROVE Left(c) = 0 <=> answers[c] = 1
      OBVIOUS
    <2>1. Targets[c] \in Nat /\ step[c] \in Nat /\ step[c] \in 1 .. Targets[c] + 1
      BY Steps DEF ChainsInv
    <2>2. LegLeft(c) \in 1 .. 5
      BY DEF LegLeft
    <2>3. Left(c) = 0 <=> phase[c] = "done"
      BY <2>1, <2>2 DEF Left
    <2>4. answers[c] = IF phase[c] = "done" THEN 1 ELSE 0
      BY DEF ChainsInv, ProgressInv
    <2> QED BY <2>3, <2>4
  <1>2. ChainsInv /\ Answers' /\ [Next]_vars =>
          [\A c \in Chains :
             phase[c] # "idle" =>
               /\ Left(c)' <= Left(c)
               /\ ChainStep(c) \/ PlannerServes(c) => Left(c)' < Left(c)
               /\ Left(c)' = 0 <=> answers'[c] = 1]_vars
    BY ChainNears
  <1> QED BY <1>1, <1>2, ChainsHold, PTL DEF Spec
=============================================================================
