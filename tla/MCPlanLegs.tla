----------------------------- MODULE MCPlanLegs -----------------------------
(* PlanLegs with goals of one, two and three targets.                      *)
EXTENDS PlanLegs

CONSTANTS c1, c2

\* One many-target goal: three legs and a blend.
SoleChains == {c1}
SoleTargets == [c \in SoleChains |-> 3]

\* A many-target goal of two legs and a single-target goal beside it.
TwoChains == {c1, c2}
TwoTargets == [c \in TwoChains |-> IF c = c1 THEN 2 ELSE 1]

PlansOf(targets) ==
  UNION {{c} \X (1 .. targets[c] + 1) : c \in DOMAIN targets}

SolePlans == PlansOf(SoleTargets)
TwoPlans == PlansOf(TwoTargets)
=============================================================================
