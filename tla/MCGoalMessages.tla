--------------------------- MODULE MCGoalMessages ---------------------------
(* Requests that differ from an acceptable one in up to two respects.      *)
EXTENDS GoalMessages

P(pos, vel, acc) == [pos |-> pos, vel |-> vel, acc |-> acc]
Plain(points)    == [names |-> "arm", frame |-> "arm_mount", points |-> points]
Full             == P(TRUE, TRUE, TRUE)

MCTrajectories ==
  {Plain(<<Full, Full>>), Plain(<<>>), Plain(<<Full, P(FALSE, TRUE, TRUE)>>),
   Plain(<<Full, P(TRUE, FALSE, TRUE)>>), Plain(<<Full, P(TRUE, TRUE, FALSE)>>),
   [Plain(<<Full>>) EXCEPT !.names = "other"], [Plain(<<Full>>) EXCEPT !.frame = "other"]}

MCPresetNames == {"home", "tool"}
MCRequired    == {"home"}

Goal0 == [frame |-> "arm_mount", value |-> "valid", preset |-> "home", speed |-> 50, hold |-> 0,
          radius |-> 5]
Slow   == Goal0
Fast   == [Goal0 EXCEPT !.speed = 100, !.hold = 2, !.radius = 0]
Others ==
  {[Goal0 EXCEPT !.frame = "base_link"], [Goal0 EXCEPT !.hold = 3], [Goal0 EXCEPT !.radius = -1],
   [Goal0 EXCEPT !.radius = NotFinite], [Goal0 EXCEPT !.preset = "tool"]}
   \cup {[Goal0 EXCEPT !.value = v] : v \in {"notFinite", "notUnit"}}
   \cup {[Goal0 EXCEPT !.speed = s] : s \in {0, 101, NotFinite}}

Base(kind, targets) ==
  [kind |-> kind, mode |-> 0, gains |-> [profile |-> 0, inBounds |-> TRUE], preemption |-> 1,
   speed |-> 50, trajectory |-> Plain(<<Full, Full>>), pathTol |-> "empty", goalTol |-> "empty",
   targets |-> targets]

Compliance(m) ==
  {m} \cup {[m EXCEPT !.mode = 1, !.gains = [profile |-> p, inBounds |-> b]] :
              p \in 0 .. 5, b \in BOOLEAN}
      \cup {[m EXCEPT !.mode = 2], [m EXCEPT !.gains.profile = 1]}
Speeds(m) == {m} \cup {[m EXCEPT !.speed = s] : s \in {0, 1, 101, NotFinite}}

TrajectoryGoals ==
  LET m == Base("trajectory", <<>>) IN
    {[m EXCEPT !.trajectory = t, !.preemption = p] : t \in MCTrajectories, p \in 0 .. 2}
    \cup {[m EXCEPT !.pathTol = a, !.goalTol = b] :
            a \in {"empty", "arm", "other"}, b \in {"empty", "arm", "other"}}
    \cup UNION {Speeds(c) : c \in Compliance(m)}
SingleGoals ==
  UNION {Speeds(Base(k, <<t>>)) : k \in {"pose", "config", "preset"}, t \in Others \cup {Slow, Fast}}
    \cup UNION {Compliance(Base(k, <<Goal0>>)) : k \in {"pose", "config", "preset"}}
ManyGoals ==
  {Base(k, ts) : k \in ManyTarget, ts \in {<<>>, <<Fast>>, <<Slow, Fast>>, <<Fast, Slow>>}}
    \cup {Base(k, <<Slow, t>>) : k \in ManyTarget, t \in Others}
    \cup {Base(k, <<t, Slow>>) : k \in ManyTarget, t \in Others}
GainsRequests ==
  {[Base("set_gains", <<>>) EXCEPT !.gains = [profile |-> p, inBounds |-> b]] :
     p \in 0 .. 5, b \in BOOLEAN}

MCGoals == TrajectoryGoals \cup SingleGoals \cup ManyGoals \cup GainsRequests
=============================================================================
