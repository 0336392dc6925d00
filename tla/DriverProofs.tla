---------------------------- MODULE DriverProofs ----------------------------
(***************************************************************************)
(* Facts about the Supervisor's inbox, used by the proofs about the action *)
(* servers that post to it.                                                *)
(***************************************************************************)
EXTENDS Driver, TLAPS

-----------------------------------------------------------------------------
(* Queues.                                                                 *)

\* What appending a message to a queue of messages adds to it.
LEMMA OccursAppend ==
  ASSUME NEW s \in Seq(Message), NEW e \in Message, NEW m
  PROVE  /\ Append(s, e) \in Seq(Message)
         /\ Occurs(m, Append(s, e)) <=> Occurs(m, s) \/ m = e
  <1>1. /\ Append(s, e) \in Seq(Message)
        /\ Len(Append(s, e)) = Len(s) + 1
        /\ \A i \in 1..Len(s) : Append(s, e)[i] = s[i]
        /\ Append(s, e)[Len(s) + 1] = e
    OBVIOUS
  <1>2. DOMAIN Append(s, e) = 1..(Len(s) + 1) /\ DOMAIN s = 1..Len(s)
        /\ Len(s) \in Nat
    BY <1>1
  <1>3. 1..(Len(s) + 1) = 1..Len(s) \cup {Len(s) + 1}
    BY <1>2
  <1> QED BY <1>1, <1>2, <1>3 DEF Occurs

\* Appending a message the queue does not hold keeps every message unique.
LEMMA AtMostOnceAppend ==
  ASSUME NEW s \in Seq(Message), NEW e \in Message, NEW m,
         AtMostOnce(m, s), m = e => ~Occurs(m, s)
  PROVE  AtMostOnce(m, Append(s, e))
  <1>1. /\ Len(Append(s, e)) = Len(s) + 1
        /\ \A i \in 1..Len(s) : Append(s, e)[i] = s[i]
        /\ Append(s, e)[Len(s) + 1] = e
        /\ Len(s) \in Nat
        /\ DOMAIN Append(s, e) = 1..(Len(s) + 1) /\ DOMAIN s = 1..Len(s)
    OBVIOUS
  <1> QED BY <1>1 DEF Occurs, AtMostOnce

\* What taking the head off a queue leaves in it.
LEMMA OccursTail ==
  ASSUME NEW s \in Seq(Message), s # <<>>, NEW m
  PROVE  /\ Tail(s) \in Seq(Message)
         /\ Head(s) \in Message /\ Occurs(Head(s), s)
         /\ Occurs(m, Tail(s)) => Occurs(m, s)
         /\ Occurs(m, s) => m = Head(s) \/ Occurs(m, Tail(s))
         /\ AtMostOnce(m, s) => AtMostOnce(m, Tail(s))
         /\ AtMostOnce(m, s) /\ m = Head(s) => ~Occurs(m, Tail(s))
  <1>1. /\ Tail(s) \in Seq(Message) /\ Len(s) \in Nat /\ Len(s) >= 1
        /\ DOMAIN s = 1..Len(s)
        /\ DOMAIN Tail(s) = 1..(Len(s) - 1)
        /\ \A i \in 1..(Len(s) - 1) : Tail(s)[i] = s[i + 1]
        /\ Head(s) = s[1]
    OBVIOUS
  <1>2. Head(s) \in Message /\ Occurs(Head(s), s)
    BY <1>1 DEF Occurs
  <1>3. Occurs(m, Tail(s)) => Occurs(m, s)
    BY <1>1 DEF Occurs
  <1>4. Occurs(m, s) => m = Head(s) \/ Occurs(m, Tail(s))
    <2> SUFFICES ASSUME NEW i \in 1..Len(s), s[i] = m, i # 1
                 PROVE  Occurs(m, Tail(s))
      BY <1>1 DEF Occurs
    <2>1. i - 1 \in 1..(Len(s) - 1) /\ Tail(s)[i - 1] = m
      BY <1>1
    <2> QED BY <2>1, <1>1 DEF Occurs
  <1>5. AtMostOnce(m, s) => AtMostOnce(m, Tail(s))
    BY <1>1 DEF AtMostOnce
  <1>6. AtMostOnce(m, s) /\ m = Head(s) => ~Occurs(m, Tail(s))
    BY <1>1 DEF AtMostOnce, Occurs
  <1> QED BY <1>1, <1>2, <1>3, <1>4, <1>5, <1>6

\* The messages the servers and the environment post are messages, and they
\* differ where the proofs need them to.
LEMMA Messages ==
  /\ \A g \in Goals : GoalMsg(g) \in Message /\ CancelMsg(g) \in Message
  /\ HaltMsg("Halted") \in Message /\ HaltMsg("ContactStop") \in Message
  /\ \A g, h : GoalMsg(g) # CancelMsg(h) /\ (GoalMsg(g) = GoalMsg(h) => g = h)
  /\ \A g, c : GoalMsg(g) # HaltMsg(c)
  /\ \A m \in Message : m.kind = "goal" => m.goal \in Goals /\ m = GoalMsg(m.goal)
  /\ \A m \in Message : m.kind = "cancel" => m.goal \in Goals /\ m = CancelMsg(m.goal)
  /\ \A m \in Message : m.kind = "halt" =>
       m.code \in {"Halted", "ContactStop"} /\ m = HaltMsg(m.code)
  <1>1. \A g \in Goals : GoalMsg(g) \in Message /\ CancelMsg(g) \in Message
    BY DEF GoalMsg, CancelMsg, Message
  <1>2. HaltMsg("Halted") \in Message /\ HaltMsg("ContactStop") \in Message
    BY DEF HaltMsg, Message
  <1>3. \A g, h : GoalMsg(g) # CancelMsg(h) /\ (GoalMsg(g) = GoalMsg(h) => g = h)
    BY DEF GoalMsg, CancelMsg
  <1>4. \A g, c : GoalMsg(g) # HaltMsg(c)
    BY DEF GoalMsg, HaltMsg
  <1>5. \A m \in Message : m.kind = "goal" => m.goal \in Goals /\ m = GoalMsg(m.goal)
    BY DEF GoalMsg, Message
  <1>6. \A m \in Message : m.kind = "cancel" => m.goal \in Goals /\ m = CancelMsg(m.goal)
    BY DEF CancelMsg, Message
  <1>7. \A m \in Message : m.kind = "halt" =>
          m.code \in {"Halted", "ContactStop"} /\ m = HaltMsg(m.code)
    BY DEF HaltMsg, Message
  <1> QED BY <1>1, <1>2, <1>3, <1>4, <1>5, <1>6, <1>7
-----------------------------------------------------------------------------
(* A stop that is still ahead of the sampler.                              *)

\* Appending a message keeps a stop ahead, unless it is the goal's own; and
\* appending a stop puts one ahead.
LEMMA StopAheadAppend ==
  ASSUME NEW s \in Seq(Message), NEW e \in Message, NEW g, e # GoalMsg(g),
         StopAhead(g, s) \/ e = CancelMsg(g) \/ e.kind = "halt"
  PROVE  StopAhead(g, Append(s, e))
  <1>1. /\ Len(s) \in Nat /\ DOMAIN s = 1..Len(s)
        /\ DOMAIN Append(s, e) = 1..(Len(s) + 1)
        /\ \A i \in 1..Len(s) : Append(s, e)[i] = s[i]
        /\ Append(s, e)[Len(s) + 1] = e
    OBVIOUS
  <1>2. \A j \in 1..(Len(s) + 1) : Append(s, e)[j] = GoalMsg(g) =>
          j \in 1..Len(s) /\ s[j] = GoalMsg(g)
    BY <1>1
  <1>3. CASE StopAhead(g, s)
    <2>1. PICK i \in 1..Len(s) :
            /\ s[i] = CancelMsg(g) \/ s[i].kind = "halt"
            /\ \A j \in 1..Len(s) : s[j] = GoalMsg(g) => j < i
      BY <1>1, <1>3 DEF StopAhead
    <2>2. i \in 1..(Len(s) + 1) /\ Append(s, e)[i] = s[i]
      BY <1>1
    <2> QED BY <1>1, <1>2, <2>1, <2>2 DEF StopAhead
  <1>4. CASE e = CancelMsg(g) \/ e.kind = "halt"
    <2>1. Len(s) + 1 \in 1..(Len(s) + 1) /\ \A j \in 1..Len(s) : j < Len(s) + 1
      BY <1>1
    <2> QED BY <1>1, <1>2, <1>4, <2>1 DEF StopAhead
  <1> QED BY <1>3, <1>4

\* Taking the head off the queue keeps a stop ahead when the head is no stop,
\* and also when the goal's own message is in the queue, which the stop is
\* behind.
LEMMA StopAheadTail ==
  ASSUME NEW s \in Seq(Message), s # <<>>, NEW g, StopAhead(g, s),
         \/ Head(s) # CancelMsg(g) /\ Head(s).kind # "halt"
         \/ Occurs(GoalMsg(g), s)
  PROVE  StopAhead(g, Tail(s))
  <1>1. /\ Len(s) \in Nat /\ Len(s) >= 1 /\ DOMAIN s = 1..Len(s)
        /\ DOMAIN Tail(s) = 1..(Len(s) - 1)
        /\ \A i \in 1..(Len(s) - 1) : Tail(s)[i] = s[i + 1]
        /\ Head(s) = s[1]
    OBVIOUS
  <1>2. PICK i \in 1..Len(s) :
          /\ s[i] = CancelMsg(g) \/ s[i].kind = "halt"
          /\ \A j \in 1..Len(s) : s[j] = GoalMsg(g) => j < i
    BY <1>1 DEF StopAhead
  <1>3. i # 1
    <2>1. CASE Occurs(GoalMsg(g), s)
      BY <1>1, <1>2, <2>1 DEF Occurs
    <2> QED BY <1>1, <1>2, <2>1
  <1>4. i - 1 \in 1..(Len(s) - 1) /\ Tail(s)[i - 1] = s[i]
    BY <1>1, <1>3
  <1>5. \A j \in 1..(Len(s) - 1) : Tail(s)[j] = GoalMsg(g) => j < i - 1
    BY <1>1, <1>2
  <1> QED BY <1>1, <1>2, <1>4, <1>5 DEF StopAhead

-----------------------------------------------------------------------------
(* How near that stop is: the measure behind "a canceled goal ends".         *)

\* One of the first n messages of queue s is a stop ahead of g.
StopWithin(g, s, n) ==
  \E i \in DOMAIN s :
    /\ i <= n
    /\ s[i] = CancelMsg(g) \/ s[i].kind = "halt"
    /\ \A j \in DOMAIN s : s[j] = GoalMsg(g) => j < i

\* A stop that is ahead is so within the queue's length.
LEMMA StopWithinLength ==
  ASSUME NEW s \in Seq(Message), NEW g
  PROVE  StopAhead(g, s) <=> StopWithin(g, s, Len(s))
  <1>1. \A i \in DOMAIN s : i <= Len(s)
    OBVIOUS
  <1> QED BY <1>1 DEF StopAhead, StopWithin

\* Appending a message, but for the goal's own, brings a stop no farther.
LEMMA StopWithinAppend ==
  ASSUME NEW s \in Seq(Message), NEW e \in Message, NEW g, e # GoalMsg(g),
         NEW n \in Nat, StopWithin(g, s, n)
  PROVE  StopWithin(g, Append(s, e), n)
  <1>1. /\ Len(s) \in Nat /\ DOMAIN s = 1..Len(s)
        /\ DOMAIN Append(s, e) = 1..(Len(s) + 1)
        /\ \A i \in 1..Len(s) : Append(s, e)[i] = s[i]
        /\ Append(s, e)[Len(s) + 1] = e
    OBVIOUS
  <1>2. \A j \in 1..(Len(s) + 1) : Append(s, e)[j] = GoalMsg(g) =>
          j \in 1..Len(s) /\ s[j] = GoalMsg(g)
    BY <1>1
  <1>3. PICK i \in 1..Len(s) :
          /\ i <= n
          /\ s[i] = CancelMsg(g) \/ s[i].kind = "halt"
          /\ \A j \in 1..Len(s) : s[j] = GoalMsg(g) => j < i
    BY <1>1 DEF StopWithin
  <1>4. i \in 1..(Len(s) + 1) /\ Append(s, e)[i] = s[i]
    BY <1>1
  <1> QED BY <1>1, <1>2, <1>3, <1>4 DEF StopWithin

\* Taking the head off the queue brings it one message nearer, unless the head
\* is itself a stop and the goal's own message is not in the queue.
LEMMA StopWithinTail ==
  ASSUME NEW s \in Seq(Message), s # <<>>, NEW g, NEW n \in Nat, StopWithin(g, s, n),
         \/ Head(s) # CancelMsg(g) /\ Head(s).kind # "halt"
         \/ Occurs(GoalMsg(g), s)
  PROVE  n > 0 /\ StopWithin(g, Tail(s), n) /\ StopWithin(g, Tail(s), n - 1)
  <1>1. /\ Len(s) \in Nat /\ Len(s) >= 1 /\ DOMAIN s = 1..Len(s)
        /\ DOMAIN Tail(s) = 1..(Len(s) - 1)
        /\ \A i \in 1..(Len(s) - 1) : Tail(s)[i] = s[i + 1]
        /\ Head(s) = s[1]
    OBVIOUS
  <1>2. PICK i \in 1..Len(s) :
          /\ i <= n
          /\ s[i] = CancelMsg(g) \/ s[i].kind = "halt"
          /\ \A j \in 1..Len(s) : s[j] = GoalMsg(g) => j < i
    BY <1>1 DEF StopWithin
  <1>3. i # 1
    <2>1. CASE Occurs(GoalMsg(g), s)
      BY <1>1, <1>2, <2>1 DEF Occurs
    <2> QED BY <1>1, <1>2, <2>1
  <1>4. /\ i - 1 \in 1..(Len(s) - 1) /\ Tail(s)[i - 1] = s[i]
        /\ i - 1 <= n - 1 /\ i - 1 <= n /\ n > 0
    BY <1>1, <1>2, <1>3
  <1>5. \A j \in 1..(Len(s) - 1) : Tail(s)[j] = GoalMsg(g) => j < i - 1
    BY <1>1, <1>2
  <1>6. StopWithin(g, Tail(s), n - 1)
    BY <1>1, <1>2, <1>4, <1>5 DEF StopWithin
  <1>7. StopWithin(g, Tail(s), n)
    BY <1>1, <1>2, <1>4, <1>5 DEF StopWithin
  <1> QED BY <1>4, <1>6, <1>7
=============================================================================
