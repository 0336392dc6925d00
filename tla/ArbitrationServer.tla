------------------------- MODULE ArbitrationServer -------------------------
(***************************************************************************)
(* ArbitrationServer: the ownership services, the broadcast /estop and the *)
(* latched /control_status, in front of the core Arbiter.                  *)
(*                                                                         *)
(* Two executor threads run it at once: the services and the status timer  *)
(* share the node's default mutually exclusive group ("service"), /estop   *)
(* has a group of its own ("estop").  Every call on the Arbiter, every     *)
(* region under m_ and the publish after it is a step of its own.          *)
(*                                                                         *)
(* The Arbiter (estopped, owner, generation) is external: grant() refuses  *)
(* while e-stopped and seizes otherwise; estop() latches without its mutex *)
(* and only then takes it to end the ownership.                            *)
(*                                                                         *)
(* Left out: owner names and reasons (they are only logged and shown), the *)
(* rejected_count, diagnostics.                                            *)
(***************************************************************************)
EXTENDS Naturals, Sequences

CONSTANTS
  Tokens,      \* capability tokens, supplied by a client or minted by core
  NoToken,     \* no owner, nothing retained
  Sources,     \* e-stop sources: the MIB, a web page, a joystick
  NoTarget,    \* an empty clear_target
  Depth,       \* depth of the /estop subscription's queue
  MaxGrants,   \* bound: accepted grants
  MaxFlips     \* bound: how often sources change what they ask for

ASSUME ArbitrationAssumption ==
  /\ NoToken \notin Tokens
  /\ NoTarget \notin Sources
  /\ Depth \in Nat \ {0}
  /\ MaxGrants \in Nat
  /\ MaxFlips \in Nat

VARIABLES
  estopped, owner, generation,  \* the Arbiter: latch, owner's token, counter
  retained,         \* retained_token_, or NoToken when ~have_retained_
  engagedSources,   \* engaged_sources_
  memo,             \* last_published_
  topic,            \* the sample a late /control_status subscriber receives
  at,               \* where each thread is
  request,          \* the token of the service call in progress
  granted,          \* GrantResult::accepted of the acquire in progress
  seen,             \* the status each thread has read and may publish
  asks,             \* environment: the sources that want the arm stopped
  wire,             \* environment: /estop samples queued for on_estop
  flips,            \* environment: how often asks has changed
  newest            \* history: sources whose newest plain sample engages

arbiterVars == <<estopped, owner, generation>>
serviceVars == <<request, granted>>
statusVars == <<memo, topic, seen>>
worldVars == <<asks, flips>>
vars == <<arbiterVars, retained, engagedSources, statusVars, at, serviceVars,
          worldVars, wire, newest>>

Threads == {"service", "estop"}

\* What ControlStatus shows of the Arbiter.
Status == [estopped |-> estopped, owned |-> owner # NoToken,
           generation |-> generation]

NoStatus == [estopped |-> FALSE, owned |-> FALSE, generation |-> 0]

StatusType == [estopped : BOOLEAN, owned : BOOLEAN, generation : 0..MaxGrants]

Sample == [source : Sources, engaged : BOOLEAN, target : Sources \cup {NoTarget}]

Points == {"idle", "storing", "revoking", "latching", "dropping", "forgetting",
           "clearing", "reading", "comparing", "publishing"}

TypeOK ==
  /\ estopped \in BOOLEAN
  /\ owner \in Tokens \cup {NoToken}
  /\ generation \in 0..MaxGrants
  /\ retained \in Tokens \cup {NoToken}
  /\ engagedSources \subseteq Sources
  /\ memo \in StatusType /\ topic \in StatusType
  /\ at \in [Threads -> Points]
  /\ request \in Tokens \cup {NoToken}
  /\ granted \in BOOLEAN
  /\ seen \in [Threads -> StatusType]
  /\ asks \subseteq Sources
  /\ wire \in Seq(Sample)
  /\ flips \in 0..MaxFlips
  /\ newest \subseteq Sources

\* The constructor seeds the latched topic before any thread runs.
Init ==
  /\ estopped = FALSE /\ owner = NoToken /\ generation = 0
  /\ retained = NoToken
  /\ engagedSources = {}
  /\ memo = Status /\ topic = Status
  /\ at = [th \in Threads |-> "idle"]
  /\ request = NoToken
  /\ granted = FALSE
  /\ seen = [th \in Threads |-> NoStatus]
  /\ asks = {} /\ flips = 0
  /\ wire = <<>>
  /\ newest = {}

Goto(th, point) == at' = [at EXCEPT ![th] = point]

\* What a thread kept to itself goes when its callback returns.
Return(th) == Goto(th, "idle") /\ seen' = [seen EXCEPT ![th] = NoStatus]

EndRequest == request' = NoToken /\ granted' = FALSE

-----------------------------------------------------------------------------
(* publish_status_if_changed(), on either thread.                          *)

ReadStatus(th) ==
  /\ at[th] = "reading"
  /\ seen' = [seen EXCEPT ![th] = Status]
  /\ Goto(th, "comparing")
  /\ UNCHANGED <<arbiterVars, retained, engagedSources, memo, topic,
                 serviceVars, worldVars, wire, newest>>

\* Under m_: nothing new is not published, anything else becomes the memo.
StoreStatus(th) ==
  /\ at[th] = "comparing"
  /\ memo' = seen[th]
  /\ IF seen[th] = memo THEN Return(th) ELSE Goto(th, "publishing") /\ UNCHANGED seen
  /\ UNCHANGED <<arbiterVars, retained, engagedSources, topic,
                 serviceVars, worldVars, wire, newest>>

\* After m_ is released.
PublishStatus(th) ==
  /\ at[th] = "publishing"
  /\ topic' = seen[th]
  /\ Return(th)
  /\ UNCHANGED <<arbiterVars, retained, engagedSources, memo,
                 serviceVars, worldVars, wire, newest>>

-----------------------------------------------------------------------------
(* The service thread.                                                     *)

\* on_acquire: grant() with the client's key or one core mints.
Acquire(t) ==
  /\ at["service"] = "idle"
  /\ request' = t
  /\ \/ /\ estopped
        /\ granted' = FALSE
        /\ UNCHANGED <<owner, generation>>
     \/ /\ ~estopped
        /\ generation < MaxGrants
        /\ granted' = TRUE
        /\ owner' = t
        /\ generation' = generation + 1
  /\ Goto("service", "storing")
  /\ UNCHANGED <<estopped, retained, engagedSources, statusVars, worldVars,
                 wire, newest>>

\* Slip: a seizure leaves the previous owner's token in place.
KeepsFirstToken ==
  /\ at["service"] = "storing"
  /\ retained' = IF granted /\ retained = NoToken THEN request ELSE retained
  /\ EndRequest
  /\ Goto("service", "reading")
  /\ UNCHANGED <<arbiterVars, engagedSources, statusVars, worldVars, wire, newest>>

StoreRetained ==
  /\ at["service"] = "storing"
  /\ retained' = IF granted THEN request ELSE NoToken
  /\ EndRequest
  /\ Goto("service", "reading")
  /\ UNCHANGED <<arbiterVars, engagedSources, statusVars, worldVars, wire, newest>>

\* Slip: any caller's release is honoured.
ReleasesForAnyone(t) ==
  /\ at["service"] = "idle"
  /\ request' = t
  /\ Goto("service", "revoking")
  /\ UNCHANGED <<arbiterVars, retained, engagedSources, statusVars, granted,
                 worldVars, wire, newest>>

\* on_release: a token other than the retained one is refused here.
Release(t) ==
  /\ at["service"] = "idle"
  /\ retained = t
  /\ request' = t
  /\ Goto("service", "revoking")
  /\ UNCHANGED <<arbiterVars, retained, engagedSources, statusVars, granted,
                 worldVars, wire, newest>>

\* on_revoke: the operator's override checks no token.
RevokeControl ==
  /\ at["service"] = "idle"
  /\ request' = NoToken
  /\ Goto("service", "revoking")
  /\ UNCHANGED <<arbiterVars, retained, engagedSources, statusVars, granted,
                 worldVars, wire, newest>>

\* arb_.revoke()
Revoke ==
  /\ at["service"] = "revoking"
  /\ owner' = NoToken
  /\ EndRequest
  /\ Goto("service", "forgetting")
  /\ UNCHANGED <<estopped, generation, retained, engagedSources, statusVars,
                 worldVars, wire, newest>>

\* forget_token(), on either thread.
ForgetToken(th) ==
  /\ at[th] = "forgetting"
  /\ retained' = NoToken
  /\ Goto(th, "reading")
  /\ UNCHANGED <<arbiterVars, engagedSources, statusVars, serviceVars,
                 worldVars, wire, newest>>

StatusTimer ==
  /\ at["service"] = "idle"
  /\ Goto("service", "reading")
  /\ UNCHANGED <<arbiterVars, retained, engagedSources, statusVars,
                 serviceVars, worldVars, wire, newest>>

-----------------------------------------------------------------------------
(* The e-stop thread: on_estop.                                            *)

\* Slip: an engage is only recorded.
OnlyRecordsEngage(m) ==
  /\ m.engaged
  /\ engagedSources' = engagedSources \cup {m.source}
  /\ newest' = newest \cup {m.source}
  /\ UNCHANGED at

\* An engage acts on a source's first, or when something else cleared the
\* latch; a repeat does not halt again.
TakeEngage(m) ==
  /\ m.engaged
  /\ engagedSources' = engagedSources \cup {m.source}
  /\ IF m.source \notin engagedSources \/ ~estopped
     THEN Goto("estop", "latching")
     ELSE UNCHANGED at
  /\ newest' = newest \cup {m.source}

\* A clear attempt never changes its sender's state.
TakeClearAttempt(m) ==
  /\ ~m.engaged /\ m.target # NoTarget
  /\ UNCHANGED <<engagedSources, at, newest>>

\* Slips: the first withdrawal releases; a withdrawal does not leave the set.
AnyWithdrawalReleases(m) ==
  /\ ~m.engaged /\ m.target = NoTarget
  /\ engagedSources' = engagedSources \ {m.source}
  /\ IF m.source \in engagedSources THEN Goto("estop", "clearing")
     ELSE UNCHANGED at
  /\ newest' = newest \ {m.source}

NeverErases(m) ==
  /\ ~m.engaged /\ m.target = NoTarget
  /\ IF engagedSources = {} THEN Goto("estop", "clearing") ELSE UNCHANGED at
  /\ newest' = newest \ {m.source}
  /\ UNCHANGED engagedSources

\* A plain NOT_ENGAGED: only the last engaged source's one releases.
TakeWithdrawal(m) ==
  /\ ~m.engaged /\ m.target = NoTarget
  /\ engagedSources' = engagedSources \ {m.source}
  /\ IF engagedSources = {m.source} THEN Goto("estop", "clearing")
     ELSE UNCHANGED at
  /\ newest' = newest \ {m.source}

TakeUp(s) ==
  /\ at["estop"] = "idle"
  /\ wire # <<>> /\ Head(wire).source = s
  /\ wire' = Tail(wire)
  /\ \/ TakeEngage(Head(wire))
     \/ TakeClearAttempt(Head(wire))
     \/ TakeWithdrawal(Head(wire))
  /\ UNCHANGED <<arbiterVars, retained, statusVars, serviceVars, worldVars>>

\* arb_.estop(): the latch and the first halt come before its mutex ...
EstopLatch ==
  /\ at["estop"] = "latching"
  /\ estopped' = TRUE
  /\ Goto("estop", "dropping")
  /\ UNCHANGED <<owner, generation, retained, engagedSources, statusVars,
                 serviceVars, worldVars, wire, newest>>

\* ... and the ownership ends under it.
EstopDropOwner ==
  /\ at["estop"] = "dropping"
  /\ owner' = NoToken
  /\ Goto("estop", "forgetting")
  /\ UNCHANGED <<estopped, generation, retained, engagedSources, statusVars,
                 serviceVars, worldVars, wire, newest>>

\* arb_.estop_clear(): the arm is free and has no owner.
EstopClear ==
  /\ at["estop"] = "clearing"
  /\ estopped' = FALSE
  /\ owner' = NoToken
  /\ Goto("estop", "reading")
  /\ UNCHANGED <<generation, retained, engagedSources, statusVars, serviceVars,
                 worldVars, wire, newest>>

-----------------------------------------------------------------------------
(* The e-stop sources, publishing best-effort on /estop.                   *)

\* A full queue loses its oldest sample.
Queued(m) == Append(IF Len(wire) < Depth THEN wire ELSE Tail(wire), m)

ChangeMind(s) ==
  /\ flips < MaxFlips
  /\ flips' = flips + 1
  /\ asks' = IF s \in asks THEN asks \ {s} ELSE asks \cup {s}
  /\ UNCHANGED <<arbiterVars, retained, engagedSources, statusVars, at,
                 serviceVars, wire, newest>>

\* Every source resends its state each period.
Send(s) ==
  /\ wire' = Queued([source |-> s, engaged |-> s \in asks, target |-> NoTarget])
  /\ UNCHANGED <<arbiterVars, retained, engagedSources, statusVars, at,
                 serviceVars, worldVars, newest>>

\* The MIB sends these while it is itself still latched.
SendClearAttempt(s, target) ==
  /\ wire' = Queued([source |-> s, engaged |-> FALSE, target |-> target])
  /\ UNCHANGED <<arbiterVars, retained, engagedSources, statusVars, at,
                 serviceVars, worldVars, newest>>

-----------------------------------------------------------------------------
Publish(th) == ReadStatus(th) \/ StoreStatus(th) \/ PublishStatus(th)

ServiceStep == StoreRetained \/ Revoke \/ ForgetToken("service") \/ Publish("service")

EstopStep ==
  EstopLatch \/ EstopDropOwner \/ EstopClear \/ ForgetToken("estop") \/ Publish("estop")

Next ==
  \/ \E t \in Tokens : Acquire(t) \/ Release(t)
  \/ RevokeControl \/ StatusTimer
  \/ ServiceStep
  \/ \E s \in Sources : TakeUp(s)
  \/ EstopStep
  \/ \E s \in Sources : ChangeMind(s) \/ Send(s)
  \/ \E s, target \in Sources : SendClearAttempt(s, target)

Spec == Init /\ [][Next]_vars

\* The executor keeps running both groups and the 10 Hz timer.  A source
\* resends every period, and samples of each source keep getting through.
Fairness ==
  /\ WF_vars(ServiceStep) /\ WF_vars(EstopStep)
  /\ \A s \in Sources :
       /\ WF_vars(Send(s))
       /\ SF_vars(TakeUp(s) /\ (Head(wire).engaged \/ Head(wire).target = NoTarget))

FairSpec == Spec /\ Fairness
-----------------------------------------------------------------------------
(* Properties.                                                             *)

\* Between two samples the arm is stopped exactly while some source's newest
\* plain sample engages, and a stopped arm has no owner: clear attempts, the
\* heartbeats of others and repeats change neither.
StoppedExactlyWhileAsked ==
  at["estop"] = "idle" => /\ estopped <=> newest # {}
                          /\ estopped => owner = NoToken

\* An owner is never locked out of /release_control: whenever the service
\* thread is between two calls, the retained token is the owner's (unless an
\* e-stop is just taking the ownership away).  A late forget_token() of the
\* e-stop thread therefore never hits the token of a newer grant.
OwnerCanRelease ==
  at["service"] = "idle" /\ owner # NoToken /\ ~estopped => retained = owner

\* A release that passed the check on the retained token cannot end somebody
\* else's ownership, although the check and revoke() are two steps.
ReleaseSparesOthers ==
  at["service"] = "revoking" /\ request # NoToken => owner \in {NoToken, request}

\* A source that goes on asking stops the arm for good, through lost samples,
\* other sources' heartbeats and clear attempts; when nobody asks any more the
\* arm is released for good.
ArmFollowsAsking ==
  /\ \A s \in Sources : <>[](s \in asks) => <>[]estopped
  /\ <>[](asks = {}) => <>[]~estopped

\* arbitration_server.cpp:36-37: a client that starts late "must learn
\* owner/generation/estopped immediately rather than waiting for the next
\* change".  With both threads idle and the memo equal to the Arbiter's state,
\* only another change would make anyone publish.
LatchedTopicCurrent ==
  (\A th \in Threads : at[th] = "idle") /\ memo = Status => topic = Status
-----------------------------------------------------------------------------
(* The inductive invariant behind the safety properties.                   *)

\* The latch at each point of on_estop; an ownership outlives it only until
\* estop() gets its mutex.
LatchInv ==
  /\ newest = engagedSources
  /\ at["estop"] \in {"idle", "reading", "comparing", "publishing"} =>
       (estopped <=> newest # {})
  /\ at["estop"] = "latching" => newest # {}
  /\ at["estop"] \in {"dropping", "forgetting"} => estopped /\ newest # {}
  /\ at["estop"] = "clearing" => estopped /\ newest = {}
  /\ estopped /\ at["estop"] # "dropping" => owner = NoToken

\* What the retained token, or the grant about to be retained, says of the
\* owner.
RetainedInv ==
  /\ owner # NoToken =>
       IF at["service"] = "storing" THEN granted => request = owner
                                    ELSE retained \in {NoToken, owner}
  /\ owner # NoToken /\ ~estopped =>
       IF at["service"] = "storing" THEN granted ELSE retained # NoToken
  /\ at["service"] = "forgetting" => owner = NoToken

ServicePoints == Points \ {"latching", "dropping", "clearing"}

EstopPoints == Points \ {"storing", "revoking"}

IInv ==
  /\ TypeOK
  /\ at["service"] \in ServicePoints /\ at["estop"] \in EstopPoints
  /\ LatchInv
  /\ RetainedInv
  /\ ReleaseSparesOthers
=============================================================================
