--------------------------- MODULE SpeedScaleParam ---------------------------
(***************************************************************************)
(* SpeedScaleParam: the global_speed_scale parameter.                      *)
(*                                                                         *)
(* rclcpp serves one set at a time (a mutex), checks type and range, calls *)
(* on_set with every entry of the set and commits the set only when on_set *)
(* accepts it.  on_set applies each entry to the driver as it comes, so a  *)
(* refusal of a later entry finds the earlier ones applied.                *)
(*                                                                         *)
(* Left out: sets rclcpp refuses before on_set, which reach nobody, and    *)
(* entries of other parameters, which on_set skips.                        *)
(***************************************************************************)
EXTENDS Integers, Sequences

CONSTANTS
  Scales,   \* values in the descriptor's range
  Silly,    \* NaN: passes rclcpp's range check, refused by the core
  MaxSet    \* bound: entries for this parameter in one atomic set

ASSUME SpeedAssumption == Silly \notin Scales /\ MaxSet \in Nat

VARIABLES
  parameter,  \* what rclcpp has committed
  value,      \* value_, what the diagnostics show
  scale,      \* core: the scale the arm moves at
  entries,    \* the entries of the set in progress not looked at yet
  setAt,      \* where on_set is
  wants,      \* the value the set would commit
  applied,    \* history: the set in progress has had an entry applied
  partial     \* history: since the last commit a set was refused behind an
              \* entry it had applied

historyVars == <<applied, partial>>
speedVars == <<parameter, value, scale, entries, setAt, wants, historyVars>>

Sets == UNION {[1..n -> Scales \cup {Silly}] : n \in 1..MaxSet}

\* The constructor: the startup value is applied before on_set is registered.
SpeedInit ==
  /\ parameter \in Scales
  /\ value = parameter /\ scale = parameter /\ wants = parameter
  /\ entries = <<>> /\ setAt = "idle"
  /\ applied = FALSE /\ partial = FALSE

-----------------------------------------------------------------------------
BeginSet(s) ==
  /\ setAt = "idle"
  /\ entries' = s /\ wants' = s[Len(s)]
  /\ setAt' = "asking"
  /\ applied' = FALSE
  /\ UNCHANGED <<parameter, value, scale, partial>>

\* on_set_speed_override accepts the entry: the arm moves at it from here on.
Apply ==
  /\ setAt = "asking" /\ entries # <<>>
  /\ Head(entries) # Silly
  /\ scale' = Head(entries)
  /\ setAt' = "storing"
  /\ applied' = TRUE
  /\ UNCHANGED <<parameter, value, entries, wants, partial>>

Store ==
  /\ setAt = "storing"
  /\ value' = Head(entries)
  /\ entries' = Tail(entries)
  /\ setAt' = "asking"
  /\ UNCHANGED <<parameter, scale, wants, historyVars>>

\* Slip: a refused entry is skipped instead of failing the set.
SkipsRefused ==
  /\ setAt = "asking" /\ entries # <<>>
  /\ Head(entries) = Silly
  /\ entries' = Tail(entries)
  /\ UNCHANGED <<parameter, value, scale, setAt, wants, historyVars>>

\* The core refuses the entry: on_set returns, and nothing is committed.  What
\* it has applied of the set stays applied.
Refuse ==
  /\ setAt = "asking" /\ entries # <<>>
  /\ Head(entries) = Silly
  /\ partial' = (partial \/ applied)
  /\ entries' = <<>> /\ setAt' = "idle"
  /\ UNCHANGED <<parameter, value, scale, wants, applied>>

\* Every entry was accepted: rclcpp commits the set.
Commit ==
  /\ setAt = "asking" /\ entries = <<>>
  /\ parameter' = wants
  /\ partial' = FALSE /\ setAt' = "idle"
  /\ UNCHANGED <<value, scale, entries, wants, applied>>

SpeedStep ==
  \/ \E s \in Sets : BeginSet(s)
  \/ Apply \/ Store \/ Refuse \/ Commit

-----------------------------------------------------------------------------
(* Properties.                                                             *)

\* "The parameter IS the value in force": between two sets the diagnostics
\* show the scale the arm moves at, and so does the parameter, unless since its
\* last change a set was refused behind an entry of its own already applied.
\* The code breaks the header's sentence in that case, and until the next set
\* that is accepted.
ScaleInForce ==
  setAt = "idle" =>
    /\ value = scale
    /\ parameter \in Scales
    /\ ~partial => parameter = scale

\* What makes it inductive: the set ends with the value it would commit, and
\* until an entry of it is applied the scale is what it was.
SpeedInv ==
  /\ parameter \in Scales /\ scale \in Scales
  /\ entries \in Seq(Scales \cup {Silly})
  /\ setAt \in {"idle", "asking", "storing"}
  /\ applied \in BOOLEAN /\ partial \in BOOLEAN
  /\ setAt # "storing" => value = scale
  /\ setAt = "storing" => entries # <<>> /\ scale = Head(entries) /\ applied
  /\ setAt # "idle" /\ entries # <<>> => wants = entries[Len(entries)]
  /\ setAt # "idle" /\ entries = <<>> => wants = scale
  /\ ~partial /\ (setAt = "idle" \/ ~applied) => parameter = scale
  /\ ScaleInForce
=============================================================================
