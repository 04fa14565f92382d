----------------------------- MODULE Validation -----------------------------
(***************************************************************************)
(* Rollout spec validation (src/pkg/apis/rollouts/validation/validation.go) *)
(* as the controller runs it before any state change: ValidateRollout      *)
(* returns the list of invalid fields, and an empty list admits the spec.  *)
(*                                                                         *)
(* A spec is a record of the fields the rules read.  Unset pointers are    *)
(* Nil; an IntOrString is [type |-> "Int" or "String", val |-> n], the     *)
(* String form standing for the string "n%" (so "-5%" for n = -5).  The    *)
(* label selector is abstracted to its kind ("nil", "empty", "valid" or    *)
(* "malformed") and the pod template to whether its labels match the       *)
(* selector, which is what the library calls of lines 73, 79 and 93 decide *)
(* on.  Error messages are left out: the result is the set of fields that  *)
(* got an error.                                                           *)
(*                                                                         *)
(* The defaults of utils/defaults are not in this repository: maxSurge and *)
(* maxUnavailable default to intstr.FromInt(DefaultMaxSurge) and           *)
(* FromInt(DefaultMaxUnavailable) (defaults_test.go:52 and 69), 25 by spec *)
(* section 3; the revision history limit and the progress deadline to the *)
(* constants below.                                                        *)
(***************************************************************************)
EXTENDS Integers, FiniteSets

CONSTANTS
    Rollouts,                        \* the specs the controller may be given
    Nil,                             \* an unset pointer
    Pending,                         \* not validated yet
    Panic,                           \* ValidateRollout panicked
    DefaultRevisionHistoryLimit,     \* defaults.GetRevisionHistoryLimitOrDefault
    DefaultProgressDeadlineSeconds   \* defaults.GetProgressDeadlineSecondsOrDefault

VARIABLES
    rollout,   \* the spec being validated
    verdict    \* Pending, Panic, or the set of invalid fields

vars == <<rollout, verdict>>

TypeOK ==
    /\ rollout \in Rollouts
    /\ verdict \in {Pending, Panic} \cup SUBSET {"replicas", "selector",
         "template", "minReadySeconds", "revisionHistoryLimit",
         "progressDeadlineSeconds", "strategy", "previewService",
         "scaleDownDelayRevisionLimit", "antiAffinity", "maxSurge", "steps"}

-----------------------------------------------------------------------------
(* The defaults, modelled from the spec.                                   *)

FromInt(n) == [type |-> "Int", val |-> n]
GetMaxSurgeOrDefault(c) == IF c.maxSurge = Nil THEN FromInt(25) ELSE c.maxSurge
GetMaxUnavailableOrDefault(c) ==
    IF c.maxUnavailable = Nil THEN FromInt(25) ELSE c.maxUnavailable
GetRevisionHistoryLimitOrDefault(r) ==
    IF r.revisionHistoryLimit = Nil THEN DefaultRevisionHistoryLimit
                                    ELSE r.revisionHistoryLimit
GetProgressDeadlineSecondsOrDefault(r) ==
    IF r.progressDeadlineSeconds = Nil THEN DefaultProgressDeadlineSeconds
                                       ELSE r.progressDeadlineSeconds
\* RolloutPause.DurationSeconds: an unset duration counts as 0.
DurationSeconds(p) == IF p.duration = Nil THEN 0 ELSE p.duration

-----------------------------------------------------------------------------
(* validation.go.                                                          *)

\* The field, if the condition holds: one "allErrs = append(...)".
Check(cond, field) == IF cond THEN {field} ELSE {}

\* IsValidPercent accepts "[0-9]+%": the percentage strings with n >= 0.
getPercentValue(v) ==
    IF v.type = "String" /\ v.val >= 0 THEN [value |-> v.val, isPercent |-> TRUE]
                                      ELSE [value |-> 0, isPercent |-> FALSE]

\* IntOrString.IntValue: strconv.Atoi of "n%" fails, and its error is
\* dropped, so a string gives 0.
IntValue(v) == IF v.type = "String" THEN 0 ELSE v.val

getIntOrPercentValue(v) ==
    IF getPercentValue(v).isPercent THEN getPercentValue(v).value ELSE IntValue(v)

invalidMaxSurgeMaxUnavailable(c) ==
    /\ getIntOrPercentValue(GetMaxSurgeOrDefault(c)) = 0
    /\ getIntOrPercentValue(GetMaxUnavailableOrDefault(c)) = 0

\* More than one of setWeight, pause, experiment and analysis is set.
hasMultipleStepsType(s) ==
    Cardinality({k \in {"setWeight", "pause"} : s[k] # Nil}
                \cup {k \in {"experiment", "analysis"} : s[k]}) > 1

\* Neither or both of the preferred and the required rule are set.
invalidAntiAffinity(a) == a.preferred = a.required

AntiAffinityErrs(a) == Check(a # Nil /\ invalidAntiAffinity(a), "antiAffinity")

ValidateRolloutStrategyBlueGreen(r) ==
    LET bg == r.blueGreen
    IN  Check(bg.activeService = bg.previewService, "previewService")
        \cup Check(bg.scaleDownDelayRevisionLimit # Nil
                   /\ GetRevisionHistoryLimitOrDefault(r) < bg.scaleDownDelayRevisionLimit,
                   "scaleDownDelayRevisionLimit")
        \cup AntiAffinityErrs(bg.antiAffinity)

StepErrs(s) ==
    Check(hasMultipleStepsType(s), "steps")
    \cup Check(s.setWeight = Nil /\ s.pause = Nil /\ ~s.experiment /\ ~s.analysis, "steps")
    \cup Check(s.setWeight # Nil /\ (s.setWeight < 0 \/ s.setWeight > 100), "steps")
    \cup Check(s.pause # Nil /\ DurationSeconds(s.pause) < 0, "steps")

ValidateRolloutStrategyCanary(r) ==
    LET c == r.canary
    IN  Check(invalidMaxSurgeMaxUnavailable(c), "maxSurge")
        \cup (UNION {StepErrs(c.steps[i]) : i \in DOMAIN c.steps})
        \cup AntiAffinityErrs(c.antiAffinity)

\* An if-else chain: the first condition that holds decides.
ValidateRolloutStrategy(r) ==
    IF r.blueGreen = Nil /\ r.canary = Nil THEN {"strategy"}
    ELSE IF r.blueGreen # Nil /\ r.canary # Nil THEN {"strategy"}
    ELSE IF r.blueGreen # Nil THEN ValidateRolloutStrategyBlueGreen(r)
    ELSE ValidateRolloutStrategyCanary(r)

\* metav1.LabelSelectorAsSelector fails only on a malformed selector; a nil
\* one converts to the selector that matches nothing.
SelectorConverts(r) == r.selector # "malformed"

\* Line 93 dereferences spec.Replicas whenever the selector converted.
Panics(r) == SelectorConverts(r) /\ r.replicas = Nil

\* ValidatePodTemplateSpecForReplicaSet: a selector other than the empty
\* one must match the template labels; nil matches nothing.
TemplateErrs(r) ==
    Check(SelectorConverts(r) /\ r.selector # "empty"
          /\ (r.selector = "nil" \/ ~r.templateMatches), "template")

ValidateRolloutSpec(r) ==
    LET pds == GetProgressDeadlineSecondsOrDefault(r)
    IN  Check(r.replicas = Nil \/ r.replicas < 0, "replicas")
        \cup Check(r.selector # "valid", "selector")
        \cup TemplateErrs(r)
        \cup Check(r.minReadySeconds < 0, "minReadySeconds")
        \cup Check(r.revisionHistoryLimit # Nil /\ r.revisionHistoryLimit < 0,
                   "revisionHistoryLimit")
        \cup Check(pds < 0 \/ pds <= r.minReadySeconds, "progressDeadlineSeconds")
        \cup ValidateRolloutStrategy(r)

\* ValidateRollout: the whole call, which panics or returns the errors.
Validate ==
    /\ verdict = Pending
    /\ verdict' = IF Panics(rollout) THEN Panic ELSE ValidateRolloutSpec(rollout)
    /\ UNCHANGED rollout

Init ==
    /\ rollout \in Rollouts
    /\ verdict = Pending

Next == Validate

Spec == Init /\ [][Next]_vars

-----------------------------------------------------------------------------
(* The rules of spec section 6.                                            *)

\* Section 6, with two rules the code adds and the spec does not list: a
\* revision history limit is non-negative, and an anti-affinity sets
\* exactly one of its two rules.
StepOK(s) ==
    /\ Cardinality({k \in {"setWeight", "pause"} : s[k] # Nil}
                   \cup {k \in {"experiment", "analysis"} : s[k]}) = 1
    /\ s.setWeight # Nil => s.setWeight \in 0..100
    /\ s.pause # Nil => DurationSeconds(s.pause) >= 0
AntiAffinityOK(a) == a # Nil => a.preferred # a.required
SpecValid(r) ==
    /\ r.replicas # Nil /\ r.replicas >= 0
    /\ r.minReadySeconds >= 0
    /\ r.selector = "valid" /\ r.templateMatches
    /\ GetProgressDeadlineSecondsOrDefault(r) > r.minReadySeconds
    /\ r.revisionHistoryLimit # Nil => r.revisionHistoryLimit >= 0
    /\ (r.blueGreen = Nil) # (r.canary = Nil)
    /\ r.blueGreen # Nil =>
         /\ r.blueGreen.activeService # r.blueGreen.previewService
         /\ r.blueGreen.scaleDownDelayRevisionLimit # Nil =>
              r.blueGreen.scaleDownDelayRevisionLimit
                <= GetRevisionHistoryLimitOrDefault(r)
         /\ AntiAffinityOK(r.blueGreen.antiAffinity)
    /\ r.canary # Nil =>
         /\ ~(GetMaxSurgeOrDefault(r.canary).val = 0
              /\ GetMaxUnavailableOrDefault(r.canary).val = 0)
         /\ \A i \in DOMAIN r.canary.steps : StepOK(r.canary.steps[i])
         /\ AntiAffinityOK(r.canary.antiAffinity)

\* A negative percentage such as "-5%": the spec gives it no meaning, and
\* validation.go reads it as 0.  A canary whose maxSurge and maxUnavailable
\* are each 0 or negative, one of them a negative percentage, satisfies the
\* rule of section 6 read literally and is still rejected.
NegativePercent(v) == v.type = "String" /\ v.val < 0
ReadsAsZero(v) == v.val = 0 \/ NegativePercent(v)
NegativePercentAsZero(r) ==
    /\ r.canary # Nil
    /\ ReadsAsZero(GetMaxSurgeOrDefault(r.canary))
    /\ ReadsAsZero(GetMaxUnavailableOrDefault(r.canary))
    /\ NegativePercent(GetMaxSurgeOrDefault(r.canary))
       \/ NegativePercent(GetMaxUnavailableOrDefault(r.canary))

\* Spec sections 6 and 7: validation admits exactly the specs that satisfy
\* the rules, and reports an invalid one as InvalidSpec rather than
\* crashing the controller.
ValidationMatchesSpec ==
    verdict # Pending =>
        /\ verdict # Panic
        /\ (verdict = {}) <=> SpecValid(rollout)

=============================================================================
