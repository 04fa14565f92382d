-------------------------- MODULE ValidationProofs --------------------------
(***************************************************************************)
(* ValidateRolloutSpec against the rules of spec section 6, for every      *)
(* spec and not only the specs of MCValidation.  Validation departs from   *)
(* the rules in exactly two ways: the panic of validation.go:93 (Panics,   *)
(* finding validation_nil_replicas), and a negative percentage, which      *)
(* getIntOrPercentValue reads as 0 (NegativePercentAsZero).  On every      *)
(* other spec it returns no error exactly for the specs SpecValid admits.  *)
(*                                                                         *)
(* RolloutSpecs is the type of the spec records Validation.tla reads: any  *)
(* integers where the Go fields are integers, any number of canary steps.  *)
(* Validation.tla declares no ASSUME (no passing run extends it); what the *)
(* proofs need of the constants is the hypothesis ValidationConstants.    *)
(***************************************************************************)
EXTENDS Validation, Sequences, FiniteSetTheorems, TLAPS

IntOrNil == Int \cup {Nil}
IntOrStrings == [type : {"Int", "String"}, val : Int]
AntiAffinities == [preferred : BOOLEAN, required : BOOLEAN]
Pauses == [duration : IntOrNil]
Steps ==
    [setWeight : IntOrNil, pause : Pauses \cup {Nil},
     experiment : BOOLEAN, analysis : BOOLEAN]
Canaries ==
    [maxSurge : IntOrStrings \cup {Nil}, maxUnavailable : IntOrStrings \cup {Nil},
     steps : Seq(Steps), antiAffinity : AntiAffinities \cup {Nil}]
BlueGreens ==
    [activeService : STRING, previewService : STRING,
     scaleDownDelayRevisionLimit : IntOrNil,
     antiAffinity : AntiAffinities \cup {Nil}]
RolloutSpecs ==
    [replicas : IntOrNil, selector : {"nil", "empty", "valid", "malformed"},
     templateMatches : BOOLEAN, minReadySeconds : Int,
     progressDeadlineSeconds : IntOrNil, revisionHistoryLimit : IntOrNil,
     blueGreen : BlueGreens \cup {Nil}, canary : Canaries \cup {Nil}]

\* Nil, an unset pointer, is no value of a set field; the defaults are
\* integers.
ValidationConstants ==
    /\ Nil \notin Int
    /\ Nil \notin Pauses \cup AntiAffinities \cup IntOrStrings
    /\ Nil \notin BlueGreens \cup Canaries
    /\ DefaultRevisionHistoryLimit \in Int
    /\ DefaultProgressDeadlineSeconds \in Int

\* One "append" adds nothing exactly when its condition is false.
LEMMA CheckEmpty ==
    ASSUME NEW cond \in BOOLEAN, NEW f
    PROVE  Check(cond, f) = {} <=> ~cond
BY DEF Check

\* Errors from three checks: none exactly when none from each.
LEMMA UnionEmpty ==
    ASSUME NEW A, NEW B, NEW C
    PROVE  A \cup B \cup C = {} <=> A = {} /\ B = {} /\ C = {}
OBVIOUS

\* getIntOrPercentValue of a set value is 0 exactly when the value is 0 or
\* a negative percentage.
LEMMA IntOrPercentZero ==
    ASSUME NEW v \in IntOrStrings
    PROVE  getIntOrPercentValue(v) = 0 <=> ReadsAsZero(v)
BY DEF getIntOrPercentValue, getPercentValue, IntValue, ReadsAsZero,
       NegativePercent, IntOrStrings

\* The defaults are set values.
LEMMA DefaultsAreValues ==
    ASSUME ValidationConstants, NEW c \in Canaries
    PROVE  /\ GetMaxSurgeOrDefault(c) \in IntOrStrings
           /\ GetMaxUnavailableOrDefault(c) \in IntOrStrings
BY DEF GetMaxSurgeOrDefault, GetMaxUnavailableOrDefault, FromInt, Canaries,
       IntOrStrings

-----------------------------------------------------------------------------
(* A canary step: the four checks of validation.go on one step reject it   *)
(* exactly when StepOK does not hold.                                      *)

\* The kinds a step sets.
StepKinds(s) ==
    {k \in {"setWeight", "pause"} : s[k] # Nil}
    \cup {k \in {"experiment", "analysis"} : s[k]}

LEMMA StepKindsFinite ==
    ASSUME NEW s \in Steps
    PROVE  /\ IsFiniteSet(StepKinds(s))
           /\ Cardinality(StepKinds(s)) \in Nat
           /\ Cardinality(StepKinds(s)) = 0 <=> StepKinds(s) = {}
<1>1. IsFiniteSet({"setWeight", "pause", "experiment", "analysis"})
  <2>1. IsFiniteSet({"setWeight"})
    BY FS_Singleton
  <2>2. IsFiniteSet({"setWeight"} \cup {"pause"})
    BY <2>1, FS_AddElement
  <2>3. IsFiniteSet({"setWeight", "pause"} \cup {"experiment"})
    BY <2>2, FS_AddElement
  <2>4. IsFiniteSet({"setWeight", "pause", "experiment"} \cup {"analysis"})
    BY <2>3, FS_AddElement
  <2>5. QED
    BY <2>4
<1>2. StepKinds(s) \subseteq {"setWeight", "pause", "experiment", "analysis"}
  BY DEF StepKinds
<1>3. IsFiniteSet(StepKinds(s))
  BY <1>1, <1>2, FS_Subset
<1>4. QED
  BY <1>3, FS_CardinalityType, FS_EmptySet

LEMMA StepErrsEmpty ==
    ASSUME ValidationConstants, NEW s \in Steps
    PROVE  StepErrs(s) = {} <=> StepOK(s)
<1>. DEFINE n == Cardinality(StepKinds(s))
<1>1. n \in Nat /\ (n = 0 <=> StepKinds(s) = {})
  BY StepKindsFinite
<1>2. hasMultipleStepsType(s) <=> n > 1
  BY DEF hasMultipleStepsType, StepKinds
<1>3. (s.setWeight = Nil /\ s.pause = Nil /\ ~s.experiment /\ ~s.analysis)
        <=> StepKinds(s) = {}
  BY DEF StepKinds, Steps
<1>4. (s.setWeight # Nil /\ (s.setWeight < 0 \/ s.setWeight > 100))
        <=> ~(s.setWeight # Nil => s.setWeight \in 0..100)
  BY DEF Steps, IntOrNil, ValidationConstants
<1>5. (s.pause # Nil /\ DurationSeconds(s.pause) < 0)
        <=> ~(s.pause # Nil => DurationSeconds(s.pause) >= 0)
  BY DEF Steps, Pauses, IntOrNil, DurationSeconds, ValidationConstants
<1>6. StepOK(s) <=> /\ n = 1
                    /\ s.setWeight # Nil => s.setWeight \in 0..100
                    /\ s.pause # Nil => DurationSeconds(s.pause) >= 0
  BY DEF StepOK, StepKinds
<1>7. QED
  BY <1>1, <1>2, <1>3, <1>4, <1>5, <1>6 DEF StepErrs, Check

-----------------------------------------------------------------------------
(* The strategies.                                                         *)

LEMMA AntiAffinityErrsEmpty ==
    ASSUME ValidationConstants, NEW a \in AntiAffinities \cup {Nil}
    PROVE  AntiAffinityErrs(a) = {} <=> AntiAffinityOK(a)
BY DEF AntiAffinityErrs, AntiAffinityOK, invalidAntiAffinity, Check,
       AntiAffinities, ValidationConstants

\* ValidateRolloutStrategyBlueGreen: the services differ, the delay's
\* revision limit stays within the history limit, the anti-affinity is
\* well formed.
LEMMA BlueGreenErrsEmpty ==
    ASSUME ValidationConstants, NEW r \in RolloutSpecs, r.blueGreen # Nil
    PROVE  ValidateRolloutStrategyBlueGreen(r) = {}
             <=> /\ r.blueGreen.activeService # r.blueGreen.previewService
                 /\ r.blueGreen.scaleDownDelayRevisionLimit # Nil =>
                      r.blueGreen.scaleDownDelayRevisionLimit
                        <= GetRevisionHistoryLimitOrDefault(r)
                 /\ AntiAffinityOK(r.blueGreen.antiAffinity)
<1>. DEFINE bg == r.blueGreen
<1>1. bg \in BlueGreens
  BY DEF RolloutSpecs
<1>2. GetRevisionHistoryLimitOrDefault(r) \in Int
  BY DEF GetRevisionHistoryLimitOrDefault, RolloutSpecs, IntOrNil,
         ValidationConstants
<1>3. bg.scaleDownDelayRevisionLimit \in IntOrNil
  BY <1>1 DEF BlueGreens
<1>4. AntiAffinityErrs(bg.antiAffinity) = {} <=> AntiAffinityOK(bg.antiAffinity)
  BY <1>1, AntiAffinityErrsEmpty DEF BlueGreens
<1>5. QED
  BY <1>2, <1>3, <1>4 DEF ValidateRolloutStrategyBlueGreen, Check, IntOrNil,
     ValidationConstants

\* ValidateRolloutStrategyCanary: maxSurge and maxUnavailable are not both
\* zero, every step is well formed, the anti-affinity is well formed.
LEMMA CanaryErrsEmpty ==
    ASSUME ValidationConstants, NEW r \in RolloutSpecs, r.canary # Nil
    PROVE  ValidateRolloutStrategyCanary(r) = {}
             <=> /\ ~(ReadsAsZero(GetMaxSurgeOrDefault(r.canary))
                      /\ ReadsAsZero(GetMaxUnavailableOrDefault(r.canary)))
                 /\ \A i \in DOMAIN r.canary.steps : StepOK(r.canary.steps[i])
                 /\ AntiAffinityOK(r.canary.antiAffinity)
<1>. DEFINE cn == r.canary
<1>1. cn \in Canaries
  BY DEF RolloutSpecs
<1>2. \A i \in DOMAIN cn.steps : cn.steps[i] \in Steps
  BY <1>1 DEF Canaries
<1>. DEFINE X == Check(invalidMaxSurgeMaxUnavailable(cn), "maxSurge")
            Y == (UNION {StepErrs(cn.steps[i]) : i \in DOMAIN cn.steps})
            Z == AntiAffinityErrs(cn.antiAffinity)
<1>3. Y = {} <=> \A i \in DOMAIN cn.steps : StepOK(cn.steps[i])
  <2>1. \A i \in DOMAIN cn.steps : StepErrs(cn.steps[i]) = {} <=> StepOK(cn.steps[i])
    BY <1>2, StepErrsEmpty
  <2>2. QED
    BY <2>1
<1>4. Z = {} <=> AntiAffinityOK(cn.antiAffinity)
  BY <1>1, AntiAffinityErrsEmpty DEF Canaries
<1>5. X = {} <=> ~(ReadsAsZero(GetMaxSurgeOrDefault(cn))
                   /\ ReadsAsZero(GetMaxUnavailableOrDefault(cn)))
  BY <1>1, DefaultsAreValues, IntOrPercentZero
  DEF invalidMaxSurgeMaxUnavailable, Check
<1>6. ValidateRolloutStrategyCanary(r) = X \cup Y \cup Z
  BY DEF ValidateRolloutStrategyCanary
<1>7. X \cup Y \cup Z = {} <=> X = {} /\ Y = {} /\ Z = {}
  BY UnionEmpty
<1>. HIDE DEF X, Y, Z
<1>8. QED
  BY <1>3, <1>4, <1>5, <1>6, <1>7

\* ValidateRolloutStrategy: exactly one strategy, and that one well formed.
LEMMA StrategyErrsEmpty ==
    ASSUME ValidationConstants, NEW r \in RolloutSpecs
    PROVE  ValidateRolloutStrategy(r) = {}
             <=> /\ (r.blueGreen = Nil) # (r.canary = Nil)
                 /\ r.blueGreen # Nil =>
                      /\ r.blueGreen.activeService # r.blueGreen.previewService
                      /\ r.blueGreen.scaleDownDelayRevisionLimit # Nil =>
                           r.blueGreen.scaleDownDelayRevisionLimit
                             <= GetRevisionHistoryLimitOrDefault(r)
                      /\ AntiAffinityOK(r.blueGreen.antiAffinity)
                 /\ r.canary # Nil =>
                      /\ ~(ReadsAsZero(GetMaxSurgeOrDefault(r.canary))
                           /\ ReadsAsZero(GetMaxUnavailableOrDefault(r.canary)))
                      /\ \A i \in DOMAIN r.canary.steps : StepOK(r.canary.steps[i])
                      /\ AntiAffinityOK(r.canary.antiAffinity)
<1>1. CASE r.blueGreen = Nil /\ r.canary = Nil
  BY <1>1 DEF ValidateRolloutStrategy
<1>2. CASE r.blueGreen # Nil /\ r.canary # Nil
  BY <1>2 DEF ValidateRolloutStrategy
<1>3. CASE r.blueGreen # Nil /\ r.canary = Nil
  <2>1. ValidateRolloutStrategy(r) = ValidateRolloutStrategyBlueGreen(r)
    BY <1>3 DEF ValidateRolloutStrategy
  <2>2. QED
    BY <1>3, <2>1, BlueGreenErrsEmpty
<1>4. CASE r.blueGreen = Nil /\ r.canary # Nil
  <2>1. ValidateRolloutStrategy(r) = ValidateRolloutStrategyCanary(r)
    BY <1>4 DEF ValidateRolloutStrategy
  <2>2. QED
    BY <1>4, <2>1, CanaryErrsEmpty
<1>5. QED
  BY <1>1, <1>2, <1>3, <1>4

-----------------------------------------------------------------------------
(* The whole spec.                                                         *)

\* ValidateRolloutSpec, for every spec of the type: no error is reported
\* exactly when the spec satisfies the rules of spec section 6 (with the two
\* rules the code adds) and has no negative percentage that
\* getIntOrPercentValue reads as 0 (validation.go:194-197 and 207).
\* Together with the panic of line 93 this is all ValidateRollout does.
THEOREM ValidateRolloutSpecMatches ==
    ASSUME ValidationConstants, NEW r \in RolloutSpecs
    PROVE  ValidateRolloutSpec(r) = {}
             <=> SpecValid(r) /\ ~NegativePercentAsZero(r)
<1>. DEFINE pds == GetProgressDeadlineSecondsOrDefault(r)
            P1 == Check(r.replicas = Nil \/ r.replicas < 0, "replicas")
            P2 == Check(r.selector # "valid", "selector")
            P3 == TemplateErrs(r)
            P4 == Check(r.minReadySeconds < 0, "minReadySeconds")
            P5 == Check(r.revisionHistoryLimit # Nil /\ r.revisionHistoryLimit < 0,
                        "revisionHistoryLimit")
            P6 == Check(pds < 0 \/ pds <= r.minReadySeconds, "progressDeadlineSeconds")
            P7 == ValidateRolloutStrategy(r)
<1>1. ValidateRolloutSpec(r) = P1 \cup P2 \cup P3 \cup P4 \cup P5 \cup P6 \cup P7
  BY DEF ValidateRolloutSpec
<1>2. pds \in Int
  BY DEF GetProgressDeadlineSecondsOrDefault, RolloutSpecs, IntOrNil,
         ValidationConstants
<1>3. P1 = {} <=> r.replicas # Nil /\ r.replicas >= 0
  BY DEF Check, RolloutSpecs, IntOrNil, ValidationConstants
<1>4. P2 = {} /\ P3 = {} <=> r.selector = "valid" /\ r.templateMatches
  BY DEF Check, TemplateErrs, SelectorConverts, RolloutSpecs
<1>5. P4 = {} /\ P6 = {} <=> r.minReadySeconds >= 0 /\ pds > r.minReadySeconds
  BY <1>2 DEF Check, RolloutSpecs
<1>6. P5 = {} <=> (r.revisionHistoryLimit # Nil => r.revisionHistoryLimit >= 0)
  BY DEF Check, RolloutSpecs, IntOrNil, ValidationConstants
<1>. HIDE DEF pds, P1, P2, P3, P4, P5, P6, P7
<1>7. ValidateRolloutSpec(r) = {}
        <=> P1 = {} /\ P2 = {} /\ P3 = {} /\ P4 = {} /\ P5 = {} /\ P6 = {}
            /\ P7 = {}
  BY <1>1
<1>8. r.canary # Nil =>
        (~(ReadsAsZero(GetMaxSurgeOrDefault(r.canary))
           /\ ReadsAsZero(GetMaxUnavailableOrDefault(r.canary)))
         <=> /\ ~(GetMaxSurgeOrDefault(r.canary).val = 0
                  /\ GetMaxUnavailableOrDefault(r.canary).val = 0)
             /\ ~NegativePercentAsZero(r))
  BY DEF ReadsAsZero, NegativePercentAsZero
<1>9. r.canary = Nil => ~NegativePercentAsZero(r)
  BY DEF NegativePercentAsZero
<1>10. QED
  BY <1>3, <1>4, <1>5, <1>6, <1>7, <1>8, <1>9, StrategyErrsEmpty
  DEF SpecValid, pds, P7

-----------------------------------------------------------------------------
(* ValidateRollout as the controller runs it.                              *)

\* Spec sections 6 and 7 with the two departures of validation.go: the
\* verdict is a panic exactly for a spec without replicas whose selector
\* converts (line 93), and for every other spec validation admits exactly
\* the specs that satisfy the rules and have no negative percentage read
\* as 0 (lines 194-197 and 207).
ValidationDepartsOnlyAtPanicOrNegativePercent ==
    verdict # Pending =>
        IF Panics(rollout)
        THEN verdict = Panic
        ELSE (verdict = {}) <=> SpecValid(rollout) /\ ~NegativePercentAsZero(rollout)

VInv ==
    /\ rollout \in Rollouts
    /\ \/ verdict = Pending
       \/ verdict = IF Panics(rollout) THEN Panic
                                      ELSE ValidateRolloutSpec(rollout)

\* For every set of specs of the type, every verdict ValidateRollout
\* returns is the panic of line 93, the rejection of a negative percentage
\* read as 0, or the answer of spec section 6.
THEOREM ValidationAgreesButForPanicAndNegativePercent ==
    ASSUME ValidationConstants, Rollouts \subseteq RolloutSpecs
    PROVE  Spec => []ValidationDepartsOnlyAtPanicOrNegativePercent
<1>1. Init => VInv
  BY DEF Init, VInv
<1>2. VInv /\ [Next]_vars => VInv'
  BY DEF VInv, Next, Validate, vars
<1>3. VInv => ValidationDepartsOnlyAtPanicOrNegativePercent
  <2>. SUFFICES ASSUME VInv, verdict # Pending, ~Panics(rollout)
                PROVE  (verdict = {})
                         <=> SpecValid(rollout) /\ ~NegativePercentAsZero(rollout)
    BY DEF ValidationDepartsOnlyAtPanicOrNegativePercent, VInv
  <2>1. verdict = ValidateRolloutSpec(rollout) /\ rollout \in RolloutSpecs
    BY DEF VInv
  <2>2. QED
    BY <2>1, ValidateRolloutSpecMatches
<1>4. QED
  BY <1>1, <1>2, <1>3, PTL DEF Spec

=============================================================================
