--------------------------- MODULE DatadogProofs ---------------------------
(***************************************************************************)
(* What Run returns, for every set of point values: a Measurement, or a    *)
(* panic exactly for a 200 answer whose series or last point is null.      *)
(* This is finding datadog_panics for all values, not only the two of the *)
(* run, and it says that no other answer crashes the controller.           *)
(*                                                                         *)
(* Datadog.tla declares no ASSUME (no passing run extends it), so the      *)
(* facts the proofs need about the constants are the hypothesis            *)
(* DatadogConstants of each theorem.  MCDatadog satisfies it: the values   *)
(* and the markers are distinct model values.                              *)
(***************************************************************************)
EXTENDS Datadog, TLAPS

\* The point values are numbers, distinct from the body shapes, from the
\* empty value and from JSON null; a panic is no Measurement.
DatadogConstants ==
    /\ Values \cap {"badJSON", "noSeries", "emptySeries", "nullSeries",
                    "emptyPointlist", "nullPoint"} = {}
    /\ NoValue \notin Values
    /\ Null \notin Values
    /\ Panic \notin Measurements
    /\ MaxRuns \in Nat

\* EvaluateResult always decides one of the phases.
LEMMA EvaluateResultPhase ==
    ASSUME NEW out, NEW m
    PROVE  EvaluateResult(out, m) \in Phases
BY DEF EvaluateResult, Phases

\* The error path gives a Measurement.
LEMMA MarkIsMeasurement ==
    MarkMeasurementError \in Measurements
BY DEF MarkMeasurementError, Measurements, Phases

\* Run's result for metric m and answer r: a panic exactly when the interval
\* parses, httpClient.Do and ReadAll succeed, the status is 200 and the body
\* has a null series or a null last point (datadog.go:135 and 139); in
\* every other case a Measurement.
THEOREM RunPanicsExactly ==
    ASSUME DatadogConstants, NEW m \in Metrics, NEW r \in Responses
    PROVE  /\ RunResult(m, r) \in Measurements \cup {Panic}
           /\ RunResult(m, r) = Panic
                <=> /\ m.interval # "malformed"
                    /\ r.err = "none"
                    /\ r.status = 200
                    /\ r.body \in {"nullSeries", "nullPoint"}
<1>. MarkMeasurementError # Panic
  BY MarkIsMeasurement DEF DatadogConstants
<1>1. CASE m.interval = "malformed" \/ r.err # "none"
  BY <1>1, MarkIsMeasurement DEF RunResult
<1>2. CASE m.interval # "malformed" /\ r.err = "none"
  <2>. r \in [err : {"none"}, status : {200, 401, 403, 500}, body : Bodies]
    BY <1>2 DEF Responses
  <2>. RunResult(m, r) = parseResponse(m, r)
    BY <1>2 DEF RunResult
  <2>1. CASE r.status # 200 \/ r.body = "badJSON"
    BY <2>1, MarkIsMeasurement DEF parseResponse
  <2>2. CASE r.status = 200 /\ r.body # "badJSON"
    <3>. r.body \in Bodies \ {"badJSON"}
      BY <2>2
    <3>1. CASE r.body \in {"noSeries", "emptySeries", "emptyPointlist"}
      <4>1. FindResults(r.body).err
        BY <3>1 DEF FindResults
      <4>2. parseResponse(m, r) = MarkMeasurementError
        BY <4>1 DEF parseResponse
      <4>3. QED
        BY <1>2, <2>2, <3>1, <4>2, MarkIsMeasurement
    <3>2. CASE r.body = "nullSeries"
      <4>1. FindResults(r.body) = [err |-> FALSE, results |-> << <<>> >>]
        BY <3>2 DEF FindResults
      <4>2. ValueOf(<< <<>> >>, m) = Panic
        BY DEF ValueOf
      <4>3. parseResponse(m, r) = Panic
        BY <2>2, <4>1, <4>2 DEF parseResponse
      <4>4. QED
        BY <1>2, <2>2, <3>2, <4>3
    <3>3. CASE r.body = "nullPoint"
      <4>1. FindResults(r.body) = [err |-> FALSE, results |-> << <<Null>> >>]
        BY <3>3 DEF FindResults
      <4>2. ValueOf(<< <<Null>> >>, m) = Panic
        BY DEF ValueOf
      <4>3. parseResponse(m, r) = Panic
        BY <2>2, <4>1, <4>2 DEF parseResponse
      <4>4. QED
        BY <1>2, <2>2, <3>3, <4>3
    <3>4. CASE r.body \in Values
      <4>1. r.body # Null /\ r.body \notin {"nullSeries", "nullPoint"}
        BY <3>4 DEF DatadogConstants
      <4>2. FindResults(r.body) = [err |-> FALSE, results |-> << <<r.body>> >>]
        BY <3>4, <4>1 DEF FindResults, DatadogConstants
      <4>3. ValueOf(<< <<r.body>> >>, m)
              = [phase |-> EvaluateResult(r.body, m), value |-> r.body]
        BY <4>1 DEF ValueOf
      <4>4. parseResponse(m, r)
              = [phase |-> EvaluateResult(r.body, m), value |-> r.body]
        BY <2>2, <4>2, <4>3 DEF parseResponse
      <4>5. parseResponse(m, r) \in Measurements
        BY <3>4, <4>4, EvaluateResultPhase DEF Measurements
      <4>6. QED
        BY <4>1, <4>5 DEF DatadogConstants
    <3>5. QED
      BY <3>1, <3>2, <3>3, <3>4 DEF Bodies
  <2>3. QED
    BY <2>1, <2>2
<1>3. QED
  BY <1>1, <1>2

=============================================================================
