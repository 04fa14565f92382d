------------------------------ MODULE Datadog ------------------------------
(***************************************************************************)
(* The Datadog metric provider (src/metricproviders/datadog/datadog.go):   *)
(* NewDatadogProvider reads the API and application keys from a Secret,    *)
(* and each Run sends one query and turns the answer into a Measurement.   *)
(*                                                                         *)
(* The answer is abstracted to what the code branches on: the outcome of   *)
(* httpClient.Do and of reading the body, the status code, and the shape   *)
(* of the JSON body at the path {.series[0].pointlist[-1:][1]}.  The       *)
(* JSONPath library (client-go, not in this repository) is modelled by     *)
(* what FindResults returns for each shape: an error for a missing key or  *)
(* an index out of range, no value at all below a null, and a nil          *)
(* interface for a null point.  Query text, endpoint, time window and the  *)
(* error messages are left out.                                            *)
(*                                                                         *)
(* Each Run is appended to the measurements the analysis runner keeps      *)
(* (spec section 4.D); a Run that panics ends the controller process.      *)
(***************************************************************************)
EXTENDS Naturals, Sequences

CONSTANTS
    Values,     \* the numbers a point of the series may carry (model values)
    NoValue,    \* Measurement.Value left empty
    Null,       \* a JSON null where a point value is expected
    Panic,      \* Run panicked
    MaxRuns     \* bound on the measurements taken

VARIABLES
    provider,      \* "none", "error" or "ready": the last NewDatadogProvider
    measurements   \* the Measurements Run returned, oldest first

vars == <<provider, measurements>>

\* The Secret "datadog" in Namespace(): found, and whether each key is set.
Secrets == [found : BOOLEAN, apiKey : BOOLEAN, appKey : BOOLEAN]

\* metric.Provider.Datadog.Interval: unset, a valid or a malformed duration.
Intervals == {"unset", "valid", "malformed"}

\* The body, by the shape the JSONPath reads.
Bodies == {"badJSON", "noSeries", "emptySeries", "nullSeries",
           "emptyPointlist", "nullPoint"} \cup Values

\* What httpClient.Do and ioutil.ReadAll give back: an error of either, or
\* the status code and the body.
Responses == [err : {"do", "read"}] \cup [err : {"none"}, status : {200, 401, 403, 500}, body : Bodies]

\* A metric: its interval and the values its success and failure
\* conditions accept.
Metrics == [interval : Intervals, success : SUBSET Values, failure : SUBSET Values]

Phases == {"Successful", "Failed", "Error", "Inconclusive"}
Measurements == [phase : Phases, value : {NoValue} \cup Values]

TypeOK ==
    /\ provider \in {"none", "error", "ready"}
    /\ measurements \in Seq(Measurements \cup {Panic})
    /\ Len(measurements) <= MaxRuns

-----------------------------------------------------------------------------
(* Helpers outside src/, modelled from spec section 4.D.                   *)

\* metricutil.MarkMeasurementError: phase Error, no value.
MarkMeasurementError == [phase |-> "Error", value |-> NoValue]

\* evaluate.EvaluateResult: one condition matching decides, none or both
\* is Inconclusive.
EvaluateResult(out, m) ==
    CASE out \in m.success /\ out \notin m.failure -> "Successful"
      [] out \in m.failure /\ out \notin m.success -> "Failed"
      [] OTHER                                     -> "Inconclusive"

\* jsonParser.FindResults: the pair (results, err), results a sequence with
\* one entry per template node, each the sequence of values found.
FindResults(body) ==
    CASE body \in {"noSeries", "emptySeries", "emptyPointlist"} ->
                                     [err |-> TRUE, results |-> << >>]
      [] body = "nullSeries" -> [err |-> FALSE, results |-> << <<>> >>]
      [] body = "nullPoint"  -> [err |-> FALSE, results |-> << <<Null>> >>]
      [] OTHER               -> [err |-> FALSE, results |-> << <<body>> >>]

-----------------------------------------------------------------------------
(* datadog.go.                                                             *)

\* parseResponse from line 130 on, for a body that parsed: the guard of
\* line 135 evaluates len(results[0]) only when results is empty, and
\* line 139 indexes results[0][0] and asserts a float64.
ValueOf(results, m) ==
    IF Len(results) < 1
    THEN Panic                                      \* results[0] in line 135
    ELSE IF Len(results[1]) < 1 \/ results[1][1] = Null
         THEN Panic                                 \* results[0][0].(float64)
         ELSE [phase |-> EvaluateResult(results[1][1], m),
               value |-> results[1][1]]

parseResponse(m, r) ==
    IF \/ r.status \in {401, 403}
       \/ r.status # 200
       \/ r.body = "badJSON"
       \/ FindResults(r.body).err
    THEN MarkMeasurementError
    ELSE ValueOf(FindResults(r.body).results, m)

\* Run: the measurement for metric m and answer r.
RunResult(m, r) ==
    IF m.interval = "malformed" \/ r.err # "none"
    THEN MarkMeasurementError
    ELSE parseResponse(m, r)

Crashed == \E i \in 1..Len(measurements) : measurements[i] = Panic

NewDatadogProvider ==
    /\ ~Crashed
    /\ \E s \in Secrets :
         provider' = IF s.found /\ s.apiKey /\ s.appKey THEN "ready" ELSE "error"
    /\ UNCHANGED measurements

Run ==
    /\ ~Crashed
    /\ provider = "ready"
    /\ Len(measurements) < MaxRuns
    /\ \E m \in Metrics, r \in Responses :
         measurements' = Append(measurements, RunResult(m, r))
    /\ UNCHANGED provider

Init ==
    /\ provider = "none"
    /\ measurements = <<>>

Next == NewDatadogProvider \/ Run

Spec == Init /\ [][Next]_vars

-----------------------------------------------------------------------------

\* Spec sections 4.D and 7: Run returns a Measurement for every answer the
\* query can get, with phase Error when no value could be read; an error
\* never crashes the controller process.
RunReturnsMeasurement ==
    \A i \in 1..Len(measurements) : measurements[i] \in Measurements

=============================================================================
