----------------------------- MODULE MCDatadog -----------------------------
(* The Datadog provider with two point values, so that the success and     *)
(* the failure condition can tell them apart, and two Runs.                *)
EXTENDS Datadog

CONSTANTS v0, v1

MCValues == {v0, v1}
=============================================================================
