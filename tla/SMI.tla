-------------------------------- MODULE SMI --------------------------------
(***************************************************************************)
(* The SMI traffic router (src/rollout/trafficrouting/smi/smi.go):         *)
(* Reconcile keeps a TrafficSplit whose backends are the canary service at *)
(* desiredWeight and the stable service at 100 - desiredWeight.            *)
(*                                                                         *)
(* Reconcile is two steps: it gets the TrafficSplit and decides            *)
(* (ReconcileRead), then creates it or sends a merge patch built from what *)
(* it read (ReconcileWrite).  Other clients act in between.                *)
(*                                                                         *)
(* The weights go through resource.MustParse(string(w)): string of an      *)
(* int32 is the one-rune string of code point w, which parses only for the *)
(* digits '0'..'9' (w in 48..57) and panics otherwise.                     *)
(*                                                                         *)
(* Get returns, on an error, whatever the clientset returns: the generated *)
(* clientset returns a non-nil empty TrafficSplit (RealClient), the fake   *)
(* clientset of the unit tests returns nil.                                *)
(***************************************************************************)
EXTENDS Integers

CONSTANTS
    Weights,     \* desired weights the canary steps may ask for
    InitWeight,  \* the desired weight at the start
    Me,          \* controller reference to this rollout
    Other,       \* controller reference to some other object
    NoOwner,     \* no controller reference
    NoTS,        \* no TrafficSplit of that name
    NilObj,      \* a nil *TrafficSplit returned by Get
    EmptyObj,    \* the empty TrafficSplit returned by a failed Get
    RealClient,  \* Get returns an empty object, not nil, on an error
    MaxEdits,    \* bound on the other clients' writes
    MaxFaults    \* bound on failed API calls

\* What the proofs need of the constants (SMIProofs states it as the
\* hypothesis of its theorems).
SMIConstants ==
    /\ Weights \subseteq Int /\ InitWeight \in Weights
    /\ RealClient \in BOOLEAN
    /\ MaxEdits \in Nat /\ MaxFaults \in Nat

Owners == {Me, Other, NoOwner}
Splits == [owner : Owners, canary : 0..9, stable : 0..9]

VARIABLES
    ts,             \* the TrafficSplit, or NoTS
    desiredWeight,  \* the weight the rollout passes to Reconcile
    pc,             \* "Idle", or the write Reconcile is about to send
    snap,           \* the TrafficSplit as Reconcile read it
    asked,          \* the weight of the Reconcile in progress
    edits,          \* writes by other clients so far
    faults          \* failed API calls so far

vars == <<ts, desiredWeight, pc, snap, asked, edits, faults>>

TypeOK ==
    /\ ts \in Splits \cup {NoTS}
    /\ desiredWeight \in Weights
    /\ pc \in {"Idle", "Create", "Patch"}
    /\ snap \in Splits \cup {NoTS}
    /\ asked \in Weights
    /\ edits \in 0..MaxEdits
    /\ faults \in 0..MaxFaults

-----------------------------------------------------------------------------
(* Reconcile.                                                              *)

\* resource.MustParse(string(w)), lines 63-64: the quantity of the rune w.
Parses(w) == w \in 48..57
Quantity(w) == w - 48
Converts(w) == Parses(w) /\ Parses(100 - w)

\* The TrafficSplit built at lines 85-97 (and 125-134 for a create).
Split(w) == [owner |-> Me, canary |-> Quantity(w), stable |-> Quantity(100 - w)]

\* What Get hands back for the TrafficSplit as it is: the object, or on
\* NotFound an empty object or nil, depending on the clientset.
FailedGet == IF RealClient THEN EmptyObj ELSE NilObj
GetResult(s) == IF s # NoTS THEN s ELSE FailedGet
\* metav1.GetControllerOf, line 101.
ControllerOf(obj) == IF obj = EmptyObj THEN NoOwner ELSE obj.owner

\* Line 63: the weight does not convert, and MustParse panics.
ReconcilePanics ==
    /\ pc = "Idle"
    /\ ~Converts(desiredWeight)
    /\ UNCHANGED vars

\* Lines 59-116: the Get, then either the create path when it gave nil
\* (line 100), or the controller check of lines 101-104 before a patch.
ReconcileRead ==
    /\ pc = "Idle"
    /\ Converts(desiredWeight)
    /\ LET obj == GetResult(ts)
       IN  \/ obj = NilObj /\ pc' = "Create"
           \/ obj # NilObj /\ ControllerOf(obj) = Me /\ pc' = "Patch"
    /\ snap' = ts
    /\ asked' = desiredWeight
    /\ UNCHANGED <<ts, desiredWeight, edits, faults>>

\* Line 103: a TrafficSplit (or the empty object of a failed Get) with
\* another controller, or none, ends Reconcile without a write.
ReconcileRefused ==
    /\ pc = "Idle"
    /\ Converts(desiredWeight)
    /\ GetResult(ts) # NilObj
    /\ ControllerOf(GetResult(ts)) # Me
    /\ UNCHANGED vars

\* The Get fails for another reason than NotFound: the error is dropped
\* at line 79, and the object returned decides as above.
GetFails ==
    /\ pc = "Idle"
    /\ Converts(desiredWeight)
    /\ faults < MaxFaults
    /\ faults' = faults + 1
    /\ pc' = IF FailedGet = NilObj THEN "Create" ELSE "Idle"
    /\ asked' = desiredWeight
    /\ UNCHANGED <<ts, desiredWeight, snap, edits>>

\* Lines 105-116: the merge patch replaces the backends list as a whole
\* when the read copy differs from the desired one.
Modified(cur, des) == <<cur.canary, cur.stable>> # <<des.canary, des.stable>>
MergePatch(live, des) == [live EXCEPT !.canary = des.canary, !.stable = des.stable]

\* Lines 117-121 and 136-141: the Patch, lost if the TrafficSplit is gone,
\* or the Create, refused if one exists by now.
ReconcileWrite ==
    /\ \/ /\ pc = "Create"
          /\ ts' = IF ts = NoTS THEN Split(asked) ELSE ts
       \/ /\ pc = "Patch"
          /\ ts' = IF Modified(snap, Split(asked)) /\ ts # NoTS
                     THEN MergePatch(ts, Split(asked)) ELSE ts
    /\ pc' = "Idle"
    /\ UNCHANGED <<desiredWeight, snap, asked, edits, faults>>

\* The Create or the Patch fails (API error, or the 30s context expires).
WriteFails ==
    /\ pc # "Idle"
    /\ faults < MaxFaults
    /\ faults' = faults + 1
    /\ pc' = "Idle"
    /\ UNCHANGED <<ts, desiredWeight, snap, asked, edits>>

-----------------------------------------------------------------------------
(* Other clients, and the rollout's canary steps.                          *)

\* A user deletes the TrafficSplit.
DeleteSplit ==
    /\ edits < MaxEdits
    /\ ts # NoTS
    /\ ts' = NoTS
    /\ edits' = edits + 1
    /\ UNCHANGED <<desiredWeight, pc, snap, asked, faults>>

\* Someone else creates a TrafficSplit of that name.
ForeignCreate ==
    /\ edits < MaxEdits
    /\ ts = NoTS
    /\ \E o \in {Other, NoOwner} : ts' = [owner |-> o, canary |-> 0, stable |-> 0]
    /\ edits' = edits + 1
    /\ UNCHANGED <<desiredWeight, pc, snap, asked, faults>>

\* The canary reconciler moves to a step with another weight.
SetWeight ==
    /\ edits < MaxEdits
    /\ \E w \in Weights \ {desiredWeight} : desiredWeight' = w
    /\ edits' = edits + 1
    /\ UNCHANGED <<ts, pc, snap, asked, faults>>

-----------------------------------------------------------------------------

Init ==
    /\ ts = NoTS
    /\ desiredWeight = InitWeight
    /\ pc = "Idle"
    /\ snap = NoTS
    /\ asked = InitWeight
    /\ edits = 0
    /\ faults = 0

Reconcile ==
    ReconcilePanics \/ ReconcileRead \/ ReconcileRefused \/ GetFails
        \/ ReconcileWrite \/ WriteFails

Next == Reconcile \/ DeleteSplit \/ ForeignCreate \/ SetWeight

Spec == Init /\ [][Next]_vars

\* The rollout is reconciled on every change and every resync, and a
\* Reconcile that has read goes on to write.
FairSpec == Spec /\ WF_vars(ReconcileRead) /\ WF_vars(ReconcileWrite)

-----------------------------------------------------------------------------
(* Properties.                                                             *)

\* Spec section 4.C: while the weight can be sent at all, the rollout ends
\* up with a TrafficSplit: Reconcile creates one when there is none.
SplitExists == <>[](Converts(desiredWeight) => ts # NoTS)

\* Spec section 4.C: every TrafficSplit Reconcile writes has the backends
\* {canary: w, stable: 100 - w} for the weight w it was called with.
WeightsAsAsked ==
    [][ReconcileWrite /\ ts' # ts =>
         ts'.canary = asked /\ ts'.stable = 100 - asked]_vars

\* Spec section 7, "ownership violation": Reconcile never changes a
\* TrafficSplit that another object controls, or that has no controller.
NeverModifyForeign ==
    [][ReconcileWrite /\ ts # NoTS /\ ts.owner # Me => ts' = ts]_vars

=============================================================================
