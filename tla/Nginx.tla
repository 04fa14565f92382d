------------------------------- MODULE Nginx -------------------------------
(***************************************************************************)
(* The Nginx traffic router (src/rollout/trafficrouting/nginx/nginx.go):   *)
(* Reconcile keeps a canary Ingress "<stable>-canary" that mirrors the     *)
(* stable Ingress with its backends pointed at the canary service and the  *)
(* canary-weight annotation set.                                           *)
(*                                                                         *)
(* Reconcile is two steps: it reads the stable and the canary Ingress and  *)
(* decides (ReconcileRead), then creates the canary Ingress or sends a     *)
(* merge patch built from what it read (ReconcileWrite).  Other clients of *)
(* the API server act in between.                                          *)
(*                                                                         *)
(* An Ingress's content (rules, annotations, labels) is a model value of   *)
(* RuleSets; those in StableBacked have a path to the stable service, the  *)
(* others make canaryIngress fail.  The canary Ingress is compared and     *)
(* patched on its rules and its weight; its owner is never patched.        *)
(***************************************************************************)
EXTENDS Naturals

CONSTANTS
    RuleSets,      \* possible contents of the stable Ingress
    StableBacked,  \* those with a backend on the stable service
    Weights,       \* desired weights the rollout may ask for
    Me,            \* owner reference to this rollout
    Other,         \* owner reference to some other object
    NoOwner,       \* no owner reference at all
    NoIng,         \* an Ingress that does not exist
    InitWeight,    \* the desired weight at the start
    MaxEdits,      \* bound on the other clients' writes
    MaxFaults      \* bound on failed API writes

ASSUME NginxConstantsAssumption ==
    /\ StableBacked \subseteq RuleSets
    /\ InitWeight \in Weights
    /\ NoIng \notin RuleSets
    /\ Me # Other /\ Me # NoOwner
    /\ MaxEdits \in Nat /\ MaxFaults \in Nat

Owners == {Me, Other, NoOwner}
Ingresses == [owner : Owners, rules : RuleSets, weight : Weights]

VARIABLES
    stable,         \* the stable Ingress: its content, or NoIng
    canary,         \* the canary Ingress, or NoIng
    desiredWeight,  \* the weight the rollout passes to Reconcile
    pc,             \* "Idle", or the write Reconcile is about to send
    snap,           \* the canary Ingress as Reconcile read it
    desired,        \* the desired canary Ingress Reconcile computed
    edits,          \* writes by other clients so far
    faults          \* failed API writes so far

vars == <<stable, canary, desiredWeight, pc, snap, desired, edits, faults>>

TypeOK ==
    /\ stable \in RuleSets \cup {NoIng}
    /\ canary \in Ingresses \cup {NoIng}
    /\ desiredWeight \in Weights
    /\ pc \in {"Idle", "Create", "Patch"}
    /\ snap \in Ingresses \cup {NoIng}
    /\ desired \in IF pc = "Idle" THEN {NoIng} ELSE Ingresses
    /\ edits \in 0..MaxEdits
    /\ faults \in 0..MaxFaults

-----------------------------------------------------------------------------
(* Reconcile.                                                              *)

\* canaryIngress: a copy of the stable Ingress, owned by this rollout,
\* with the weight annotation set.  It fails (FALSE) when no path of the
\* stable Ingress uses the stable service.
canaryIngress(rules, w) == [owner |-> Me, rules |-> rules, weight |-> w]
HasStableBackend(rules) == rules \in StableBacked

\* The ownership check of lines 187-195: no owner reference, or the first
\* owner reference of the DESIRED Ingress differs from the rollout.
OwnerRefused(cur, des) == cur.owner = NoOwner \/ des.owner # Me

\* Lines 135-196 up to the patch: read both Ingresses, stop on a missing
\* stable Ingress, on an Ingress without a stable backend, or on a refused
\* owner; remember what was read and what is wanted.  A failed Get of the
\* canary Ingress is a stutter.
ReconcileRead ==
    /\ pc = "Idle"
    /\ stable # NoIng
    /\ HasStableBackend(stable)
    /\ \/ /\ canary = NoIng
          /\ pc' = "Create"
       \/ /\ canary # NoIng
          /\ ~OwnerRefused(canary, canaryIngress(stable, desiredWeight))
          /\ pc' = "Patch"
    /\ snap' = canary
    /\ desired' = canaryIngress(stable, desiredWeight)
    /\ UNCHANGED <<stable, canary, desiredWeight, edits, faults>>

\* The early returns of lines 139-142, 161-164 and 187-195: no stable
\* Ingress, no path on the stable service, or a refused owner.  Reconcile
\* returns an error, writes nothing, and is retried.
ReconcileError ==
    /\ pc = "Idle"
    /\ \/ stable = NoIng
       \/ ~HasStableBackend(stable)
       \/ canary # NoIng /\ OwnerRefused(canary, canaryIngress(stable, desiredWeight))
    /\ UNCHANGED vars

\* Mutation: the comparison leaves out the annotations.
ModifiedRulesOnly(cur, des) == cur.rules # des.rules

\* compareCanaryIngresses: the merge patch between what was read and what
\* is wanted, on the rules and the annotations only.
Modified(cur, des) == cur.rules # des.rules \/ cur.weight # des.weight

\* Applying that merge patch to the Ingress as it is now: only the fields
\* in which the read copy differed from the desired one are written.
MergePatch(live, cur, des) ==
    [live EXCEPT !.rules  = IF cur.rules # des.rules THEN des.rules ELSE @,
                 !.weight = IF cur.weight # des.weight THEN des.weight ELSE @]

\* Lines 166-181 and 197-222: Create, which fails if an Ingress of that
\* name exists by now, or Patch, sent only when the merge patch is not
\* empty and failing if the Ingress is gone.
ReconcileWrite ==
    /\ pc # "Idle"
    /\ \/ /\ pc = "Create"
          /\ canary' = IF canary = NoIng THEN desired ELSE canary
       \/ /\ pc = "Patch"
          /\ canary' = IF Modified(snap, desired) /\ canary # NoIng
                         THEN MergePatch(canary, snap, desired)
                         ELSE canary
    /\ pc' = "Idle"
    /\ snap' = NoIng
    /\ desired' = NoIng
    /\ UNCHANGED <<stable, desiredWeight, edits, faults>>

\* The Create or the Patch is lost (API server error or timeout).
WriteFails ==
    /\ pc # "Idle"
    /\ faults < MaxFaults
    /\ faults' = faults + 1
    /\ pc' = "Idle"
    /\ snap' = NoIng
    /\ desired' = NoIng
    /\ UNCHANGED <<stable, canary, desiredWeight, edits>>

-----------------------------------------------------------------------------
(* Other clients of the API server, and the rollout's canary steps.        *)

\* A user edits or deletes the stable Ingress.
EditStable ==
    /\ edits < MaxEdits
    /\ \E s \in RuleSets \cup {NoIng} : s # stable /\ stable' = s
    /\ edits' = edits + 1
    /\ UNCHANGED <<canary, desiredWeight, pc, snap, desired, faults>>

\* Someone else creates an Ingress with the canary Ingress's name.
ForeignCreate ==
    /\ edits < MaxEdits
    /\ canary = NoIng
    /\ \E o \in {Other, NoOwner}, r \in RuleSets, w \in Weights :
          canary' = [owner |-> o, rules |-> r, weight |-> w]
    /\ edits' = edits + 1
    /\ UNCHANGED <<stable, desiredWeight, pc, snap, desired, faults>>

\* A user deletes the canary Ingress or changes its weight annotation.
EditCanary ==
    /\ edits < MaxEdits
    /\ canary # NoIng
    /\ \/ canary' = NoIng
       \/ \E w \in Weights \ {canary.weight} : canary' = [canary EXCEPT !.weight = w]
    /\ edits' = edits + 1
    /\ UNCHANGED <<stable, desiredWeight, pc, snap, desired, faults>>

\* The canary reconciler moves to a step with another weight.
SetWeight ==
    /\ edits < MaxEdits
    /\ \E w \in Weights \ {desiredWeight} : desiredWeight' = w
    /\ edits' = edits + 1
    /\ UNCHANGED <<stable, canary, pc, snap, desired, faults>>

Environment == EditStable \/ ForeignCreate \/ EditCanary \/ SetWeight

-----------------------------------------------------------------------------

\* A stable Ingress with a stable backend and no canary Ingress yet.
Init ==
    /\ stable \in StableBacked
    /\ canary = NoIng
    /\ desiredWeight = InitWeight
    /\ pc = "Idle"
    /\ snap = NoIng
    /\ desired = NoIng
    /\ edits = 0
    /\ faults = 0

Next == ReconcileRead \/ ReconcileError \/ ReconcileWrite \/ WriteFails \/ Environment

Spec == Init /\ [][Next]_vars

\* The rollout is reconciled on every change and at every resync, and a
\* Reconcile that has read goes on to write.
FairSpec == Spec /\ WF_vars(ReconcileRead) /\ WF_vars(ReconcileWrite)

-----------------------------------------------------------------------------
(* Properties.                                                             *)

\* Spec sections 4.C and 7 ("ownership violation"): Reconcile never
\* changes a canary Ingress that has no owner reference or is owned by
\* something else.
ForeignUntouched == canary # NoIng /\ canary.owner # Me => canary' = canary
NeverModifyForeign == [][ReconcileWrite => ForeignUntouched]_vars

\* Once the other clients stop, a canary Ingress that the rollout owns, or
\* that does not exist, ends up mirroring the stable Ingress at the
\* desired weight, however the edits and lost writes interleaved with the
\* reads and patches of Reconcile.
Settled == stable \in StableBacked /\ (canary = NoIng \/ canary.owner = Me)
Converges ==
    <>[](Settled => canary = canaryIngress(stable, desiredWeight))

=============================================================================
