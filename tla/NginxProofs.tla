----------------------------- MODULE NginxProofs -----------------------------
(***************************************************************************)
(* Proofs about the Nginx traffic router of nginx.go, for every set of     *)
(* stable-Ingress contents, weights and bounds.                            *)
(*                                                                         *)
(* A Create or a Patch writes the desired Ingress computed by an earlier   *)
(* ReconcileRead, and the stable Ingress may have changed since.  The      *)
(* invariant records what that desired Ingress is: owned by the rollout,   *)
(* with the rules that passed the backend scan when it was read.           *)
(***************************************************************************)
EXTENDS Nginx, TLAPS

\* The desired Ingress of a Reconcile in progress passed the backend scan.
DesiredBacked ==
    pc # "Idle" => desired.rules \in StableBacked /\ desired.owner = Me

IInv == TypeOK /\ DesiredBacked

LEMMA InitIInv == Init => IInv
BY NginxConstantsAssumption
   DEF Init, IInv, TypeOK, DesiredBacked

LEMMA NextIInv == IInv /\ [Next]_vars => IInv'
<1> SUFFICES ASSUME IInv, [Next]_vars PROVE IInv'
    OBVIOUS
<1> USE NginxConstantsAssumption
<1>1. CASE ReconcileRead
  <2>1. desired' = canaryIngress(stable, desiredWeight)
        /\ stable \in StableBacked
        /\ pc' \in {"Create", "Patch"}
        /\ snap' = canary
        /\ UNCHANGED <<stable, canary, desiredWeight, edits, faults>>
    BY <1>1 DEF ReconcileRead, HasStableBackend
  <2>2. desired' \in Ingresses
    BY <2>1 DEF IInv, TypeOK, canaryIngress, Ingresses, Owners
  <2>3. QED
    BY <2>1, <2>2 DEF IInv, TypeOK, DesiredBacked,
       canaryIngress
<1>2. CASE ReconcileError
  BY <1>2 DEF ReconcileError, vars, IInv, TypeOK,
     DesiredBacked
<1>3. CASE ReconcileWrite
  <2>1. pc' = "Idle" /\ desired' = NoIng /\ snap' = NoIng
        /\ UNCHANGED <<stable, desiredWeight, edits, faults>>
    BY <1>3 DEF ReconcileWrite
  <2>2. desired \in Ingresses /\ desired.rules \in StableBacked
        /\ desired.owner = Me
    BY <1>3 DEF ReconcileWrite, IInv, TypeOK, DesiredBacked
  <2>3. CASE pc = "Create"
    <3>1. canary' = IF canary = NoIng THEN desired ELSE canary
      BY <1>3, <2>3 DEF ReconcileWrite
    <3>2. QED
      BY <2>1, <2>2, <3>1 DEF IInv, TypeOK, DesiredBacked
  <2>4. CASE pc = "Patch"
    <3>1. canary' = IF Modified(snap, desired) /\ canary # NoIng
                      THEN MergePatch(canary, snap, desired)
                      ELSE canary
      BY <1>3, <2>4 DEF ReconcileWrite
    <3>2. CASE Modified(snap, desired) /\ canary # NoIng
      <4>1. canary \in Ingresses
        BY <3>2 DEF IInv, TypeOK
      <4>2. canary' \in Ingresses /\ canary'.owner = canary.owner
            /\ canary'.rules \in {canary.rules, desired.rules}
        BY <3>1, <3>2, <4>1, <2>2 DEF MergePatch, Ingresses
      <4>3. QED
        BY <2>1, <2>2, <3>2, <4>2 DEF IInv, TypeOK, DesiredBacked
    <3>3. CASE ~(Modified(snap, desired) /\ canary # NoIng)
      BY <2>1, <3>1, <3>3 DEF IInv, TypeOK, DesiredBacked
    <3>4. QED
      BY <3>2, <3>3
  <2>5. QED
    BY <1>3, <2>3, <2>4 DEF ReconcileWrite
<1>4. CASE WriteFails
  BY <1>4 DEF WriteFails, IInv, TypeOK, DesiredBacked
<1>5. CASE EditStable
  BY <1>5 DEF EditStable, IInv, TypeOK, DesiredBacked
<1>6. CASE ForeignCreate
  <2>1. PICK o \in {Other, NoOwner}, r \in RuleSets, w \in Weights :
          canary' = [owner |-> o, rules |-> r, weight |-> w]
    BY <1>6 DEF ForeignCreate
  <2>2. canary' \in Ingresses /\ canary'.owner # Me
    BY <2>1 DEF Ingresses, Owners
  <2>3. QED
    BY <1>6, <2>2 DEF ForeignCreate, IInv, TypeOK,
       DesiredBacked
<1>7. CASE EditCanary
  <2>1. canary \in Ingresses
    BY <1>7 DEF EditCanary, IInv, TypeOK
  <2>2. \/ canary' = NoIng
        \/ /\ canary' \in Ingresses
           /\ canary'.owner = canary.owner
           /\ canary'.rules = canary.rules
    BY <1>7, <2>1 DEF EditCanary, Ingresses
  <2>3. QED
    BY <1>7, <2>2 DEF EditCanary, IInv, TypeOK,
       DesiredBacked
<1>8. CASE SetWeight
  BY <1>8 DEF SetWeight, IInv, TypeOK, DesiredBacked
<1>9. CASE UNCHANGED vars
  BY <1>9 DEF vars, IInv, TypeOK, DesiredBacked
<1>10. QED
  BY <1>1, <1>2, <1>3, <1>4, <1>5, <1>6, <1>7, <1>8, <1>9
     DEF Next, Environment

\* Every reachable state of the Nginx router is well typed: in particular
\* a Reconcile between its read and its write always holds a desired
\* canary Ingress, and none outside it.
THEOREM NginxTypeCorrect == Spec => []TypeOK
<1>1. IInv => TypeOK
  BY DEF IInv
<1>2. QED
  BY InitIInv, NextIInv, <1>1, PTL DEF Spec

=============================================================================
