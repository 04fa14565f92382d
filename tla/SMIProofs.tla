----------------------------- MODULE SMIProofs -----------------------------
(***************************************************************************)
(* Proofs about the SMI traffic router of smi.go, for every set of weights *)
(* and every bound.                                                        *)
(*                                                                         *)
(* TypeOK bounds both backends of the TrafficSplit to 0..9.  It is not     *)
(* inductive by itself: a write sends Split(asked) for the weight read     *)
(* before it, and that split is in range only because the read was made    *)
(* with a weight that converts.  The strengthening records that a          *)
(* Reconcile between its read and its write holds such a weight.           *)
(***************************************************************************)
EXTENDS SMI, TLAPS

\* A Reconcile that has read, and not yet written, asked for a weight that
\* resource.MustParse accepted.
AskedConverts == pc # "Idle" => Converts(asked)

IInv == TypeOK /\ AskedConverts

\* The split built for a weight that converts has one-digit backends.
LEMMA SplitInRange ==
    ASSUME NEW w \in Int, Converts(w)
    PROVE  Split(w) \in Splits
BY DEF Converts, Parses, Split, Quantity, Splits, Owners

\* Patching a split in range with one in range stays in range.
LEMMA MergePatchInRange ==
    ASSUME NEW live \in Splits, NEW des \in Splits
    PROVE  MergePatch(live, des) \in Splits
BY DEF MergePatch, Splits

LEMMA InitIInv ==
    ASSUME SMIConstants PROVE Init => IInv
BY DEF SMIConstants, Init, IInv, TypeOK, AskedConverts

LEMMA NextIInv ==
    ASSUME SMIConstants PROVE IInv /\ [Next]_vars => IInv'
<1> SUFFICES ASSUME IInv, [Next]_vars PROVE IInv'
    OBVIOUS
<1> USE DEF SMIConstants, IInv, TypeOK, AskedConverts
<1>1. CASE ReconcilePanics
  BY <1>1 DEF ReconcilePanics, vars
<1>2. CASE ReconcileRead
  <2>1. pc' \in {"Create", "Patch"}
    BY <1>2 DEF ReconcileRead
  <2>2. QED
    BY <1>2, <2>1 DEF ReconcileRead
<1>3. CASE ReconcileRefused
  BY <1>3 DEF ReconcileRefused, vars
<1>4. CASE GetFails
  <2>1. pc' \in {"Create", "Idle"}
    BY <1>4 DEF GetFails
  <2>2. QED
    BY <1>4, <2>1 DEF GetFails
<1>5. CASE ReconcileWrite
  <2>1. Split(asked) \in Splits
    BY <1>5, SplitInRange DEF ReconcileWrite
  <2>2. CASE pc = "Create"
    BY <1>5, <2>1, <2>2 DEF ReconcileWrite
  <2>3. CASE pc = "Patch"
    <3>1. ts # NoTS => MergePatch(ts, Split(asked)) \in Splits
      BY <2>1, MergePatchInRange
    <3>2. QED
      BY <1>5, <2>3, <3>1 DEF ReconcileWrite
  <2>4. QED
    BY <1>5, <2>2, <2>3 DEF ReconcileWrite
<1>6. CASE WriteFails
  BY <1>6 DEF WriteFails
<1>7. CASE DeleteSplit
  BY <1>7 DEF DeleteSplit
<1>8. CASE ForeignCreate
  BY <1>8 DEF ForeignCreate, Splits, Owners
<1>9. CASE SetWeight
  BY <1>9 DEF SetWeight
<1>10. CASE UNCHANGED vars
  BY <1>10 DEF vars
<1>11. QED
  BY <1>1, <1>2, <1>3, <1>4, <1>5, <1>6, <1>7, <1>8, <1>9, <1>10
     DEF Next, Reconcile

\* Whatever weights the canary steps ask for, Reconcile only ever writes a
\* TrafficSplit whose canary and stable backends are single digits 0..9:
\* resource.MustParse(string(w)) at lines 63-64 reads the rune of w, and
\* only the ten digit runes parse.  A weight of 50 is never written as 50.
THEOREM SMITypeCorrect ==
    ASSUME SMIConstants PROVE Spec => []TypeOK
<1>1. Init => IInv
  BY InitIInv
<1>2. IInv /\ [Next]_vars => IInv'
  BY NextIInv
<1>3. IInv => TypeOK
  BY DEF IInv
<1>4. QED
  BY <1>1, <1>2, <1>3, PTL DEF Spec

=============================================================================
