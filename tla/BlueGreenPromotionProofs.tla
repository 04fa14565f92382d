---------------------- MODULE BlueGreenPromotionProofs ----------------------
(***************************************************************************)
(* PromotionAfterPause for every value of the constants, when status       *)
(* writes are not lost (Faults = FALSE; with Faults the property fails: a  *)
(* lost write of the reconcile that switched the preview Service loses the *)
(* pause, bluegreen.go:55).                                                *)
(*                                                                         *)
(* The property is an action property, and not inductive: the step that    *)
(* switches the active Service only checks that the rollout is not held in *)
(* a pause.  What makes that enough is PromotedOrHeld: while the preview   *)
(* Service selects another revision than the active one, the rollout is   *)
(* held (spec.paused and pauseStartTime both set) or the user promoted     *)
(* exactly that revision.  SwitchPreview enters the hold, UserResume       *)
(* records the promotion, and nothing else touches either.                 *)
(***************************************************************************)
EXTENDS BlueGreenProofs

\* The rollout is held by reconcileBlueGreenPause.
Held == paused /\ pauseSet

PromotedOrHeld ==
    HasPreview /\ previewSel # NoHash /\ activeSel # NoHash
    /\ previewSel # activeSel
        => Held \/ approved = previewSel

\* The status write of syncRolloutStatusBlueGreen keeps a hold
\* (calculatePauseStatus keeps pauseStartTime while spec.paused is set).
LEMMA PersistKeepsHold ==
    ASSUME ~Faults, NEW add, NEW a, Persist(add, a)
    PROVE  Held => Held'
BY DEF Persist, syncRolloutStatusBlueGreen, Held

\* A write that adds a pause enters a hold.
LEMMA PersistEntersHold ==
    ASSUME ~Faults, NEW a, Persist(TRUE, a)
    PROVE  Held'
BY DEF Persist, syncRolloutStatusBlueGreen, Held

\* Every branch of scaleBlueGreen ends in the status write, unless a fault
\* stops the loop.
LEMMA ScaleBlueGreenPersists ==
    ASSUME ~Faults, scaleBlueGreen
    PROVE  Persist(FALSE, activeSel)
BY DEF scaleBlueGreen, ScaleOne

\* A reconcile leaves the Services alone and keeps a hold, or it is one of
\* the two Service switches.
LEMMA ReconcileHolds ==
    ASSUME ~Faults, Reconcile
    PROVE  \/ UNCHANGED svcVars /\ (Held => Held')
           \/ SwitchPreview
           \/ SwitchActive
<1>1. CASE CreateNewRS
  <2>1. Persist(FALSE, activeSel) /\ UNCHANGED svcVars
    BY <1>1 DEF CreateNewRS
  <2>2. QED
    BY <2>1, PersistKeepsHold
<1>2. CASE ScaleNewRS
  <2>1. Persist(FALSE, activeSel) /\ UNCHANGED svcVars
    BY <1>2 DEF ScaleNewRS
  <2>2. QED
    BY <2>1, PersistKeepsHold
<1>3. CASE WaitSaturated
  <2>1. Persist(FALSE, activeSel) /\ UNCHANGED svcVars
    BY <1>3 DEF WaitSaturated
  <2>2. QED
    BY <2>1, PersistKeepsHold
<1>4. CASE PauseBeforeSwitchActive
  <2>1. Persist(TRUE, activeSel) /\ UNCHANGED svcVars
    BY <1>4 DEF PauseBeforeSwitchActive
  <2>2. QED
    BY <2>1, PersistKeepsHold
<1>5. CASE ScaleDownDelayWait
  <2>1. Persist(FALSE, activeSel) /\ UNCHANGED svcVars
    BY <1>5 DEF ScaleDownDelayWait
  <2>2. QED
    BY <2>1, PersistKeepsHold
<1>6. CASE ScaleDownOld
  <2>1. Persist(FALSE, activeSel) /\ UNCHANGED svcVars
    BY <1>6 DEF ScaleDownOld
  <2>2. QED
    BY <2>1, PersistKeepsHold
<1>7. CASE Complete
  <2>1. Persist(FALSE, activeSel) /\ UNCHANGED svcVars
    BY <1>7 DEF Complete
  <2>2. QED
    BY <2>1, PersistKeepsHold
<1>8. CASE syncReplicasOnly
  <2>1. Persist(FALSE, activeSel) /\ UNCHANGED svcVars
    BY <1>8, ScaleBlueGreenPersists DEF syncReplicasOnly
  <2>2. QED
    BY <2>1, PersistKeepsHold
<1>9. QED
  BY <1>1, <1>2, <1>3, <1>4, <1>5, <1>6, <1>7, <1>8
  DEF Reconcile, rolloutBlueGreen

\* A switch of the active Service lands on the revision the preview
\* Service selects, and from a serving revision only outside a hold.
LEMMA SwitchActiveToPreview ==
    ASSUME TypeOK, SwitchActive, HasPreview
    PROVE  /\ activeSel' = previewSel
           /\ previewSel' = previewSel
           /\ previewSel \in Revs
           /\ activeSel # NoHash => ~Held
<1>1. previewSel = template /\ activeSel' = template /\ previewSel' = previewSel
  BY DEF SwitchActive, PausePassed, PreviewPassed
<1>2. template \in Revs
  BY DEF TypeOK
<1>3. activeSel # NoHash => ~Held
  BY DEF SwitchActive, PausePassed, reconcileBlueGreenPause, Held
<1>4. QED
  BY <1>1, <1>2, <1>3

\* PromotedOrHeld is kept by every step, given TypeOK.
LEMMA NextPromotedOrHeld ==
    ASSUME ~Faults, TypeOK, PromotedOrHeld, [Next]_vars
    PROVE  PromotedOrHeld'
<1>. paused \in BOOLEAN /\ pauseSet \in BOOLEAN
  BY DEF TypeOK
<1>1. CASE Reconcile
  <2>1. approved' = IF activeSel' # activeSel THEN NoHash ELSE approved
    BY <1>1 DEF Reconcile
  <2>2. CASE UNCHANGED svcVars /\ (Held => Held')
    BY <2>1, <2>2 DEF PromotedOrHeld, svcVars
  <2>3. CASE SwitchPreview
    <3>1. Held'
      BY <2>3, PersistEntersHold DEF SwitchPreview
    <3>2. QED
      BY <3>1 DEF PromotedOrHeld
  <2>4. CASE SwitchActive
    BY <2>4, SwitchActiveToPreview DEF PromotedOrHeld
  <2>5. QED
    BY <1>1, <2>2, <2>3, <2>4, ReconcileHolds
<1>2. CASE Environment
  <2>1. CASE \E h \in Revs : PodReady(h) \/ PodGone(h)
    BY <2>1 DEF PodReady, PodGone, PromotedOrHeld, Held, svcVars, statusVars,
       historyVars
  <2>2. CASE Tick
    BY <2>2 DEF Tick, PromotedOrHeld, Held, svcVars, specVars
  <2>3. CASE \E h \in Revs : SetTemplate(h)
    BY <2>3 DEF SetTemplate, PromotedOrHeld, Held, svcVars, statusVars,
       historyVars
  <2>4. CASE \E n \in 1..MaxReplicas : SetReplicas(n)
    BY <2>4 DEF SetReplicas, PromotedOrHeld, Held, svcVars, statusVars,
       historyVars
  <2>5. CASE UserPause
    BY <2>5 DEF UserPause, PromotedOrHeld, Held, svcVars, historyVars
  <2>6. CASE UserResume
    BY <2>6 DEF UserResume, PromotedOrHeld, Held, svcVars
  <2>7. QED
    BY <1>2, <2>1, <2>2, <2>3, <2>4, <2>5, <2>6 DEF Environment
<1>3. CASE UNCHANGED vars
  BY <1>3 DEF vars, PromotedOrHeld, Held
<1>4. QED
  BY <1>1, <1>2, <1>3 DEF Next

\* The step of PromotionAfterPause: only SwitchActive moves the active
\* Service, and from a serving revision it moves to the promoted one.
LEMMA NextPromotion ==
    ASSUME ~Faults, TypeOK, PromotedOrHeld, [Next]_vars
    PROVE  [HasPreview /\ activeSel # NoHash /\ activeSel' # activeSel
              => approved = activeSel']_vars
<1>1. CASE Reconcile
  <2>1. CASE SwitchActive
    <3>1. CASE HasPreview
      <4>1. /\ activeSel' = previewSel
            /\ previewSel # NoHash
            /\ activeSel # NoHash => ~Held
        BY <2>1, <3>1, SwitchActiveToPreview, RevsAssumption
      <4>2. QED
        BY <4>1 DEF PromotedOrHeld
    <3>2. CASE ~HasPreview
      BY <3>2
    <3>3. QED
      BY <3>1, <3>2
  <2>2. CASE ~SwitchActive
    <3>1. activeSel' = activeSel
      BY <1>1, <2>2, ReconcileHolds DEF SwitchPreview, svcVars
    <3>2. QED
      BY <3>1
  <2>3. QED
    BY <2>1, <2>2
<1>2. CASE Environment
  BY <1>2 DEF Environment, PodReady, PodGone, Tick, SetTemplate, SetReplicas,
     UserPause, UserResume, svcVars
<1>3. CASE UNCHANGED vars
  BY <1>3 DEF vars
<1>4. QED
  BY <1>1, <1>2, <1>3 DEF Next

\* With a preview Service, and status writes that are not lost, the active
\* Service never leaves a serving revision for one the user did not promote
\* out of the pause of reconcileBlueGreenPause: for every set of revisions,
\* every number of replicas, delay and history limit.
THEOREM PromotionAfterPauseHolds ==
    ASSUME ~Faults
    PROVE  Spec => PromotionAfterPause
<1>1. Init => PromotedOrHeld
  BY DEF Init, PromotedOrHeld
<1>2. TypeOK /\ PromotedOrHeld /\ [Next]_vars => PromotedOrHeld'
  BY NextPromotedOrHeld
<1>3. TypeOK /\ PromotedOrHeld /\ [Next]_vars
        => [HasPreview /\ activeSel # NoHash /\ activeSel' # activeSel
              => approved = activeSel']_vars
  BY NextPromotion
<1>4. QED
  BY <1>1, <1>2, <1>3, TypeCorrect, PTL DEF Spec, PromotionAfterPause

=============================================================================
