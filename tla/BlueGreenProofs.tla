-------------------------- MODULE BlueGreenProofs --------------------------
(***************************************************************************)
(* Proofs about the blue/green reconciler of BlueGreen, for every value of *)
(* its constants.                                                          *)
(***************************************************************************)
EXTENDS BlueGreen, TLAPS

\* The part of TypeOK that a reconcile writes: the ReplicaSets, the
\* Services and the status.
CtrlTypeOK ==
    /\ rsSet \in SUBSET Revs
    /\ rsOlder \in SUBSET (Revs \X Revs)
    /\ rsReplicas \in [Revs -> Counts]
    /\ rsAvailable \in [Revs -> Counts]
    /\ rsDesired \in [Revs -> Counts]
    /\ activeSel \in Hashes
    /\ previewSel \in Hashes
    /\ stActive \in Hashes
    /\ sdAge \in Ages
    /\ pauseSet \in BOOLEAN
    /\ paused \in BOOLEAN

StatusTypeOK ==
    /\ stActive \in Hashes
    /\ sdAge \in Ages
    /\ pauseSet \in BOOLEAN
    /\ paused \in BOOLEAN

\* The initial state is well typed.
LEMMA InitTypeOK == Init => TypeOK
<1>. SUFFICES ASSUME Init PROVE TypeOK
  OBVIOUS
<1>1. Unset \in Ages /\ 0 \in Counts
  BY ReplicasAssumption, DelayAssumption DEF Ages, Counts, Unset
<1>2. template \in Revs /\ replicas \in 1..MaxReplicas /\ edits \in 0..MaxEdits
  BY RevsAssumption, EditsAssumption DEF Init
<1>3. /\ rsReplicas \in [Revs -> Counts]
      /\ rsAvailable \in [Revs -> Counts]
      /\ rsDesired \in [Revs -> Counts]
      /\ retiredAge \in [Revs -> Ages]
  BY <1>1 DEF Init
<1>4. QED
  BY <1>1, <1>2, <1>3 DEF Init, TypeOK, Hashes

\* scaleReplicaSetAndRecordEvent writes a count in range.
LEMMA ScaleRSsType ==
    ASSUME TypeOK, NEW S, NEW n \in Counts, ScaleRSs(S, n)
    PROVE  /\ rsReplicas' \in [Revs -> Counts]
           /\ rsDesired' \in [Revs -> Counts]
BY ReplicasAssumption DEF ScaleRSs, TypeOK, Counts

\* The status written by syncRolloutStatusBlueGreen, or left as it was.
LEMMA PersistType ==
    ASSUME TypeOK, NEW addPause \in BOOLEAN, NEW a \in Hashes,
           Persist(addPause, a)
    PROVE  StatusTypeOK'
<1>1. CASE syncRolloutStatusBlueGreen(addPause, a)
  BY <1>1, DelayAssumption
  DEF syncRolloutStatusBlueGreen, StatusTypeOK, TypeOK, Ages, Unset
<1>2. CASE Faults /\ UNCHANGED statusVars
  BY <1>2 DEF statusVars, StatusTypeOK, TypeOK
<1>3. QED
  BY <1>1, <1>2 DEF Persist

\* The replicas a reconcile writes are in range.
LEMMA ReplicasInCounts == TypeOK => replicas \in Counts /\ 0 \in Counts
BY ReplicasAssumption DEF TypeOK, Counts

\* Each path of rolloutBlueGreen keeps the written state well typed.
LEMMA RolloutType ==
    ASSUME TypeOK, rolloutBlueGreen
    PROVE  CtrlTypeOK'
<1>. USE DEF TypeOK, CtrlTypeOK, StatusTypeOK
<1>0. replicas \in Counts /\ 0 \in Counts /\ template \in Hashes
      /\ activeSel \in Hashes
  BY ReplicasInCounts DEF Hashes
<1>1. CASE CreateNewRS
  BY <1>0, <1>1, ScaleRSsType, PersistType DEF CreateNewRS, svcVars
<1>2. CASE ScaleNewRS
  BY <1>0, <1>2, ScaleRSsType, PersistType DEF ScaleNewRS, svcVars
<1>3. CASE WaitSaturated
  BY <1>0, <1>3, PersistType DEF WaitSaturated, rsVars, svcVars
<1>4. CASE SwitchPreview
  BY <1>0, <1>4, PersistType DEF SwitchPreview, rsVars
<1>5. CASE PauseBeforeSwitchActive
  BY <1>0, <1>5, PersistType DEF PauseBeforeSwitchActive, rsVars, svcVars
<1>6. CASE SwitchActive
  BY <1>0, <1>6, PersistType DEF SwitchActive, rsVars
<1>7. CASE ScaleDownDelayWait
  BY <1>0, <1>7, PersistType DEF ScaleDownDelayWait, rsVars, svcVars
<1>8. CASE ScaleDownOld
  <2>1. rsReplicas' \in [Revs -> Counts] /\ rsDesired' \in [Revs -> Counts]
    BY <1>0, <1>8, ScaleRSsType DEF ScaleDownOld
  <2>2. StatusTypeOK'
    BY <1>0, <1>8, PersistType DEF ScaleDownOld, statusVars
  <2>3. QED
    BY <1>8, <2>1, <2>2 DEF ScaleDownOld, svcVars
<1>9. CASE Complete
  <2>1. CASE RolloutComplete
    BY <1>0, <1>9, <2>1, PersistType DEF Complete, CleanupRollouts, svcVars
  <2>2. CASE ~RolloutComplete
    BY <1>0, <1>9, <2>2, PersistType DEF Complete, rsVars, svcVars
  <2>3. QED
    BY <2>1, <2>2
<1>10. QED
  BY <1>1, <1>2, <1>3, <1>4, <1>5, <1>6, <1>7, <1>8, <1>9
  DEF rolloutBlueGreen

\* syncReplicasOnly (scaleBlueGreen) keeps the written state well typed.
LEMMA ScaleType ==
    ASSUME TypeOK, syncReplicasOnly
    PROVE  CtrlTypeOK'
<1>. USE DEF TypeOK, CtrlTypeOK, StatusTypeOK
<1>0. replicas \in Counts /\ 0 \in Counts /\ activeSel \in Hashes
  BY ReplicasInCounts
<1>1. ASSUME NEW h, ScaleOne(h) PROVE CtrlTypeOK'
  BY <1>0, <1>1, ScaleRSsType, PersistType DEF ScaleOne, syncReplicasOnly, svcVars
<1>2. ASSUME NEW S, ScaleRSs(S, 0), Persist(FALSE, activeSel)
      PROVE  CtrlTypeOK'
  BY <1>0, <1>2, <1>1, ScaleRSsType, PersistType DEF syncReplicasOnly, svcVars
<1>3. ASSUME NEW S, ScaleRSs(S, 0), UNCHANGED statusVars PROVE CtrlTypeOK'
  BY <1>0, <1>3, ScaleRSsType DEF syncReplicasOnly, svcVars, statusVars
<1>4. QED
  BY <1>1, <1>2, <1>3 DEF syncReplicasOnly, scaleBlueGreen

\* A reconcile keeps the whole state well typed.
LEMMA ReconcileType == TypeOK /\ Reconcile => TypeOK'
<1>. SUFFICES ASSUME TypeOK, Reconcile PROVE TypeOK'
  OBVIOUS
<1>1. CtrlTypeOK'
  BY RolloutType, ScaleType DEF Reconcile
<1>2. retiredAge' \in [Revs -> Ages]
  BY DelayAssumption DEF Reconcile, RecordActive, TypeOK, Ages, Unset
<1>3. approved' \in Hashes
  BY <1>1 DEF Reconcile, TypeOK, CtrlTypeOK, Hashes
<1>4. QED
  BY <1>1, <1>2, <1>3 DEF Reconcile, TypeOK, CtrlTypeOK

\* The ReplicaSet controller, the clock and the user keep the state well
\* typed.
LEMMA EnvironmentType == TypeOK /\ Environment => TypeOK'
<1>. SUFFICES ASSUME TypeOK, Environment PROVE TypeOK'
  OBVIOUS
<1>1. ASSUME NEW h \in Revs, PodReady(h) PROVE TypeOK'
  <2>1. rsAvailable' \in [Revs -> Counts]
    BY <1>1, ReplicasAssumption DEF PodReady, TypeOK, Counts
  <2>2. QED
    BY <1>1, <2>1 DEF PodReady, TypeOK, specVars, svcVars, statusVars, historyVars
<1>2. ASSUME NEW h \in Revs, PodGone(h) PROVE TypeOK'
  <2>1. rsAvailable' \in [Revs -> Counts]
    BY <1>2, ReplicasAssumption DEF PodGone, TypeOK, Counts
  <2>2. QED
    BY <1>2, <2>1 DEF PodGone, TypeOK, specVars, svcVars, statusVars, historyVars
<1>3. CASE Tick
  BY <1>3, DelayAssumption DEF Tick, Older, TypeOK, Ages, Unset, specVars, rsVars, svcVars
<1>4. ASSUME NEW h \in Revs, SetTemplate(h) PROVE TypeOK'
  BY <1>4, EditsAssumption DEF SetTemplate, TypeOK, rsVars, svcVars, statusVars, historyVars
<1>5. ASSUME NEW n \in 1..MaxReplicas, SetReplicas(n) PROVE TypeOK'
  BY <1>5, EditsAssumption DEF SetReplicas, TypeOK, rsVars, svcVars, statusVars, historyVars
<1>6. CASE UserPause
  BY <1>6, EditsAssumption DEF UserPause, TypeOK, rsVars, svcVars, historyVars
<1>7. CASE UserResume
  BY <1>7 DEF UserResume, TypeOK, rsVars, svcVars
<1>8. QED
  BY <1>1, <1>2, <1>3, <1>4, <1>5, <1>6, <1>7 DEF Environment

\* TypeOK is inductive.
LEMMA NextType == TypeOK /\ [Next]_vars => TypeOK'
<1>1. CASE Next
  BY <1>1, ReconcileType, EnvironmentType DEF Next
<1>2. CASE UNCHANGED vars
  BY <1>2 DEF vars, TypeOK
<1>3. QED
  BY <1>1, <1>2

\* Every reachable state of the controller and its cluster is well typed:
\* the counts the reconciles and the ReplicaSet controller write stay
\* within 0..MaxReplicas, and the delay timestamps within their range.
THEOREM TypeCorrect == Spec => []TypeOK
BY InitTypeOK, NextType, PTL DEF Spec

-----------------------------------------------------------------------------
(* The Services keep serving.  ServedRSsKeepPods alone is not inductive: a *)
(* step of scaleDownOld could scale an rs the preview Service still        *)
(* selects, unless the preview selector is known to be unset without a     *)
(* preview Service (ScaleDownOld only checks it when HasPreview).          *)

PreviewUnused == ~HasPreview => previewSel = NoHash

IInv == TypeOK /\ ServedRSsKeepPods /\ PreviewUnused

Served == {activeSel, previewSel} \ {NoHash}

\* A scale that leaves the Services alone, keeps every existing rs, and
\* sizes the served rss to a positive count or not at all, keeps them served.
LEMMA ScaleKeepsServed ==
    ASSUME IInv, NEW S, NEW n \in Nat, ScaleRSs(S, n),
           n > 0 \/ S \cap Served = {},
           rsSet \subseteq rsSet', UNCHANGED svcVars
    PROVE  ServedRSsKeepPods'
BY DEF IInv, ServedRSsKeepPods, ScaleRSs, Served, svcVars, Existing, TypeOK

\* A step that leaves the rss and the Services alone keeps them served.
LEMMA FrameKeepsServed ==
    ASSUME IInv, UNCHANGED <<rsVars, svcVars>>
    PROVE  ServedRSsKeepPods' /\ PreviewUnused'
BY DEF IInv, ServedRSsKeepPods, PreviewUnused, rsVars, svcVars, Existing

\* Each path of rolloutBlueGreen keeps the Services served.
LEMMA RolloutServed ==
    ASSUME IInv, rolloutBlueGreen
    PROVE  ServedRSsKeepPods' /\ PreviewUnused'
<1>. replicas \in Nat /\ replicas > 0
  BY ReplicasAssumption DEF IInv, TypeOK
<1>1. CASE CreateNewRS \/ ScaleNewRS
  BY <1>1, ScaleKeepsServed DEF CreateNewRS, ScaleNewRS, svcVars, IInv, PreviewUnused
<1>2. CASE WaitSaturated \/ PauseBeforeSwitchActive \/ ScaleDownDelayWait
  BY <1>2, FrameKeepsServed DEF WaitSaturated, PauseBeforeSwitchActive,
                                ScaleDownDelayWait
<1>3. CASE SwitchPreview \/ SwitchActive
  BY <1>3, ReplicasAssumption
  DEF SwitchPreview, SwitchActive, NewRSAtTarget, PausePassed, PreviewPassed,
      IsSaturated, IInv, ServedRSsKeepPods, PreviewUnused, rsVars, Existing
<1>4. CASE ScaleDownOld
  <2>1. activeSel = template /\ previewSel \in {template, NoHash}
    BY <1>4 DEF ScaleDownOld, DelayPassed, ActivePassed, PausePassed,
                PreviewPassed, IInv, PreviewUnused
  <2>2. OldWithPods \cap Served = {}
    BY <2>1 DEF OldWithPods, OldRSs, Served
  <2>3. \A k : OldestOf(OldWithPods, k) \subseteq OldWithPods
    BY DEF OldestOf
  <2>4. QED
    BY <1>4, <2>2, <2>3, ScaleKeepsServed
    DEF ScaleDownOld, svcVars, IInv, PreviewUnused
<1>5. CASE Complete
  <2>1. CASE RolloutComplete
    <3>1. ServedRSsKeepPods'
      BY <1>5, <2>1 DEF Complete, CleanupRollouts, svcVars, IInv,
                        ServedRSsKeepPods, Existing, TypeOK
    <3>2. QED
      BY <1>5, <3>1 DEF Complete, svcVars, IInv, PreviewUnused
  <2>2. CASE ~RolloutComplete
    BY <1>5, <2>2, FrameKeepsServed DEF Complete
  <2>3. QED
    BY <2>1, <2>2
<1>6. QED
  BY <1>1, <1>2, <1>3, <1>4, <1>5 DEF rolloutBlueGreen

\* scaleBlueGreen sizes the rss it keeps to the rollout's replicas and
\* scales down only rss neither Service selects.
LEMMA ScaleServed ==
    ASSUME IInv, syncReplicasOnly
    PROVE  ServedRSsKeepPods' /\ PreviewUnused'
<1>. replicas \in Nat /\ replicas > 0
  BY ReplicasAssumption DEF IInv, TypeOK
<1>1. UNCHANGED svcVars /\ rsSet' = rsSet
  BY DEF syncReplicasOnly, svcVars
<1>2. PreviewUnused'
  BY <1>1 DEF IInv, PreviewUnused, svcVars
<1>3. ASSUME NEW h, ScaleOne(h) PROVE ServedRSsKeepPods'
  BY <1>1, <1>3, ScaleKeepsServed DEF ScaleOne
<1>4. ASSUME NEW S, S \cap Served = {}, ScaleRSs(S, 0)
      PROVE  ServedRSsKeepPods'
  BY <1>1, <1>4, ScaleKeepsServed
<1>5. DEFINE stray == {h \in OldRSs : rsReplicas[h] > 0
                                     /\ h \notin {activeSel, previewSel}}
<1>6. stray \cap Served = {}
  BY DEF Served
<1>7. ServedRSsKeepPods'
  BY <1>3, <1>4, <1>6 DEF syncReplicasOnly, scaleBlueGreen
<1>8. QED
  BY <1>2, <1>7

\* The environment touches neither the rss' sizes nor the Services.
LEMMA EnvironmentServed ==
    ASSUME IInv, Environment
    PROVE  ServedRSsKeepPods' /\ PreviewUnused'
<1>1. UNCHANGED <<rsSet, rsReplicas, svcVars>>
  BY DEF Environment, PodReady, PodGone, Tick, SetTemplate, SetReplicas,
         UserPause, UserResume, rsVars, svcVars
<1>2. QED
  BY <1>1 DEF IInv, ServedRSsKeepPods, PreviewUnused, svcVars, Existing

\* IInv is inductive.
LEMMA NextIInv == IInv /\ [Next]_vars => IInv'
<1>. SUFFICES ASSUME IInv, [Next]_vars PROVE IInv'
  OBVIOUS
<1>1. TypeOK'
  BY NextType DEF IInv
<1>2. CASE Reconcile
  BY <1>1, <1>2, RolloutServed, ScaleServed DEF Reconcile, IInv
<1>3. CASE Environment
  BY <1>1, <1>3, EnvironmentServed DEF IInv
<1>4. CASE UNCHANGED vars
  BY <1>1, <1>4 DEF vars, IInv, ServedRSsKeepPods, PreviewUnused, Existing
<1>5. QED
  BY <1>2, <1>3, <1>4 DEF Next

\* The active and the preview Service only ever select an rs that exists
\* and has pods, in every run of the reconciler (scaleBlueGreen,
\* scaleDownOldReplicaSetsForBlueGreen, cleanupRollouts) with every
\* interleaving of user edits, pod changes, lost status writes and partial
\* scale-downs.
THEOREM ServicesKeepServing == Spec => []ServedRSsKeepPods
<1>1. Init => IInv
  BY InitTypeOK DEF Init, IInv, ServedRSsKeepPods, PreviewUnused
<1>2. IInv => ServedRSsKeepPods
  BY DEF IInv
<1>3. QED
  BY <1>1, <1>2, NextIInv, PTL DEF Spec

=============================================================================
