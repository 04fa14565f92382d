----------------------------- MODULE BlueGreen -----------------------------
(***************************************************************************)
(* The blue/green reconciler of the rollout controller                     *)
(* (src/controller/bluegreen.go) for one Rollout, together with the        *)
(* cluster it drives: the ReplicaSets of every pod-template revision, the  *)
(* active and preview Services, the Rollout's spec (written by the user)   *)
(* and its status (written by the controller).                             *)
(*                                                                         *)
(* The work queue hands a rollout key to at most one worker at a time, so  *)
(* one reconcile is one atomic step (Reconcile).  Between two reconciles   *)
(* the ReplicaSet controller brings pods up and down, the clock advances   *)
(* and the user edits the spec.  With Faults, a reconcile may stop after   *)
(* its cluster writes without writing the status (an API error or a crash  *)
(* of the controller between the two), and the scale-down loops may stop   *)
(* part way.                                                               *)
(*                                                                         *)
(* Time is kept as ages: a timestamp t is represented by now - t, capped   *)
(* at ScaleDownDelaySeconds, which is the only duration the code compares  *)
(* a timestamp with.                                                       *)
(***************************************************************************)
EXTENDS Naturals, FiniteSets, FiniteSetsExt

CONSTANTS
    Revs,                  \* pod-template hashes the user may deploy
    NoHash,                \* a Service selector without the pod-hash label
    InitRev,               \* hash of the template the Rollout is created with
    MaxReplicas,           \* largest spec.replicas the user sets
    ScaleDownDelaySeconds, \* spec.strategy.blueGreen.scaleDownDelaySeconds
    RevisionHistoryLimit,  \* spec.revisionHistoryLimit
    HasPreview,            \* spec.strategy.blueGreen.previewService is set
    MaxEdits,              \* bound on the user's edits of the spec
    Faults                 \* writes may fail part way

ASSUME RevsAssumption == NoHash \notin Revs /\ InitRev \in Revs
ASSUME ReplicasAssumption == MaxReplicas \in Nat \ {0}
ASSUME DelayAssumption == ScaleDownDelaySeconds \in Nat
ASSUME LimitAssumption == RevisionHistoryLimit \in Nat
ASSUME FlagsAssumption == HasPreview \in BOOLEAN /\ Faults \in BOOLEAN
ASSUME EditsAssumption == MaxEdits \in Nat

VARIABLES
    template,     \* hash of spec.template
    replicas,     \* spec.replicas
    paused,       \* spec.paused
    rsSet,        \* the hashes of the ReplicaSets that exist
    rsOlder,      \* <<a, b>>: rs a was created before rs b
    rsReplicas,   \* rs.Spec.Replicas
    rsAvailable,  \* rs.Status.AvailableReplicas
    rsDesired,    \* the rs's desired-replicas annotation
    activeSel,    \* the active Service's pod-hash selector
    previewSel,   \* the preview Service's pod-hash selector
    stActive,     \* status.blueGreen.activeSelector
    sdAge,        \* age of status.blueGreen.scaleDownDelayStartTime
    pauseSet,     \* status.pauseStartTime # nil
    edits,        \* number of user edits so far
    retiredAge,   \* history: age since the active Service stopped selecting h
    approved      \* history: the revision the user last promoted from a pause

specVars    == <<template, replicas, paused, edits>>
rsVars      == <<rsSet, rsOlder, rsReplicas, rsAvailable, rsDesired>>
svcVars     == <<activeSel, previewSel>>
statusVars  == <<stActive, sdAge, pauseSet, paused>>
historyVars == <<retiredAge, approved>>
vars == <<template, replicas, paused, rsSet, rsOlder, rsReplicas,
          rsAvailable, rsDesired, activeSel, previewSel, stActive, sdAge, pauseSet,
          edits, retiredAge, approved>>

Unset == -1                              \* a nil timestamp
Ages == {Unset} \cup 0..ScaleDownDelaySeconds
Hashes == Revs \cup {NoHash}
Counts == 0..MaxReplicas

TypeOK ==
    /\ template \in Revs
    /\ replicas \in 1..MaxReplicas
    /\ paused \in BOOLEAN
    /\ rsSet \in SUBSET Revs
    /\ rsOlder \in SUBSET (Revs \X Revs)
    /\ rsReplicas \in [Revs -> Counts]
    /\ rsAvailable \in [Revs -> Counts]
    /\ rsDesired \in [Revs -> Counts]
    /\ activeSel \in Hashes
    /\ previewSel \in Hashes
    /\ stActive \in Hashes
    /\ sdAge \in Ages
    /\ pauseSet \in BOOLEAN
    /\ edits \in 0..MaxEdits
    /\ retiredAge \in [Revs -> Ages]
    /\ approved \in Hashes

-----------------------------------------------------------------------------
(* Reads the reconcile makes of the cluster.                               *)

Existing == rsSet

\* The k oldest rss of L (ReplicaSetsByCreationTimestamp).
OldestOf(L, k) == {h \in L : Cardinality({g \in L : <<g, h>> \in rsOlder}) < k}
OldRSs == Existing \ {template}
SumReplicas(S) == MapThenSumSet(LAMBDA h : rsReplicas[h], S)
SumAvailable(S) == MapThenSumSet(LAMBDA h : rsAvailable[h], S)
OldPodsCount == SumReplicas(OldRSs)

\* annotations.IsSaturated: the rs runs, and has available, what the rollout asks.
IsSaturated(h) ==
    /\ h \in Existing
    /\ rsDesired[h] = replicas
    /\ rsReplicas[h] = replicas
    /\ rsAvailable[h] = replicas

\* isScalingEvent: an rs with pods was sized for another spec.replicas.
IsScalingEvent ==
    \E h \in Existing : rsReplicas[h] > 0 /\ rsDesired[h] # replicas

\* the rs created last
Newest == CHOOSE h \in Existing : \A g \in Existing \ {h} : <<g, h>> \in rsOlder

\* replicasetutil.FindActiveOrLatest: the only rs with pods; the newest rs
\* when none has pods; NoHash when several have pods.
FindActiveOrLatest ==
    LET withPods == {h \in Existing : rsReplicas[h] > 0}
    IN  IF Cardinality(withPods) = 1 THEN CHOOSE h \in withPods : TRUE
        ELSE IF withPods # {} THEN NoHash
        ELSE IF template \in Existing THEN template
        ELSE IF Existing # {} THEN Newest
        ELSE NoHash

\* reconcileBlueGreenPause: hold before switching the active Service.
reconcileBlueGreenPause ==
    /\ HasPreview
    /\ activeSel # NoHash
    /\ paused /\ pauseSet

\* reconcileScaleDownDelay: TRUE while the old rss must keep their pods.
reconcileScaleDownDelay ==
    /\ OldPodsCount # 0
    /\ \/ sdAge = Unset
       \/ sdAge < ScaleDownDelaySeconds

\* RolloutComplete: the new rs is saturated and no other rs has pods.
RolloutComplete ==
    /\ IsSaturated(template)
    /\ SumAvailable(Existing) = replicas
    /\ OldPodsCount = 0

-----------------------------------------------------------------------------
(* Writes.                                                                 *)

\* scaleReplicaSetAndRecordEvent on every rs of S: size n, annotated with
\* the rollout's replicas.
ScaleRSs(S, n) ==
    /\ rsReplicas' = [h \in Revs |-> IF h \in S THEN n ELSE rsReplicas[h]]
    /\ rsDesired' = [h \in Revs |-> IF h \in S THEN replicas ELSE rsDesired[h]]

\* Mutation: calculatePauseStatus forgets to set spec.paused.
syncRolloutStatusBlueGreenNoPause(addPause, activeAfter) ==
    LET start   == IF activeAfter = template /\ sdAge = Unset THEN 0 ELSE sdAge
        pStart  == (pauseSet /\ paused) \/ addPause
    IN  /\ stActive' = activeAfter
        /\ sdAge' = IF activeAfter # template \/ OldPodsCount = 0
                    THEN Unset ELSE start
        /\ pauseSet' = pStart
        /\ paused' = paused

\* Mutation: scaleDownDelayStartTime is never started (lines 191-194 lost).
syncRolloutStatusBlueGreenNoStart(addPause, activeAfter) ==
    LET pStart  == (pauseSet /\ paused) \/ addPause
    IN  /\ stActive' = activeAfter
        /\ sdAge' = IF activeAfter # template \/ OldPodsCount = 0
                    THEN Unset ELSE sdAge
        /\ pauseSet' = pStart
        /\ paused' = (paused \/ addPause)

\* calculatePauseStatus and the status part of syncRolloutStatusBlueGreen,
\* written by persistRolloutStatus (which also writes spec.paused).
syncRolloutStatusBlueGreen(addPause, activeAfter) ==
    LET start   == IF activeAfter = template /\ sdAge = Unset THEN 0 ELSE sdAge
        pStart  == (pauseSet /\ paused) \/ addPause
    IN  /\ stActive' = activeAfter
        /\ sdAge' = IF activeAfter # template \/ OldPodsCount = 0
                    THEN Unset ELSE start
        /\ pauseSet' = pStart
        /\ paused' = (paused \/ addPause)

\* The status write succeeds, or (with Faults) it is lost.
Persist(addPause, activeAfter) ==
    \/ syncRolloutStatusBlueGreen(addPause, activeAfter)
    \/ Faults /\ UNCHANGED statusVars

-----------------------------------------------------------------------------
(* rolloutBlueGreen, one action per path through it.  Each path ends in    *)
(* its own early return; the stages it passes are the guards.              *)

NewRSAtTarget == template \in Existing /\ rsReplicas[template] = replicas
PreviewPassed ==
    /\ NewRSAtTarget
    /\ HasPreview => IsSaturated(template) /\ previewSel = template
PausePassed == PreviewPassed /\ ~reconcileBlueGreenPause
ActivePassed == PausePassed /\ IsSaturated(template) /\ activeSel = template
DelayPassed == ActivePassed /\ ~reconcileScaleDownDelay

\* the old rss with pods
OldWithPods == {h \in OldRSs : rsReplicas[h] > 0}

\* getAllReplicaSetsAndSyncRevision creates the new rs; it has no available
\* pod yet, so the reconcile stops at the first saturation check.
CreateNewRS ==
    /\ template \notin Existing
    /\ rsSet' = rsSet \cup {template}
    /\ rsOlder' = rsOlder \cup (rsSet \X {template})
    /\ ScaleRSs({template}, replicas)
    /\ Persist(FALSE, activeSel)
    /\ UNCHANGED <<rsAvailable, svcVars>>

\* Mutation: the new rs is sized one above the rollout's replicas.
ScaleNewRSOffByOne ==
    /\ template \in Existing
    /\ rsReplicas[template] # replicas
    /\ ScaleRSs({template}, replicas + 1)
    /\ Persist(FALSE, activeSel)
    /\ UNCHANGED <<rsSet, rsOlder, rsAvailable, svcVars>>

\* reconcileNewReplicaSet sizes the new rs.
ScaleNewRS ==
    /\ template \in Existing
    /\ rsReplicas[template] # replicas
    /\ ScaleRSs({template}, replicas)
    /\ Persist(FALSE, activeSel)
    /\ UNCHANGED <<rsSet, rsOlder, rsAvailable, svcVars>>

\* The new rs is not saturated yet (line 45 with a preview Service, line 67
\* without one).
WaitSaturated ==
    /\ NewRSAtTarget
    /\ ~IsSaturated(template)
    /\ Persist(FALSE, activeSel)
    /\ UNCHANGED <<rsVars, svcVars>>

\* reconcilePreviewService points the preview Service at the new rs.
SwitchPreview ==
    /\ HasPreview
    /\ NewRSAtTarget
    /\ IsSaturated(template)
    /\ previewSel # template
    /\ previewSel' = template
    /\ Persist(TRUE, activeSel)
    /\ UNCHANGED <<rsVars, activeSel>>

PauseBeforeSwitchActive ==
    /\ PreviewPassed
    /\ reconcileBlueGreenPause
    /\ Persist(TRUE, activeSel)
    /\ UNCHANGED <<rsVars, svcVars>>

\* reconcileActiveService points the active Service at the new rs.
SwitchActive ==
    /\ PausePassed
    /\ IsSaturated(template)
    /\ activeSel # template
    /\ activeSel' = template
    /\ Persist(FALSE, template)
    /\ UNCHANGED <<rsVars, previewSel>>

ScaleDownDelayWait ==
    /\ ActivePassed
    /\ reconcileScaleDownDelay
    /\ Persist(FALSE, activeSel)
    /\ UNCHANGED <<rsVars, svcVars>>

\* reconcileOldReplicaSets and scaleDownOldReplicaSetsForBlueGreen: when
\* more pods are available than the rollout asks, every old rs with pods is
\* scaled to zero, oldest first; an error ends the loop and the reconcile.
ScaleDownOld ==
    LET list == OldWithPods
    IN  /\ DelayPassed
        /\ list # {}
        /\ SumAvailable(Existing) > replicas
        /\ \/ /\ ScaleRSs(list, 0)
              /\ Persist(FALSE, activeSel)
           \/ /\ Faults
              /\ \E k \in 1..(Cardinality(list) - 1) :
                    ScaleRSs(OldestOf(list, k), 0)
              /\ UNCHANGED statusVars
        /\ UNCHANGED <<rsSet, rsOlder, rsAvailable, svcVars>>

\* cleanupRollouts: of the oldest Len(old) - RevisionHistoryLimit old rss,
\* delete the ones without pods.
CleanupRollouts ==
    LET diff == Cardinality(OldRSs) - RevisionHistoryLimit
        gone == {h \in OldestOf(OldRSs, diff) :
                    rsReplicas[h] = 0 /\ rsAvailable[h] = 0}
    IN  /\ rsSet' = rsSet \ gone
        /\ rsOlder' = {p \in rsOlder : p[1] \notin gone /\ p[2] \notin gone}
        /\ rsReplicas' = [h \in Revs |-> IF h \in gone THEN 0 ELSE rsReplicas[h]]
        /\ rsDesired' = [h \in Revs |-> IF h \in gone THEN 0 ELSE rsDesired[h]]
        /\ UNCHANGED rsAvailable

\* The reconcile passes every stage and confirms completion.
Complete ==
    /\ DelayPassed
    /\ OldWithPods = {} \/ SumAvailable(Existing) <= replicas
    /\ IF RolloutComplete THEN CleanupRollouts ELSE UNCHANGED rsVars
    /\ Persist(FALSE, activeSel)
    /\ UNCHANGED svcVars

rolloutBlueGreen ==
    /\ ~IsScalingEvent
    /\ \/ CreateNewRS \/ ScaleNewRS \/ WaitSaturated \/ SwitchPreview
       \/ PauseBeforeSwitchActive \/ SwitchActive \/ ScaleDownDelayWait
       \/ ScaleDownOld \/ Complete

-----------------------------------------------------------------------------
(* syncReplicasOnly: scaleBlueGreen, then the status.  Each of its first   *)
(* three branches sizes one rs and returns.                                *)

ScaleOne(h) ==
    /\ h \in Existing
    /\ rsReplicas[h] # replicas
    /\ ScaleRSs({h}, replicas)
    /\ Persist(FALSE, activeSel)

\* Mutation: line 246 forgets the preview Service.
scaleBlueGreenNoPreviewGuard ==
    LET aol == FindActiveOrLatest
        activeRS == IF stActive \in Existing THEN stActive ELSE NoHash
        stray == {h \in OldRSs : rsReplicas[h] > 0
                                  /\ h # activeSel}
    IN  \/ ScaleOne(aol)
        \/ /\ ~(aol \in Existing /\ rsReplicas[aol] # replicas)
           /\ ScaleOne(activeRS)
        \/ /\ ~(aol \in Existing /\ rsReplicas[aol] # replicas)
           /\ ~(activeRS \in Existing /\ rsReplicas[activeRS] # replicas)
           /\ ScaleOne(template)
        \/ /\ ~(aol \in Existing /\ rsReplicas[aol] # replicas)
           /\ ~(activeRS \in Existing /\ rsReplicas[activeRS] # replicas)
           /\ ~(template \in Existing /\ rsReplicas[template] # replicas)
           /\ \/ /\ ScaleRSs(stray, 0)
                 /\ Persist(FALSE, activeSel)
              \/ /\ Faults
                 /\ \E S \in SUBSET stray : S # {} /\ S # stray
                                            /\ ScaleRSs(S, 0)
                 /\ UNCHANGED statusVars

scaleBlueGreen ==
    LET aol == FindActiveOrLatest
        activeRS == IF stActive \in Existing THEN stActive ELSE NoHash
        stray == {h \in OldRSs : rsReplicas[h] > 0
                                  /\ h \notin {activeSel, previewSel}}
    IN  \/ ScaleOne(aol)
        \/ /\ ~(aol \in Existing /\ rsReplicas[aol] # replicas)
           /\ ScaleOne(activeRS)
        \/ /\ ~(aol \in Existing /\ rsReplicas[aol] # replicas)
           /\ ~(activeRS \in Existing /\ rsReplicas[activeRS] # replicas)
           /\ ScaleOne(template)
        \/ /\ ~(aol \in Existing /\ rsReplicas[aol] # replicas)
           /\ ~(activeRS \in Existing /\ rsReplicas[activeRS] # replicas)
           /\ ~(template \in Existing /\ rsReplicas[template] # replicas)
           /\ \/ /\ ScaleRSs(stray, 0)
                 /\ Persist(FALSE, activeSel)
              \/ /\ Faults
                 /\ \E S \in SUBSET stray : S # {} /\ S # stray
                                            /\ ScaleRSs(S, 0)
                 /\ UNCHANGED statusVars

syncReplicasOnly ==
    /\ IsScalingEvent
    /\ scaleBlueGreen
    /\ UNCHANGED <<rsSet, rsOlder, rsAvailable, svcVars>>

-----------------------------------------------------------------------------
(* One reconcile of the rollout key.                                       *)

\* retiredAge follows the active Service's selector.
RecordActive ==
    retiredAge' = [h \in Revs |->
                     IF h = activeSel' THEN Unset
                     ELSE IF h = activeSel /\ activeSel' # activeSel THEN 0
                     ELSE retiredAge[h]]

Reconcile ==
    /\ rolloutBlueGreen \/ syncReplicasOnly
    /\ RecordActive
    /\ approved' = IF activeSel' # activeSel THEN NoHash ELSE approved
    /\ UNCHANGED <<template, replicas, edits>>

-----------------------------------------------------------------------------
(* The environment.                                                        *)

\* The ReplicaSet controller and kubelet start one pod, or stop one.
PodReady(h) ==
    /\ h \in Existing
    /\ rsAvailable[h] < rsReplicas[h]
    /\ rsAvailable' = [rsAvailable EXCEPT ![h] = @ + 1]
    /\ UNCHANGED <<specVars, rsSet, rsOlder, rsReplicas, rsDesired, svcVars,
                   statusVars, historyVars>>

PodGone(h) ==
    /\ rsAvailable[h] > rsReplicas[h]
    /\ rsAvailable' = [rsAvailable EXCEPT ![h] = @ - 1]
    /\ UNCHANGED <<specVars, rsSet, rsOlder, rsReplicas, rsDesired, svcVars,
                   statusVars, historyVars>>

Older(a) == IF a = Unset \/ a >= ScaleDownDelaySeconds THEN a ELSE a + 1

Tick ==
    /\ \/ sdAge \notin {Unset, ScaleDownDelaySeconds}
       \/ \E h \in Revs : retiredAge[h] \notin {Unset, ScaleDownDelaySeconds}
    /\ sdAge' = Older(sdAge)
    /\ retiredAge' = [h \in Revs |-> Older(retiredAge[h])]
    /\ UNCHANGED <<specVars, rsVars, svcVars, stActive, pauseSet, approved>>

\* The user edits the spec.
SetTemplate(h) ==
    /\ edits < MaxEdits
    /\ h # template
    /\ template' = h
    /\ edits' = edits + 1
    /\ UNCHANGED <<replicas, paused, rsVars, svcVars, statusVars, historyVars>>

SetReplicas(n) ==
    /\ edits < MaxEdits
    /\ n # replicas
    /\ replicas' = n
    /\ edits' = edits + 1
    /\ UNCHANGED <<template, paused, rsVars, svcVars, statusVars, historyVars>>

UserPause ==
    /\ edits < MaxEdits
    /\ ~paused
    /\ paused' = TRUE
    /\ edits' = edits + 1
    /\ UNCHANGED <<template, replicas, rsVars, svcVars, stActive, sdAge,
                   pauseSet, historyVars>>

\* The user promotes: spec.paused becomes false.
UserResume ==
    /\ paused
    /\ paused' = FALSE
    /\ approved' = IF pauseSet THEN previewSel ELSE approved
    /\ UNCHANGED <<template, replicas, edits, rsVars, svcVars, stActive,
                   sdAge, pauseSet, retiredAge>>

Environment ==
    \/ \E h \in Revs : PodReady(h) \/ PodGone(h)
    \/ Tick
    \/ \E h \in Revs : SetTemplate(h)
    \/ \E n \in 1..MaxReplicas : SetReplicas(n)
    \/ UserPause
    \/ UserResume

-----------------------------------------------------------------------------

Init ==
    /\ template = InitRev
    /\ replicas \in 1..MaxReplicas
    /\ paused = FALSE
    /\ rsSet = {}
    /\ rsOlder = {}
    /\ rsReplicas = [h \in Revs |-> 0]
    /\ rsAvailable = [h \in Revs |-> 0]
    /\ rsDesired = [h \in Revs |-> 0]
    /\ activeSel = NoHash
    /\ previewSel = NoHash
    /\ stActive = NoHash
    /\ sdAge = Unset
    /\ pauseSet = FALSE
    /\ edits = 0
    /\ retiredAge = [h \in Revs |-> Unset]
    /\ approved = NoHash

Next == Reconcile \/ Environment

Spec == Init /\ [][Next]_vars

\* The work queue's 30s resync and the requeue at the end of the scale-down
\* delay make the controller reconcile again; the ReplicaSet controller
\* keeps starting and stopping pods; time passes.
Fairness ==
    /\ WF_vars(Reconcile)
    /\ \A h \in Revs : WF_vars(PodReady(h)) /\ WF_vars(PodGone(h))
    /\ WF_vars(Tick)

FairSpec == Spec /\ Fairness

-----------------------------------------------------------------------------
(* Properties.                                                             *)

\* The Services keep serving: the rs the active Service selects, and the rs
\* the preview Service selects, always exists and has pods, whatever order
\* the template edits, scaling events, scale-downs (rolloutBlueGreen line 89,
\* scaleBlueGreen line 247) and cleanupRollouts (line 101) come in.
ServedRSsKeepPods ==
    \A sel \in {activeSel, previewSel} \ {NoHash} :
        sel \in Existing /\ rsReplicas[sel] > 0

\* With a preview Service, the active Service moves from a serving revision
\* to another one only after the user promoted that revision out of the
\* pause that reconcilePreviewService / reconcileBlueGreenPause entered.
PromotionAfterPause ==
    [][HasPreview /\ activeSel # NoHash /\ activeSel' # activeSel
        => approved = activeSel']_vars

\* An rs that the active Service stopped selecting keeps its pods for
\* ScaleDownDelaySeconds (reconcileScaleDownDelay, lines 109-123).
ScaleDownDelayRespected ==
    [][\A h \in Revs :
         rsReplicas[h] > 0 /\ rsReplicas'[h] = 0 /\ retiredAge[h] # Unset
            => retiredAge[h] >= ScaleDownDelaySeconds]_vars

\* spec.md section 3, invariant 2: while the replica count stays put, the
\* controller never sizes the rollout's rss beyond twice its replicas.
TotalReplicas == SumReplicas(Existing)
PodBudget ==
    [][replicas' = replicas /\ TotalReplicas' > TotalReplicas
         => TotalReplicas' <= 2 * replicas]_vars

\* The rollout is healthy: the template's rs is saturated and served, and
\* no other rs has pods.
Healthy ==
    /\ IsSaturated(template)
    /\ activeSel = template
    /\ HasPreview => previewSel = template
    /\ \A h \in OldRSs : rsReplicas[h] = 0 /\ rsAvailable[h] = 0

\* Once the user stops editing, the rollout converges to Healthy, provided
\* the user promotes whenever the rollout is paused.
Converges == WF_vars(UserResume) => <>[]Healthy

=============================================================================
