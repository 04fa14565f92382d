----------------------------- MODULE PodRestart -----------------------------
(***************************************************************************)
(* The pod-restart sweep of the rollout controller (src/rollout/restart.go) *)
(* for one Rollout whose ReplicaSets each run Replicas pods.  When          *)
(* spec.restartAt is set and has passed, each reconcile deletes at most one *)
(* pod created before restartAt, visiting the rss stable first, then the    *)
(* new rs, then the others oldest first, and records status.restartedAt    *)
(* once no such pod is left.                                               *)
(*                                                                         *)
(* Pods are counted per rs: created before restartAt ("old") or after it   *)
(* ("new"), ready or pending, and terminating.  The ReplicaSet controller  *)
(* replaces a terminating pod at once and writes availableReplicas in the  *)
(* same sync; the kubelet makes pods ready and removes terminating ones.   *)
(* The reconcile reads availableReplicas from the rs status, which lags    *)
(* behind the pods until the next sync of that rs.                         *)
(***************************************************************************)
EXTENDS Naturals, FiniteSets, FiniteSetsExt

CONSTANTS
    RS,           \* the rollout's ReplicaSets
    StableRS,     \* the stable rs (or a value outside RS)
    NewRS,        \* the new rs (or a value outside RS)
    Created,      \* creation timestamp of each rs
    Replicas,     \* spec.replicas of every rs
    MaxRestarts,  \* bound on the user's writes of spec.restartAt
    MaxUnready    \* bound on failed readiness probes

ASSUME CreatedAssumption ==
    /\ Created \in [RS -> Nat]
    /\ \A a, b \in RS : a # b => Created[a] # Created[b]
ASSUME PodRestartReplicasAssumption == Replicas \in Nat \ {0}
ASSUME RestartsAssumption == MaxRestarts \in Nat /\ MaxUnready \in Nat

VARIABLES
    oldReady,      \* ready pods created before spec.restartAt
    oldPending,    \* not yet ready pods created before spec.restartAt
    newReady,      \* ready pods created after spec.restartAt
    newPending,    \* not yet ready pods created after spec.restartAt
    terminating,   \* pods with a deletionTimestamp
    statusAvail,   \* rs.Status.AvailableReplicas
    restartGen,    \* spec.restartAt: 0 is nil, each write a larger value
    due,           \* spec.restartAt has passed
    restartedGen,  \* status.restartedAt: the restartAt last completed
    unready        \* number of failed readiness probes so far

podVars == <<oldReady, oldPending, newReady, newPending, terminating>>
vars == <<oldReady, oldPending, newReady, newPending, terminating,
          statusAvail, restartGen, due, restartedGen, unready>>

Counts == [RS -> 0..Replicas]

TypeOK ==
    /\ oldReady \in Counts
    /\ oldPending \in Counts
    /\ newReady \in Counts
    /\ newPending \in Counts
    /\ terminating \in [RS -> Nat]
    /\ statusAvail \in Counts
    /\ restartGen \in 0..MaxRestarts
    /\ due \in BOOLEAN
    /\ restartedGen \in 0..MaxRestarts
    /\ unready \in 0..MaxUnready

-----------------------------------------------------------------------------
(* The reconcile.                                                          *)

\* Mutation: the test that restartAt has passed is dropped.
NeedsRestartIgnoringDue == restartGen # 0 /\ restartedGen # restartGen

\* replicaset.NeedsRestart: restartAt is set, has passed, and differs from
\* status.restartedAt.
NeedsRestart == restartGen # 0 /\ due /\ restartedGen # restartGen

\* Every rs reports all of its replicas available.
AllAvailable == \A r \in RS : statusAvail[r] = Replicas

\* SortReplicaSetsByPriority.Less: stable rs, new rs, then by creation.
Less(a, b) ==
    IF a = StableRS THEN TRUE
    ELSE IF b = StableRS THEN FALSE
    ELSE IF a = NewRS THEN TRUE
    ELSE IF b = NewRS THEN FALSE
    ELSE Created[a] < Created[b]

\* Mutation: the creation-time test of line 98 is dropped, so every pod
\* counts as one to restart.
StopsAnyPod(r) ==
    \/ terminating[r] > 0
    \/ oldReady[r] + oldPending[r] + newReady[r] + newPending[r] > 0

\* reconcilePodsInReplicaSet stops at an rs with a terminating pod or with a
\* pod older than restartAt, and returns false for the others.
Stops(r) == terminating[r] > 0 \/ oldReady[r] + oldPending[r] > 0

\* The rss at which the loop of Reconcile would stop, and the first of
\* them in priority order, the one it does stop at.
Stopping == {r \in RS : Stops(r)}
FirstStop(r) == r \in Stopping /\ \A c \in Stopping \ {r} : Less(r, c)

\* Mutation: the guard that an old pod is there is dropped.
DeleteOldPodUnguarded ==
    /\ NeedsRestart
    /\ AllAvailable
    /\ \E r \in RS :
        /\ FirstStop(r)
        /\ terminating[r] = 0
        /\ oldReady' = [oldReady EXCEPT ![r] = @ - 1]
        /\ terminating' = [terminating EXCEPT ![r] = @ + 1]
    /\ UNCHANGED <<oldPending, newReady, newPending, statusAvail,
                   restartGen, due, restartedGen, unready>>

\* Reconcile, up to the rs it stops at: the sweep is due, every rs is fully
\* available, and that rs has no terminating pod.  Its first pod older than
\* restartAt, ready or not, is deleted.
DeleteOldPod ==
    /\ NeedsRestart
    /\ AllAvailable
    /\ \E r \in RS :
        /\ FirstStop(r)
        /\ terminating[r] = 0
        /\ \/ /\ oldReady[r] > 0
              /\ oldReady' = [oldReady EXCEPT ![r] = @ - 1]
              /\ UNCHANGED oldPending
           \/ /\ oldPending[r] > 0
              /\ oldPending' = [oldPending EXCEPT ![r] = @ - 1]
              /\ UNCHANGED oldReady
        /\ terminating' = [terminating EXCEPT ![r] = @ + 1]
    /\ UNCHANGED <<newReady, newPending, statusAvail, restartGen, due,
                   restartedGen, unready>>

\* Mutation: the loop of Reconcile ends after the first rs in priority
\* order, as if line 71 returned for an rs with nothing to restart.
SetRestartedAtAfterFirst ==
    /\ NeedsRestart
    /\ AllAvailable
    /\ \E r \in RS : /\ \A c \in RS \ {r} : Less(r, c)
                    /\ ~Stops(r)
    /\ restartedGen' = restartGen
    /\ UNCHANGED <<podVars, statusAvail, restartGen, due, unready>>

\* No rs stops the loop: SetRestartedAt, persisted with the status.
SetRestartedAt ==
    /\ NeedsRestart
    /\ AllAvailable
    /\ Stopping = {}
    /\ restartedGen' = restartGen
    /\ UNCHANGED <<podVars, statusAvail, restartGen, due, unready>>

\* The other paths of Reconcile (not due, an rs not fully available, a
\* terminating pod in the rs the loop stops at, a failed List or Delete)
\* change nothing but the work queue.
Reconcile == DeleteOldPod \/ SetRestartedAt

-----------------------------------------------------------------------------
(* The environment.                                                        *)

\* The ReplicaSet controller syncs rs r: it replaces the pods that are gone
\* or terminating, and writes the number of ready pods it counted.
RSSync(r) ==
    LET active  == oldReady[r] + oldPending[r] + newReady[r] + newPending[r]
        missing == Replicas - active
        isOld   == restartGen # 0 /\ ~due
    IN  /\ missing > 0 \/ statusAvail[r] # oldReady[r] + newReady[r]
        /\ IF isOld THEN /\ oldPending' = [oldPending EXCEPT ![r] = @ + missing]
                         /\ UNCHANGED newPending
                    ELSE /\ newPending' = [newPending EXCEPT ![r] = @ + missing]
                         /\ UNCHANGED oldPending
        /\ statusAvail' = [statusAvail EXCEPT ![r] = oldReady[r] + newReady[r]]
        /\ UNCHANGED <<oldReady, newReady, terminating, restartGen, due,
                       restartedGen, unready>>

\* The kubelet: a pending pod becomes ready.
PodReady(r) ==
    /\ \/ /\ oldPending[r] > 0
          /\ oldPending' = [oldPending EXCEPT ![r] = @ - 1]
          /\ oldReady' = [oldReady EXCEPT ![r] = @ + 1]
          /\ UNCHANGED <<newReady, newPending>>
       \/ /\ newPending[r] > 0
          /\ newPending' = [newPending EXCEPT ![r] = @ - 1]
          /\ newReady' = [newReady EXCEPT ![r] = @ + 1]
          /\ UNCHANGED <<oldReady, oldPending>>
    /\ UNCHANGED <<terminating, statusAvail, restartGen, due, restartedGen,
                   unready>>

\* The kubelet: a ready pod fails its readiness probe.
PodUnready(r) ==
    /\ unready < MaxUnready
    /\ unready' = unready + 1
    /\ \/ /\ oldReady[r] > 0
          /\ oldReady' = [oldReady EXCEPT ![r] = @ - 1]
          /\ oldPending' = [oldPending EXCEPT ![r] = @ + 1]
          /\ UNCHANGED <<newReady, newPending>>
       \/ /\ newReady[r] > 0
          /\ newReady' = [newReady EXCEPT ![r] = @ - 1]
          /\ newPending' = [newPending EXCEPT ![r] = @ + 1]
          /\ UNCHANGED <<oldReady, oldPending>>
    /\ UNCHANGED <<terminating, statusAvail, restartGen, due, restartedGen>>

\* The kubelet: a terminating pod is gone.
PodRemoved(r) ==
    /\ terminating[r] > 0
    /\ terminating' = [terminating EXCEPT ![r] = @ - 1]
    /\ UNCHANGED <<oldReady, oldPending, newReady, newPending, statusAvail,
                   restartGen, due, restartedGen, unready>>

\* The user sets spec.restartAt to a time in the future or the past; every
\* pod that exists now was created before it.
SetRestartAt ==
    /\ restartGen < MaxRestarts
    /\ restartGen' = restartGen + 1
    /\ due' \in BOOLEAN
    /\ oldReady' = [r \in RS |-> oldReady[r] + newReady[r]]
    /\ oldPending' = [r \in RS |-> oldPending[r] + newPending[r]]
    /\ newReady' = [r \in RS |-> 0]
    /\ newPending' = [r \in RS |-> 0]
    /\ UNCHANGED <<terminating, statusAvail, restartedGen, unready>>

\* Time reaches spec.restartAt.
Tick ==
    /\ restartGen # 0
    /\ ~due
    /\ due' = TRUE
    /\ UNCHANGED <<podVars, statusAvail, restartGen, restartedGen, unready>>

Environment ==
    \/ \E r \in RS : RSSync(r) \/ PodReady(r) \/ PodUnready(r) \/ PodRemoved(r)
    \/ SetRestartAt
    \/ Tick

-----------------------------------------------------------------------------

\* A rollout at rest: every rs runs Replicas ready pods, and no restart was
\* ever asked for.
Init ==
    /\ oldReady = [r \in RS |-> 0]
    /\ oldPending = [r \in RS |-> 0]
    /\ newReady = [r \in RS |-> Replicas]
    /\ newPending = [r \in RS |-> 0]
    /\ terminating = [r \in RS |-> 0]
    /\ statusAvail = [r \in RS |-> Replicas]
    /\ restartGen = 0
    /\ due = FALSE
    /\ restartedGen = 0
    /\ unready = 0

Next == Reconcile \/ Environment

Spec == Init /\ [][Next]_vars

\* The rollout is requeued every 30s while a pod terminates (line 92) and
\* by the resync; the ReplicaSet controller and the kubelet keep working;
\* time passes.
Fairness ==
    /\ WF_vars(Reconcile)
    /\ \A r \in RS : WF_vars(RSSync(r)) /\ WF_vars(PodReady(r))
                     /\ WF_vars(PodRemoved(r))
    /\ WF_vars(Tick)

FairSpec == Spec /\ Fairness

-----------------------------------------------------------------------------
(* Properties.                                                             *)

\* Once status.restartedAt records the current spec.restartAt, no pod of
\* the rollout is older than restartAt: the loop of Reconcile visited every
\* rs, and the pods the ReplicaSet controller creates afterwards are newer.
RestartedMeansRestarted ==
    restartGen # 0 /\ restartedGen = restartGen
        => \A r \in RS : oldReady[r] + oldPending[r] = 0

\* Every restart the user asks for is carried out: eventually every pod is
\* newer than restartAt and status.restartedAt records it.
SweepCompletes ==
    <>[](restartedGen = restartGen
         /\ \A r \in RS : oldReady[r] + oldPending[r] = 0)

\* The pods of each rs that are older than restartAt and not terminating.
OldPods == [s \in RS |-> oldReady[s] + oldPending[s]]

Sweep == INSTANCE RestartSweep WITH old <- OldPods

\* The sweep of restart.go implements what RestartSweep promises: it deletes
\* a pod older than restartAt only while the restart is pending and due,
\* records status.restartedAt only when no such pod is left, and the pods
\* the ReplicaSet controller and the user's write of restartAt bring in
\* are old exactly when restartAt is set and still ahead.
ImplementsRestartSweep == Sweep!Spec

\* Spec section 4.H: the sweep deletes one pod at a time, so at most one
\* pod of the rollout is out of service at once (the availability check of
\* Reconcile, line 59, is meant to ensure it).
PodsDown == MapThenSumSet(LAMBDA r : Replicas - (oldReady[r] + newReady[r]), RS)
OnePodAtATime == PodsDown <= 1

=============================================================================
