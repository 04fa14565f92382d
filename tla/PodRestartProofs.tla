-------------------------- MODULE PodRestartProofs --------------------------
(***************************************************************************)
(* Proofs about the pod-restart sweep of restart.go, for every number of  *)
(* ReplicaSets, replicas and restarts.                                     *)
(*                                                                         *)
(* RestartedMeansRestarted is not inductive by itself: a sync of the       *)
(* ReplicaSet controller creates pods, and they count as older than        *)
(* restartAt while restartAt has not passed.  The strengthening records    *)
(* that status.restartedAt never runs ahead of spec.restartAt, and that a  *)
(* completed restart was due, so the pods created after it are new.  The   *)
(* type needs the bound that no rs runs more than Replicas pods, which is  *)
(* what keeps the replacements of RSSync within 0..Replicas.               *)
(***************************************************************************)
EXTENDS PodRestart, TLAPS

\* Pods of rs r that are not terminating.
Active(r) == oldReady[r] + oldPending[r] + newReady[r] + newPending[r]

\* TypeOK without its Boolean conjunct, which SMT and Zenon each need
\* apart from the arithmetic.
NumTypeOK ==
    /\ oldReady \in Counts
    /\ oldPending \in Counts
    /\ newReady \in Counts
    /\ newPending \in Counts
    /\ terminating \in [RS -> Nat]
    /\ statusAvail \in Counts
    /\ restartGen \in 0..MaxRestarts
    /\ restartedGen \in 0..MaxRestarts
    /\ unready \in 0..MaxUnready

\* No rs runs more than Replicas pods.
WithinReplicas == \A r \in RS : Active(r) <= Replicas

\* status.restartedAt never runs ahead of spec.restartAt, and a completed
\* restart was due and left no pod older than restartAt.
SweepDone ==
    /\ restartedGen <= restartGen
    /\ restartGen # 0 /\ restartedGen = restartGen
         => due /\ \A r \in RS : oldReady[r] + oldPending[r] = 0

\* Everything but the Boolean conjunct of the inductive invariant.
NumInv == NumTypeOK /\ WithinReplicas /\ SweepDone

IInv == NumInv /\ due \in BOOLEAN

LEMMA InitIInv == Init => IInv
<1> SUFFICES ASSUME Init PROVE IInv
    OBVIOUS
<1>1. NumInv
  BY PodRestartReplicasAssumption, RestartsAssumption
     DEF Init, NumInv, NumTypeOK, Counts, WithinReplicas, Active, SweepDone
<1>2. due \in BOOLEAN
  BY DEF Init
<1>3. QED
  BY <1>1, <1>2 DEF IInv

\* The flag due stays Boolean: every step leaves it, sets it to TRUE or
\* chooses it from BOOLEAN.
LEMMA NextDue == due \in BOOLEAN /\ [Next]_vars => due' \in BOOLEAN
BY Zenon DEF Next, Reconcile, Environment, DeleteOldPod, SetRestartedAt,
   RSSync, PodReady, PodUnready, PodRemoved, SetRestartAt, Tick, vars

LEMMA NextNumInv == IInv /\ [Next]_vars => NumInv'
<1> SUFFICES ASSUME IInv, [Next]_vars PROVE NumInv'
    OBVIOUS
<1> USE PodRestartReplicasAssumption, RestartsAssumption
<1> NumInv
  BY DEF IInv
<1>1. CASE DeleteOldPod
  <2>1. restartedGen' = restartedGen /\ restartGen' = restartGen
        /\ restartedGen # restartGen /\ unready' = unready
        /\ newReady' = newReady /\ newPending' = newPending
        /\ statusAvail' = statusAvail
    BY <1>1 DEF DeleteOldPod, NeedsRestart
  <2>2. PICK r \in RS :
          /\ terminating' = [terminating EXCEPT ![r] = @ + 1]
          /\ \/ oldReady[r] > 0 /\ oldReady' = [oldReady EXCEPT ![r] = @ - 1]
                                /\ oldPending' = oldPending
             \/ oldPending[r] > 0 /\ oldPending' = [oldPending EXCEPT ![r] = @ - 1]
                                  /\ oldReady' = oldReady
    BY <1>1 DEF DeleteOldPod
  <2>3. NumTypeOK'
    BY <2>1, <2>2 DEF NumInv, NumTypeOK, Counts
  <2>4. WithinReplicas'
    BY <2>1, <2>2 DEF NumInv, NumTypeOK, Counts, WithinReplicas, Active
  <2>5. SweepDone'
    BY <2>1 DEF NumInv, SweepDone
  <2>6. QED
    BY <2>3, <2>4, <2>5 DEF NumInv

<1>2. CASE SetRestartedAt
  <2>1. \A r \in RS : oldReady[r] + oldPending[r] = 0
    <3> TAKE r \in RS
    <3>1. ~Stops(r)
      BY <1>2 DEF SetRestartedAt, Stopping
    <3>2. QED
      BY <3>1 DEF Stops, NumInv, NumTypeOK, Counts
  <2>2. UNCHANGED <<podVars, statusAvail, restartGen, due, unready>>
        /\ restartedGen' = restartGen /\ due /\ restartGen # 0
    BY <1>2 DEF SetRestartedAt, NeedsRestart
  <2>3. NumTypeOK' /\ WithinReplicas'
    BY <2>2 DEF podVars, NumInv, NumTypeOK, WithinReplicas, Active
  <2>4. SweepDone'
    BY <2>1, <2>2 DEF podVars, NumInv, NumTypeOK, SweepDone
  <2>5. QED
    BY <2>3, <2>4 DEF NumInv
<1>3. ASSUME NEW r \in RS, RSSync(r) PROVE NumInv'
  <2> DEFINE missing == Replicas - Active(r)
             isOld == restartGen # 0 /\ ~due
  <2>1. missing \in Nat
    BY DEF NumInv, NumTypeOK, Counts, WithinReplicas, Active
  <2>2. /\ oldPending' = IF isOld THEN [oldPending EXCEPT ![r] = @ + missing]
                                  ELSE oldPending
        /\ newPending' = IF isOld THEN newPending
                                  ELSE [newPending EXCEPT ![r] = @ + missing]
        /\ statusAvail' = [statusAvail EXCEPT ![r] = oldReady[r] + newReady[r]]
        /\ UNCHANGED <<oldReady, newReady, terminating, restartGen, due,
                       restartedGen, unready>>
    BY <1>3 DEF RSSync, Active
  <2>3. NumTypeOK' /\ WithinReplicas'
    BY <2>1, <2>2 DEF NumInv, NumTypeOK, Counts, WithinReplicas, Active
  <2>4. restartGen # 0 /\ restartedGen = restartGen => ~isOld
    BY DEF NumInv, SweepDone
  <2>5. SweepDone'
    BY <2>2, <2>4 DEF NumInv, SweepDone
  <2>6. QED
    BY <2>3, <2>5 DEF NumInv
<1>4. ASSUME NEW r \in RS, PodReady(r) PROVE NumInv'
  <2>1. UNCHANGED <<terminating, statusAvail, restartGen, due, restartedGen,
                    unready>>
    BY <1>4 DEF PodReady
  <2>2. CASE oldPending[r] > 0 /\ oldPending' = [oldPending EXCEPT ![r] = @ - 1]
             /\ oldReady' = [oldReady EXCEPT ![r] = @ + 1]
             /\ UNCHANGED <<newReady, newPending>>
    BY <2>1, <2>2 DEF NumInv, NumTypeOK, Counts, WithinReplicas, Active,
       SweepDone
  <2>3. CASE newPending[r] > 0 /\ newPending' = [newPending EXCEPT ![r] = @ - 1]
             /\ newReady' = [newReady EXCEPT ![r] = @ + 1]
             /\ UNCHANGED <<oldReady, oldPending>>
    BY <2>1, <2>3 DEF NumInv, NumTypeOK, Counts, WithinReplicas, Active,
       SweepDone
  <2>4. QED
    BY <1>4, <2>2, <2>3 DEF PodReady
<1>5. ASSUME NEW r \in RS, PodUnready(r) PROVE NumInv'
  <2>1. UNCHANGED <<terminating, statusAvail, restartGen, restartedGen>>
        /\ unready' \in 0..MaxUnready
    BY <1>5 DEF PodUnready, NumInv, NumTypeOK
  <2>3. UNCHANGED due
    BY <1>5 DEF PodUnready
  <2>4. CASE oldReady[r] > 0 /\ oldReady' = [oldReady EXCEPT ![r] = @ - 1]
             /\ oldPending' = [oldPending EXCEPT ![r] = @ + 1]
             /\ UNCHANGED <<newReady, newPending>>
    BY <2>1, <2>3, <2>4 DEF NumInv, NumTypeOK, Counts, WithinReplicas, Active,
       SweepDone
  <2>5. CASE newReady[r] > 0 /\ newReady' = [newReady EXCEPT ![r] = @ - 1]
             /\ newPending' = [newPending EXCEPT ![r] = @ + 1]
             /\ UNCHANGED <<oldReady, oldPending>>
    BY <2>1, <2>3, <2>5 DEF NumInv, NumTypeOK, Counts, WithinReplicas, Active,
       SweepDone
  <2>6. QED
    BY <1>5, <2>4, <2>5 DEF PodUnready
<1>6. ASSUME NEW r \in RS, PodRemoved(r) PROVE NumInv'
  BY <1>6 DEF PodRemoved, NumInv, NumTypeOK, Counts, WithinReplicas, Active,
     SweepDone
<1>7. CASE SetRestartAt
  <2>1. restartGen' = restartGen + 1 /\ restartGen' \in 0..MaxRestarts
        /\ UNCHANGED <<terminating, statusAvail, restartedGen, unready>>
    BY <1>7 DEF SetRestartAt, NumInv, NumTypeOK
  <2>2. /\ oldReady' \in Counts /\ oldPending' \in Counts
        /\ newReady' \in Counts /\ newPending' \in Counts
        /\ \A c \in RS : Active(c)' = Active(c)
    BY <1>7 DEF SetRestartAt, NumInv, NumTypeOK, Counts, WithinReplicas, Active
  <2>3. QED
    BY <2>1, <2>2 DEF NumInv, NumTypeOK, WithinReplicas, SweepDone
<1>8. CASE Tick
  <2>1. UNCHANGED <<podVars, statusAvail, restartGen, restartedGen, unready>>
        /\ due' = TRUE
    BY <1>8 DEF Tick
  <2>2. NumTypeOK' /\ WithinReplicas'
    BY <2>1 DEF podVars, NumInv, NumTypeOK, WithinReplicas, Active
  <2>3. SweepDone'
    BY <2>1 DEF podVars, NumInv, NumTypeOK, SweepDone
  <2>4. QED
    BY <2>2, <2>3 DEF NumInv
<1>9. CASE UNCHANGED vars
  BY <1>9 DEF vars, NumInv, NumTypeOK, WithinReplicas, Active, SweepDone
<1>10. QED
  BY <1>1, <1>2, <1>3, <1>4, <1>5, <1>6, <1>7, <1>8, <1>9
     DEF Next, Reconcile, Environment

LEMMA NextIInv == IInv /\ [Next]_vars => IInv'
BY NextNumInv, NextDue DEF IInv

\* Every state of restart.go's sweep keeps its counters and timestamps in
\* range, and no rs runs more pods than its replicas (WithinReplicas),
\* whatever the interleaving of Reconcile, the ReplicaSet controller and
\* the kubelet.
THEOREM RestartTypeCorrect == Spec => [](TypeOK /\ WithinReplicas)
<1>1. IInv => TypeOK
  BY Zenon DEF IInv, NumInv, NumTypeOK, TypeOK
<1>2. IInv => WithinReplicas
  BY DEF IInv, NumInv
<1>3. QED
  BY InitIInv, NextIInv, <1>1, <1>2, PTL DEF Spec

\* Whenever Reconcile has recorded status.restartedAt for the current
\* spec.restartAt, no pod older than restartAt is left in any rs: the loop
\* of Reconcile (lines 57-76) only reaches SetRestartedAt once every rs has
\* been swept, and the ReplicaSet controller creates only new pods after.
THEOREM RestartedMeansRestartedHolds == Spec => []RestartedMeansRestarted
<1>1. IInv => RestartedMeansRestarted
  BY DEF IInv, NumInv, SweepDone, RestartedMeansRestarted
<1>2. QED
  BY InitIInv, NextIInv, <1>1, PTL DEF Spec

-----------------------------------------------------------------------------
(* Refinement of RestartSweep.                                             *)

LEMMA InitRefines == Init => Sweep!Init
BY DEF Init, Sweep!Init, OldPods

\* A step that changes the old counts of rs r alone moves the old pods of
\* r alone.
LEMMA OldPodsUpdate ==
    ASSUME NumTypeOK, NEW r \in RS,
           oldReady' \in [RS -> Int], oldPending' \in [RS -> Int],
           \A s \in RS \ {r} : /\ oldReady'[s] = oldReady[s]
                               /\ oldPending'[s] = oldPending[s]
    PROVE  OldPods' = [OldPods EXCEPT ![r] = oldReady'[r] + oldPending'[r]]
<1>1. OldPods' = [s \in RS |-> oldReady'[s] + oldPending'[s]]
  BY DEF OldPods
<1>2. OldPods = [s \in RS |-> oldReady[s] + oldPending[s]]
  BY DEF OldPods
<1>3. oldReady \in [RS -> Nat] /\ oldPending \in [RS -> Nat]
  BY DEF NumTypeOK, Counts
<1>4. \A s \in RS : OldPods'[s] = IF s = r THEN oldReady'[r] + oldPending'[r]
                                          ELSE OldPods[s]
  BY <1>1, <1>2, <1>3
<1>5. QED
  BY <1>1, <1>2, <1>4

\* A step that moves pods between ready and pending, or removes a
\* terminating one, leaves the old pods of every rs as they are.
LEMMA NextRefines == IInv /\ [Next]_vars => [Sweep!Next]_Sweep!vars
<1> SUFFICES ASSUME IInv, [Next]_vars PROVE [Sweep!Next]_Sweep!vars
    OBVIOUS
<1> USE PodRestartReplicasAssumption, RestartsAssumption
<1> NumInv
  BY DEF IInv
<1>1. CASE DeleteOldPod
  <2>1. PICK r \in RS :
          /\ terminating[r] = 0
          /\ \/ /\ oldReady[r] > 0
                /\ oldReady' = [oldReady EXCEPT ![r] = @ - 1]
                /\ UNCHANGED oldPending
             \/ /\ oldPending[r] > 0
                /\ oldPending' = [oldPending EXCEPT ![r] = @ - 1]
                /\ UNCHANGED oldReady
    BY <1>1, Zenon DEF DeleteOldPod
  <2>2. /\ OldPods[r] > 0
        /\ OldPods' = [OldPods EXCEPT ![r] = @ - 1]
    <3>1. OldPods[r] > 0
      BY <2>1 DEF OldPods, NumInv, NumTypeOK, Counts
    <3>2. /\ oldReady' \in [RS -> Int] /\ oldPending' \in [RS -> Int]
          /\ \A s \in RS \ {r} : /\ oldReady'[s] = oldReady[s]
                                /\ oldPending'[s] = oldPending[s]
          /\ oldReady'[r] + oldPending'[r] = OldPods[r] - 1
      BY <2>1 DEF OldPods, NumInv, NumTypeOK, Counts
    <3>3. QED
      BY <3>1, <3>2, OldPodsUpdate DEF NumInv
  <2>3. Sweep!Evict(r)
    BY <1>1, <2>2 DEF DeleteOldPod, NeedsRestart, Sweep!Evict, Sweep!Pending
  <2>4. QED
    BY <2>3 DEF Sweep!Next
<1>2. CASE SetRestartedAt
  <2>1. \A r \in RS : OldPods[r] = 0
    BY <1>2 DEF SetRestartedAt, Stopping, Stops, OldPods, NumInv, NumTypeOK,
       Counts
  <2>2. Sweep!Record
    BY <1>2, <2>1 DEF SetRestartedAt, NeedsRestart, Sweep!Record,
       Sweep!Pending, podVars, OldPods
  <2>3. QED
    BY <2>2 DEF Sweep!Next
<1>3. ASSUME NEW r \in RS, RSSync(r) PROVE [Sweep!Next]_Sweep!vars
  <2> DEFINE missing == Replicas - Active(r)
             isOld == restartGen # 0 /\ ~due
  <2>1. missing \in 0..Replicas /\ OldPods[r] + missing <= Replicas
    BY DEF NumInv, NumTypeOK, Counts, WithinReplicas, Active, OldPods
  <2>2. /\ oldPending' = IF isOld THEN [oldPending EXCEPT ![r] = @ + missing]
                                  ELSE oldPending
        /\ UNCHANGED <<oldReady, restartGen, due, restartedGen>>
    BY <1>3 DEF RSSync, Active
  <2>3. CASE isOld /\ missing > 0
    <3>1. /\ oldPending' = [oldPending EXCEPT ![r] = @ + missing]
          /\ oldReady' = oldReady
      BY <2>2, <2>3
    <3>2. /\ oldReady' \in [RS -> Int] /\ oldPending' \in [RS -> Int]
          /\ \A s \in RS \ {r} : /\ oldReady'[s] = oldReady[s]
                                /\ oldPending'[s] = oldPending[s]
          /\ oldReady'[r] + oldPending'[r] = OldPods[r] + missing
      BY <2>1, <3>1 DEF OldPods, NumInv, NumTypeOK, Counts
    <3>3. OldPods' = [OldPods EXCEPT ![r] = @ + missing]
      BY <3>2, OldPodsUpdate DEF NumInv
    <3>4. missing \in 1..Replicas /\ OldPods[r] + missing <= Replicas
      BY <2>1, <2>3
    <3>5. \E k \in 1..Replicas : /\ OldPods[r] + k <= Replicas
                                /\ OldPods' = [OldPods EXCEPT ![r] = @ + k]
      <4> USE <3>3, <3>4
      <4>1. WITNESS missing \in 1..Replicas
      <4>2. QED
        OBVIOUS
    <3>6. Sweep!Replace(r)
      BY <2>2, <2>3, <3>5, Zenon DEF Sweep!Replace
    <3>7. QED
      BY <3>6 DEF Sweep!Next
  <2>4. CASE ~(isOld /\ missing > 0)
    <3>1. OldPods' = OldPods
      BY <2>1, <2>2, <2>4 DEF OldPods, NumInv, NumTypeOK, Counts
    <3>2. QED
      BY <2>2, <3>1 DEF Sweep!vars
  <2>5. QED
    BY <2>3, <2>4
<1>4. ASSUME NEW r \in RS, PodReady(r) PROVE [Sweep!Next]_Sweep!vars
  <2>1. OldPods' = OldPods
    BY <1>4 DEF PodReady, OldPods, NumInv, NumTypeOK, Counts
  <2>2. QED
    BY <1>4, <2>1 DEF PodReady, Sweep!vars
<1>5. ASSUME NEW r \in RS, PodUnready(r) PROVE [Sweep!Next]_Sweep!vars
  <2>1. OldPods' = OldPods
    BY <1>5 DEF PodUnready, OldPods, NumInv, NumTypeOK, Counts
  <2>2. QED
    BY <1>5, <2>1 DEF PodUnready, Sweep!vars
<1>6. ASSUME NEW r \in RS, PodRemoved(r) PROVE [Sweep!Next]_Sweep!vars
  BY <1>6 DEF PodRemoved, OldPods, Sweep!vars
<1>7. CASE SetRestartAt
  <2>1. /\ OldPods' \in [RS -> 0..Replicas]
        /\ \A r \in RS : OldPods'[r] >= OldPods[r]
    BY <1>7 DEF SetRestartAt, OldPods, NumInv, NumTypeOK, Counts,
       WithinReplicas, Active
  <2>2. Sweep!Request
    BY <1>7, <2>1 DEF SetRestartAt, Sweep!Request
  <2>3. QED
    BY <2>2 DEF Sweep!Next
<1>8. CASE Tick
  BY <1>8 DEF Tick, podVars, OldPods, Sweep!Tick, Sweep!Next
<1>9. CASE UNCHANGED vars
  BY <1>9 DEF vars, OldPods, Sweep!vars
<1>10. QED
  BY <1>1, <1>2, <1>3, <1>4, <1>5, <1>6, <1>7, <1>8, <1>9
     DEF Next, Reconcile, Environment

\* restart.go's sweep implements RestartSweep, for every set of rss and
\* every number of replicas and restarts: every step of Reconcile, of the
\* ReplicaSet controller, of the kubelet and of the user is a step of the
\* abstract sweep on the old-pod counts, or leaves them alone.
THEOREM RefinesRestartSweep == Spec => ImplementsRestartSweep
<1>1. QED
  BY InitIInv, NextIInv, InitRefines, NextRefines, PTL
     DEF Spec, ImplementsRestartSweep, Sweep!Spec

=============================================================================
