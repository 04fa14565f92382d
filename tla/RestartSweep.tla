---------------------------- MODULE RestartSweep ----------------------------
(***************************************************************************)
(* What the pod-restart sweep promises, with the pods of each ReplicaSet   *)
(* reduced to one number: how many of them, not terminating, were created  *)
(* before spec.restartAt.                                                  *)
(*                                                                         *)
(*  - such a pod is deleted only while a restart is pending and due;       *)
(*  - status.restartedAt records a restart only once no such pod is left;  *)
(*  - a pod created while restartAt is set but still ahead counts as old;  *)
(*  - a new restartAt makes every pod old, none above the replicas.        *)
(*                                                                         *)
(* Readiness, terminating pods, availableReplicas and the order of the rss *)
(* are left to the implementation (PodRestart).                            *)
(***************************************************************************)
EXTENDS Naturals

CONSTANTS RS, Replicas, MaxRestarts

VARIABLES
    old,           \* per rs: pods older than restartAt, not terminating
    restartGen,    \* spec.restartAt: 0 is nil, each write a larger value
    due,           \* spec.restartAt has passed
    restartedGen   \* status.restartedAt

vars == <<old, restartGen, due, restartedGen>>

Pending == restartGen # 0 /\ due /\ restartedGen # restartGen

\* One old pod of rs r is deleted.
Evict(r) ==
    /\ Pending
    /\ old[r] > 0
    /\ old' = [old EXCEPT ![r] = @ - 1]
    /\ UNCHANGED <<restartGen, due, restartedGen>>

\* The restart is recorded.
Record ==
    /\ Pending
    /\ \A r \in RS : old[r] = 0
    /\ restartedGen' = restartGen
    /\ UNCHANGED <<old, restartGen, due>>

\* Pods created before restartAt has passed are older than it.
Replace(r) ==
    /\ restartGen # 0 /\ ~due
    /\ \E k \in 1..Replicas : /\ old[r] + k <= Replicas
                              /\ old' = [old EXCEPT ![r] = @ + k]
    /\ UNCHANGED <<restartGen, due, restartedGen>>

\* The user writes a new restartAt: the pods that exist are all older.
Request ==
    /\ restartGen < MaxRestarts
    /\ restartGen' = restartGen + 1
    /\ due' \in BOOLEAN
    /\ old' \in [RS -> 0..Replicas]
    /\ \A r \in RS : old'[r] >= old[r]
    /\ UNCHANGED restartedGen

\* Time reaches restartAt.
Tick ==
    /\ restartGen # 0 /\ ~due
    /\ due' = TRUE
    /\ UNCHANGED <<old, restartGen, restartedGen>>

Init ==
    /\ old = [r \in RS |-> 0]
    /\ restartGen = 0
    /\ due = FALSE
    /\ restartedGen = 0

Next ==
    \/ \E r \in RS : Evict(r) \/ Replace(r)
    \/ Record \/ Request \/ Tick

Spec == Init /\ [][Next]_vars

=============================================================================
