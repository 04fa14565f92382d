# Formal models of the rollout controller

This directory holds TLA+ models of the rollout controller in `src/`. TLC
configurations model-check them on small instances, and TLAPS proofs cover
every instance. `PROJECT.json` lists each component, run, mutant, finding,
hazard and theorem, and maps every definition to the source lines it models.

## The system and its parts

The controller reconciles one Rollout object at a time. A work queue (not in
this repository) hands each rollout key to at most one worker at a time. The
parts in `src/` are:

| part | source | what it does |
|---|---|---|
| BlueGreen reconciler | `src/controller/bluegreen.go` | It creates the ReplicaSet (rs) for the current pod template and scales it up. It points the preview Service and then the active Service at the new rs, pausing between them when a preview Service is set. It waits `scaleDownDelaySeconds`, scales the old rss to zero and deletes rss beyond `revisionHistoryLimit`. When only `spec.replicas` changed (a scaling event), it resizes the rss instead. |
| Pod restart sweep | `src/rollout/restart.go` | When `spec.restartAt` is set, it deletes pods older than that time, one per reconcile, in a fixed rs order. |
| Traffic routers | `src/rollout/trafficrouting/nginx/nginx.go`, `smi/smi.go` | They keep a canary Ingress or an SMI TrafficSplit at the canary weight. |
| Spec validation | `src/pkg/apis/rollouts/validation/validation.go` | It rejects malformed Rollout specs. |
| Datadog provider | `src/metricproviders/datadog/datadog.go` | It queries Datadog and turns the answer into a measurement. |
| API types, server main, logging | `src/pkg/apis/...`, `src/cmd/...`, `src/utils/log` | Declarations, wiring and log formatting. |

These parts interact through the cluster. The reconciler writes rs sizes,
Service selectors and the Rollout's status. The ReplicaSet controller turns
sizes into available pods, and the user edits the spec. The next reconcile
reads all of it back.

## What is modelled

### `BlueGreen.tla`: the blue/green reconciler and its cluster

The module models one Rollout, a small set of pod-template revisions `Revs`,
and one rs per revision.

**State.** The state variables stand for these parts of the program:

| variables | program state |
|---|---|
| `template`, `replicas`, `paused` | the Rollout's spec |
| `rsSet`, `rsOlder`, `rsReplicas`, `rsAvailable`, `rsDesired` | the rss that exist, their creation order, their sizes, their available pods and their desired-replicas annotations |
| `activeSel`, `previewSel` | the two Services' pod-hash selectors |
| `stActive`, `sdAge`, `pauseSet` | `status.blueGreen.activeSelector`, the age of `scaleDownDelayStartTime` and whether `pauseStartTime` is set |
| `retiredAge`, `approved` | history variables the properties need |

Timestamps are kept as ages capped at `ScaleDownDelaySeconds`, the only
duration the code compares them with. The value `Unset` (-1) stands for a
nil timestamp.

**Actions.** One reconcile is one atomic step, `Reconcile`. This is sound
because the work queue gives a rollout key to at most one worker. The step
is one of two things:

- A path through `rolloutBlueGreen`, with one action per early return:
  `CreateNewRS`, `ScaleNewRS`, `WaitSaturated`, `SwitchPreview`,
  `PauseBeforeSwitchActive`, `SwitchActive`, `ScaleDownDelayWait`,
  `ScaleDownOld` and `Complete`. Each path ends, as in the code, with
  `syncRolloutStatusBlueGreen` and the status write. The stages a path has
  passed (`PreviewPassed`, `PausePassed`, ...) are its guards.
- `syncReplicasOnly`, when `IsScalingEvent` holds. It takes one of
  scaleBlueGreen's four branches.

The environment acts between reconciles:

- `PodReady` and `PodGone` model the ReplicaSet controller.
- `Tick` models the clock.
- `SetTemplate`, `SetReplicas`, `UserPause` and `UserResume` model the user.

**Faults.** The constant `Faults` enables faults the code handles only by
retrying:

- the status write of a reconcile is lost after its cluster writes, through
  an API error or a crash between the two;
- the scale-down loops of `scaleDownOldReplicaSetsForBlueGreen` and
  `scaleBlueGreen` stop part way on an error.

**Abstractions.**

- The helpers outside `src/` (`IsSaturated`, `isScalingEvent`,
  `FindActiveOrLatest`, `cleanupRollouts`, `scaleReplicaSetAndRecordEvent`,
  `persistRolloutStatus`) are modelled from the spec and from the comments
  at their call sites. They are marked `spec_modelled` in the map.
- Revision hashes are model values.
- Conditions, events and log lines are left out, because no property
  depends on them.

### Properties

| property | kind | what it says |
|---|---|---|
| `TypeOK` | invariant | Every variable is in its range. |
| `ServedRSsKeepPods` | invariant | The rs the active Service selects, and the one the preview Service selects, exist and have pods. This must hold through every scale-down, stray-rs scale-down and cleanup. |
| `PromotionAfterPause` | action | With a preview Service, the active Service moves away from a serving revision only to the revision the user promoted out of the pause. |
| `ScaleDownDelayRespected` | action | An rs the active Service stopped selecting keeps its pods for `scaleDownDelaySeconds` (spec 4.E step 6, scenario 5). |
| `PodBudget` | action | While `spec.replicas` is unchanged, a step of the controller never brings the rss' total size above twice the replicas (spec section 3). |
| `Converges` | liveness | Once the user stops editing, and if the user promotes every pause, the rollout reaches `Healthy`. In that state the template rs is saturated and served, and no other rs has pods (spec section 8, invariant 3). |

### `PodRestart.tla`: the pod-restart sweep

It models one Rollout whose ReplicaSets each run `Replicas` pods.

**State.** Pods are not named. The model counts them per rs:

- `oldReady` and `oldPending` are the pods created before `spec.restartAt`;
- `newReady` and `newPending` are the pods created after it;
- `terminating` holds the pods with a deletionTimestamp.

The other variables are:

- `statusAvail`: `rs.Status.AvailableReplicas`;
- `restartGen`: `spec.restartAt`, where 0 is nil and each user write is a larger value;
- `due`: whether `restartAt` has passed;
- `restartedGen`: `status.restartedAt`.

**Reconcile** (`RolloutPodRestarter.Reconcile`, lines 49-77) has two state-changing paths:

- `DeleteOldPod`. Its guards come from the code:
  - `NeedsRestart`;
  - every rs reports `AvailableReplicas = Replicas` (`AllAvailable`, lines 57-63);
  - the first rs in `SortReplicaSetsByPriority` order where the loop stops (`FirstStop`, with `Stops` from `reconcilePodsInReplicaSet`) has no terminating pod.

  It then deletes one pod of that rs that is older than `restartAt`.
- `SetRestartedAt`: the loop visits every rs without stopping.

The other paths change nothing and are stutters: not due, not available, a terminating pod, and a failed List or Delete.

**Environment.** It consists of:

- `RSSync(r)`, the ReplicaSet controller. It replaces missing pods and writes the available count. The new pods are old if `restartAt` has not yet passed.
- `PodReady` and `PodUnready` (bounded by `MaxUnready`), and `PodRemoved`, the kubelet.
- `SetRestartAt`, the user, bounded by `MaxRestarts`. The new time may already have passed.
- `Tick`, the clock.

| property | kind | what it says |
|---|---|---|
| `TypeOK` | invariant | Every counter is in range. (That no rs runs more than `Replicas` pods is `WithinReplicas`, a conjunct of the inductive invariant of `PodRestartProofs.tla`.) |
| `RestartedMeansRestarted` | invariant | When `status.restartedAt` equals the current `restartAt`, no pod older than `restartAt` is left in any rs. |
| `SweepCompletes` | liveness | Every restart the user asks for is eventually carried out and recorded. |
| `OnePodAtATime` | invariant | At most one pod of the rollout is out of service at once (spec 4.H). |
| `ImplementsRestartSweep` | refinement | The sweep is a behaviour of the abstract `RestartSweep` under the mapping below. |

**The abstract sweep, `RestartSweep.tla`.** It says what the sweep promises with each rs reduced to one number, `old[r]`: its pods that are older than `restartAt` and not terminating. Readiness, terminating pods, `AvailableReplicas` and the rs order are left to the implementation. Its actions are:

- `Evict(r)`: one old pod goes, only while a restart is pending (`restartAt` set, passed, not yet recorded);
- `Record`: `status.restartedAt` takes `restartAt`, only when no rs has an old pod;
- `Replace(r)`: pods created while `restartAt` is set but still ahead are old, never above `Replicas`;
- `Request`: a new `restartAt` makes the existing pods old;
- `Tick`: `restartAt` passes.

`PodRestart` instantiates it as `Sweep == INSTANCE RestartSweep WITH old <- OldPods`, where `OldPods[r] = oldReady[r] + oldPending[r]`. `DeleteOldPod` maps to `Evict`, `SetRestartedAt` to `Record`, an `RSSync` before `restartAt` has passed to `Replace`, `SetRestartAt` to `Request` and `Tick` to `Tick`. Every other step leaves the old-pod counts alone and is a stutter: readiness changes, removals of terminating pods, and syncs after `restartAt`.

### `Nginx.tla` and `SMI.tla`: the traffic routers

Both routers split `Reconcile(desiredWeight)` into two steps, because other API clients act between the calls:

- `ReconcileRead`: the Gets and every check that can end the call early;
- `ReconcileWrite`: the Create, or the merge patch built from the copy that was read and applied to the object as it is by then.

`WriteFails` is a failed Create or Patch, bounded by `MaxFaults`. The environment consists of:

- users who edit or delete the objects;
- a foreign client that creates an object of the same name, owned by another object or by none;
- the canary steps, which change `desiredWeight`.

All of it is bounded by `MaxEdits`.

**Nginx** (`nginx.go`). The Ingress content (rules, annotations, labels) is a model value of `RuleSets`. Those in `StableBacked` have a path on the stable service.

- `canaryIngress` and `HasStableBackend` come from lines 55-110. `OwnerRefused` is the check of lines 185-195.
- `ReconcileError` covers the three early returns.
- `Modified` and `MergePatch` are `compareCanaryIngresses` and the patch. Only rules and annotations are compared and patched. Owner references are never patched.

**SMI** (`smi.go`). The weight conversion is modelled as what it does. `resource.MustParse(string(w))` turns the `int32` into the one-rune string of code point `w`. Only the digits `'0'`..`'9'` parse, so `Quantity(w) = w - 48` for `w` in 48..57, and any other weight panics (`ReconcilePanics`).

`Get` on NotFound returns whatever the clientset returns:

- the generated clientset returns a non-nil empty object (`RealClient = TRUE`);
- the fake clientset of the unit tests returns nil.

The merge patch replaces the backends list as a whole.

| property | module | kind | what it says |
|---|---|---|---|
| `Converges` | Nginx | liveness | Once the other clients stop, an owned or missing canary Ingress ends up mirroring the stable Ingress at the desired weight. |
| `NeverModifyForeign` | both | action | A write of Reconcile never changes an object with no owner or with another owner (spec 4.C, section 7). |
| `SplitExists` | SMI | liveness | While the weight converts, a TrafficSplit ends up existing. Checked only by the violation run `smi_real_client`: with the generated clientset it fails. |
| `WeightsAsAsked` | SMI | action | A written TrafficSplit has backends `{canary: w, stable: 100 - w}`. |

### `Validation.tla`: spec validation

`ValidateRollout` is one action, `Validate`, from a spec (`rollout`) to a `verdict`. The verdict is `Panic`, or the set of fields that got an error. Each check of `validation.go` is an operator of the same name. `Check(cond, field)` stands for one `allErrs = append(...)`.

The library calls are abstracted to what they decide:

- the label selector is one of four kinds: nil, empty, valid or malformed;
- the pod template is a flag saying whether its labels match the selector.

`utils/defaults` is not in the repository. The defaults of `maxSurge` and `maxUnavailable` are `intstr.FromInt(25)`, an Int and not a percentage, as `defaults_test.go:52` and `:69` expect. The revision-history and progress-deadline defaults are constants.

`types.go` in this repository lacks fields that `validation.go` reads: `antiAffinity`, `scaleDownDelayRevisionLimit`, the experiment and analysis steps, and `RolloutPause.DurationSeconds`. The model follows `validation.go`.

`getIntOrPercentValue` (lines 202-208) is modelled by what it does. A String that `getPercentValue` does not accept as a non-negative percentage, such as `"-5%"`, reads as 0, so the model does not treat the conversion as the identity.

`ValidationMatchesSpec` says that a validated spec never panics, and is admitted exactly when it satisfies the rules of spec section 6. The reference `SpecValid` adds two rules that the code has and the spec does not list:

- the revision history limit is non-negative;
- an anti-affinity sets exactly one of its two rules.

### `Datadog.tla`: the Datadog metric provider

`NewDatadogProvider` reads the Secret `datadog` in `Namespace()` and succeeds only when both keys are set. It gives `provider = "ready"` or `"error"`. Each `Run` appends the Measurement that `Provider.Run` returns to `measurements`, the list that the analysis runner keeps (spec 4.D). A `Panic` entry ends the process, and after it nothing is enabled.

`RunResult(m, r)` follows `Run` and `parseResponse` branch by branch:

- a malformed interval, or a failed `Do` (this includes the 10 s timeout) or `ReadAll`, gives `MarkMeasurementError`;
- status 401 or 403, any other non-200 status, a body that is not JSON, and a JSONPath error each give `MarkMeasurementError`;
- otherwise `ValueOf` is lines 135-142 as written: the `&&` guard, then `results[0][0].(float64)`, then `EvaluateResult`.

The answer is abstracted to the outcome of the calls, the status, and the shape of the body at `{.series[0].pointlist[-1:][1]}`. That shape is one of: no `series` key, an empty `series`, a null `series`, an empty `pointlist`, a null last point, or a point value. client-go's JSONPath is not in this repository. `FindResults` models what it does for each shape, as the pair `(results, err)` it returns:

- a missing key or an index out of range is an error;
- a null skips the rest of the path without an error, so the one result list is empty;
- a null point is kept as a nil interface.

`EvaluateResult` and `MarkMeasurementError` (outside `src/`) follow spec section 4.D. Neither condition matching, or both, gives Inconclusive. `Resume`, `Terminate` and `GarbageCollect` change nothing and have no action.

`RunReturnsMeasurement` says that every Run returns a Measurement, with phase Error when no value could be read, and never crashes the process (spec 4.D and section 7).

## Runs

The `bg_*` runs use `MCBlueGreen.tla`, which has revisions `{h1, h2, h3}`, `h1` as
the initial template, `ScaleDownDelaySeconds = 2`,
`RevisionHistoryLimit = 1` and at most 3 user edits.

| run | cfg | expect | what it shows |
|---|---|---|---|
| bg_safety_faults | MCBlueGreenSafety.cfg | pass | `TypeOK` and `ServedRSsKeepPods` hold with lost status writes and partial scale-downs (171,360 states). |
| bg_converges | MCBlueGreenLive.cfg | pass | `Converges` holds without a preview Service, with 2 replicas and no lost writes. |
| bg_promotion_preview | MCBlueGreenPromotion.cfg | pass | `PromotionAfterPause` holds with a preview Service, 2 replicas and no lost writes (52,654 states). |
| bg_preview_scaling | MCBlueGreenPreviewScaling.cfg | violation | With a preview Service and 2 replicas, a scaling event of a stale preview rs never resolves, so `Converges` fails. |
| bg_delay_scaling | MCBlueGreenDelayScaling.cfg | violation | A `spec.replicas` edit during the delay scales the old rs down at once. |
| nginx_converges | MCNginx.cfg | pass | `Converges` holds (1,188 states). |
| nginx_foreign | MCNginxForeign.cfg | violation | A foreign canary Ingress is patched. |
| smi_real_client | MCSMIRealClient.cfg | violation | With the generated clientset, the TrafficSplit is never created. |
| restart_sweep | MCPodRestart.cfg | pass | `TypeOK`, `RestartedMeansRestarted`, `SweepCompletes` and `ImplementsRestartSweep` hold under `FairSpec` (319,609 states). |
| restart_one_at_a_time | MCPodRestartOneAtATime.cfg | violation | Two pods end up out of service because the availability check reads stale rs status. |
| validation_nil_replicas | MCValidation.cfg | violation | A spec without `replicas` makes `ValidateRollout` panic, and a negative percentage is read as 0. |
| datadog_panics | MCDatadog.cfg | violation | A 200 answer with a null series or a null last point makes `Run` panic. |

The Nginx runs use `MCNginx.tla` with the following bounds:

- two rule sets, one with a stable-service path and one without;
- weights {0, 50};
- 3 edits and 1 failed write.

These allow a foreign create after a delete, an edit between the read and the write, and a lost write, in one behaviour. The SMI runs use weights {0, 48, 50}:

- 0 panics;
- 48 and 50 convert to different wrong values.

They also allow 3 edits and 1 failed call.

The `restart_*` runs use `MCPodRestart.tla`. It has three rss `rs1`, `rs2` and `rs3`: `rs1` is stable, `rs2` is new, and `rs3` is an older one created first. Each rs has 2 replicas. The user may write `restartAt` twice, and pods may fail readiness twice (the violation run sets this to 0).

- Three rss exercise all three branches of `Less`.
- Two replicas let a pod be deleted while another one of the same rs is still old.
- Two restarts let `restartAt` be rewritten in the middle of a sweep.
- Without `PodUnready`, no old pod would ever be pending, and the second branch of the delete would never be reached.

`MCValidation.tla` enumerates 855,936 specs, every combination of:

- `replicas` in {unset, -1, 3};
- four selector kinds;
- the template matching the selector or not;
- `minReadySeconds` in {-1, 30};
- `progressDeadlineSeconds` unset (600) or 10;
- `revisionHistoryLimit` unset (10), -1 or 1;
- no strategy, both strategies, one of 30 blue/green strategies, or one of 2,940 canary strategies.

The canary strategies cover `maxSurge` in {unset (Int 25), 0, 0%, -5%} and `maxUnavailable` in {unset (Int 25), 0, 0%}, at most one step with any combination of the four step kinds and of a weight and duration on either side of their bounds, and the five anti-affinity shapes. Each field takes a value on either side of every rule that reads it, so every rule is both passed and failed. `validation_nil_replicas` says `CHECK_DEADLOCK FALSE` because `ValidateRollout` is one call that returns.

`MCDatadog.tla` takes two point values, `v0` and `v1`, so that a success and a failure condition can tell them apart. It allows two Runs, every Secret shape, every interval kind and every answer.

`restart_sweep` says `CHECK_DEADLOCK FALSE` because the system really stops: after the last permitted restart has completed, nothing is enabled.

**Why these bounds are enough.**

- Three revisions allow a new rs, the previous active rs and an older rs
  with pods at once. The stray loop, the oldest-first scale-down and the
  cleanup all need that.
- Two replicas allow a scaling event and rss that are partly available.
- A delay of 2 ticks separates "delay started", "delay running" and
  "delay over".
- Three edits allow a rollout, a rollback and a scaling event in one
  behaviour.

**Coverage.** The passing runs between them fire every action and every
disjunct of `Next`. The run `bg_safety_faults` alone does. Each property of
a passing run has a mutant in `PROJECT.json` that TLC finds violated: a
plausible bug in the mapped definition, such as a dropped guard, a missing
assignment or an off-by-one size.

**Fairness.** `FairSpec` assumes weak fairness of:

- `Reconcile`, because of the 30 s resync and the requeue at the end of the
  delay (`checkEnqueueRolloutDuringWait`, line 119);
- `PodReady` and `PodGone`, because the ReplicaSet controller keeps
  working;
- `Tick`, because time passes.

In `PodRestart`, `FairSpec` assumes weak fairness of:

- `Reconcile`. `checkEnqueueRollout` (lines 32-47) requeues the rollout at `restartAt`, a terminating pod requeues it after 30 s (line 92), and the resync covers the rest.
- `RSSync`, `PodReady` and `PodRemoved`, which are the cluster at work.
- `Tick`.

`PodUnready` and the user have no fairness.

In `Nginx` and `SMI`, `FairSpec` assumes weak fairness of `ReconcileRead` and `ReconcileWrite`. The router is called on every reconcile of the rollout, which the resync repeats, and a call that has read goes on to write. Failed writes, other clients and weight changes have no fairness; they are bounded instead.

The user is not assumed to act. `Converges` therefore states "if the user
promotes whenever the rollout is paused" as its own hypothesis
(`WF_vars(UserResume) => ...`).

## Findings

Each is a violation run; `PROJECT.json` gives the trace's meaning and the
source line.

1. **bg_delay_scaling.** On a scaling event, `scaleBlueGreen` scales every
   rs that neither Service selects to zero (`bluegreen.go:244-251`). This
   includes the rs still inside its scale-down delay.
2. **restart_one_at_a_time.** `Reconcile` decides that every rs is fully available from `rs.Status.AvailableReplicas` (`restart.go:59`). The ReplicaSet controller writes that field only when it syncs the rs.
   - Trace: the sweep deletes a pod; the pod is removed before the ReplicaSet controller syncs.
   - The status still says every replica is available, and no pod of the rs is terminating (lines 89-95).
   - The next reconcile therefore deletes a second pod. Spec 4.H says pods are deleted one at a time.
3. **nginx_foreign.** The owner check at `nginx.go:191` reads `desiredCanaryIngress.OwnerReferences[0].UID`. That is the owner the controller itself set at line 76, so the check never refuses a foreign owner. Only a missing owner reference is refused.

   The router also has a check-then-act window. With the line-191 check corrected to read the existing Ingress's owner, TLC still finds `NeverModifyForeign` violated in 8 states: read, delete, foreign create, patch. The SMI router has the same window between `smi.go:78` and `smi.go:117`.
4. **smi_real_client.** `smi.go:100` creates the TrafficSplit only when `Get` returned nil. The generated clientset returns an empty object with the NotFound error, so line 103 returns that error forever. The fake clientset returns nil, which is why the create path works in unit tests.
5. **The SMI weights.** `string(desiredWeight)` at `smi.go:63-64` is a rune conversion. `Reconcile(50)` writes `{canary: 2, stable: 2}`, and every weight outside 48..52 panics. This is not a run of its own. The theorem `SMITypeCorrect` establishes it for every weight: no written backend is ever above 9, so a weight of 50 is never written as 50. `WeightsAsAsked` states spec 4.C's backends, and `ReconcilePanics` is the panic.
6. **validation_nil_replicas.** With `spec.replicas` unset, line 63 records the error and validation goes on. Line 93 then dereferences the nil pointer for any selector that converts. With `replicas` always set, a second departure remains (finding 6b). `ValidationProofs.tla` proves that these two are the only ones, and TLC confirms that on all 855,936 specs (1,711,872 states).

   6b. **A negative percentage** (same run). `getIntOrPercentValue` reads `"-5%"` as 0 (`validation.go:207`): `getPercentValue` rejects it, and the error of `strconv.Atoi` is dropped. So `{maxSurge: "-5%", maxUnavailable: 0}` is rejected as "both zero", while spec section 6 forbids only `maxSurge == 0 && maxUnavailable == 0` and says nothing of negative percentages.

The blue/green model shows more disagreements of the same kinds. They are not kept as runs: the project has one run per question, and these ask the same questions as the runs above. The passing runs `bg_converges` and `bg_promotion_preview` set `Faults = FALSE`. They therefore say nothing about lost status writes or partial scale-downs: with lost writes, the first of these findings breaks `PromotionAfterPause`, and `Converges` is not checked with faults at all. Only `bg_safety_faults` runs with faults on, and it checks `TypeOK` and `ServedRSsKeepPods`.

- **`PromotionAfterPause` with `Faults = TRUE`.** The pause is recorded only in the status write of the reconcile that switched the preview Service (`bluegreen.go:55`). If that write is lost, the next reconcile switches the active Service without a pause.
- **`ScaleDownDelayRespected` without a preview Service and with 1 replica.** A rollback during the delay keeps the stale `scaleDownDelayStartTime` (`bluegreen.go:190`).
- **`PodBudget`.** Every new rs is sized to `spec.replicas`, whatever the old rss hold.

7. **datadog_panics.** For a 200 answer whose `series` is null, the JSONPath yields one result list, and that list is empty, without an error. The guard at `datadog.go:135` is `len(results) < 1 && len(results[0]) < 1`. It is false whenever `results` has an entry, so line 139 indexes the empty `results[0]` and panics. A null last point, which is how Datadog reports missing data, reaches line 139 as a nil interface and fails the `float64` assertion. TLC reaches a panic on the first `Run`.

## What is proved

`BlueGreenProofs.tla` is checked by `tlapm`. Its proofs use only the named
assumptions of `BlueGreen.tla`:

- `NoHash` is not a revision, and `InitRev` is one.
- `MaxReplicas` is a positive natural.
- The delay, the history limit and `MaxEdits` are naturals.
- `HasPreview` and `Faults` are Booleans.

The two theorems are:

- **TypeCorrect**: `Spec => []TypeOK`. There is one lemma per part of the
  next-state relation:
  - `RolloutType` has one step per path of rolloutBlueGreen;
  - `ScaleType` covers scaleBlueGreen;
  - `EnvironmentType` covers the environment.

  Shared lemmas cover `ScaleRSs` and the status write `Persist`.
- **ServicesKeepServing**: `Spec => []ServedRSsKeepPods`, for every number
  of revisions and replicas, with and without faults.
  - `ServedRSsKeepPods` is not inductive by itself. `ScaleDownOld` scales
    every old rs with pods, and this spares the rs the preview Service
    selects only because `previewSel` is unset when there is no preview
    Service.
  - The inductive invariant is therefore
    `IInv == TypeOK /\ ServedRSsKeepPods /\ PreviewUnused`, which TLC
    checked first as an invariant of the fault run.
  - The step proof rests on two lemmas. `ScaleKeepsServed` says a scale
    that sizes served rss to a positive count, or not at all, keeps them
    served. `FrameKeepsServed` covers steps that leave the rss alone.
  - `OldestOf(L, k) \subseteq L` gives the partial scale-downs.

`BlueGreenPromotionProofs.tla` proves **PromotionAfterPauseHolds**:
`~Faults => (Spec => PromotionAfterPause)`, for every set of revisions and
every number of replicas, delay and history limit, with or without a preview
Service.

- The hypothesis `~Faults` is needed. With lost writes the property is
  violated: the pause lives only in the status write of the reconcile that
  switched the preview Service (see Findings).
- `PromotionAfterPause` is an action property. `SwitchActive` checks only
  that the rollout is not held in the pause. The step is safe only because
  of the inductive invariant `PromotedOrHeld`: while the preview Service
  selects a revision other than the active one (both set), either the
  rollout is `Held` (`paused /\ pauseSet`) or `approved` is that revision.
  TLC checked `PromotedOrHeld` as an invariant of the no-fault preview
  instance with 2 replicas (52,654 states) before it was proved.
- The argument has three parts:
  - `SwitchPreview` writes the pause (`PersistEntersHold`).
  - Every other status write keeps a hold (`PersistKeepsHold`).
  - `UserResume` sets `approved` to the preview revision exactly when it
    ends a hold.
- `SwitchActive` lands on `previewSel`, because `PreviewPassed` requires
  `previewSel = template`. So the new active revision is the promoted one.
- `ReconcileHolds` shows that every other reconcile path, including
  `scaleBlueGreen`, leaves both Services alone.
- `TypeCorrect` supplies the typing. The step lemmas `NextPromotedOrHeld`
  and `NextPromotion` are combined by PTL.

`PodRestartProofs.tla` proves three theorems for every set of rss and every number of replicas and restarts. It assumes `CreatedAssumption`, `PodRestartReplicasAssumption` and `RestartsAssumption`.

- **RestartTypeCorrect**: `Spec => [](TypeOK /\ WithinReplicas)`. No rs ever runs more than `Replicas` pods.
- **RestartedMeansRestartedHolds**: `Spec => []RestartedMeansRestarted`.

Neither `TypeOK` nor `RestartedMeansRestarted` is inductive by itself:

- `RSSync` creates `Replicas - Active(r)` pods, and that count stays in range only if no rs runs more than `Replicas` pods (`WithinReplicas`).
- The pods `RSSync` creates count as old while `restartAt` has not passed. `SweepDone` therefore adds two facts:
  - `restartedGen <= restartGen`;
  - a completed restart was `due`.

  Together they mean that the replacements created after `SetRestartedAt` are new pods.

The third theorem is **RefinesRestartSweep**: `Spec => ImplementsRestartSweep`, which is `Sweep!Spec`. The proof follows the mapping above:

- `InitRefines` shows that `Init` gives the abstract `Init`.
- `NextRefines` shows that, under `IInv`, every step is a `Sweep!Next` step or leaves `Sweep!vars` unchanged. It has one case per action.
- The `RSSync` case needs `WithinReplicas`. The pods it creates, `Replicas - Active(r)` of them, keep `old[r]` within `Replicas`, as `Replace` requires.
- `SetRestartAt` needs `WithinReplicas` as well: every rs's new `old` count is at most `Replicas`.
- `SetRestartedAt` maps to `Record` because an rs with an old pod that is not terminating stops the loop.

The temporal step combines these with `InitIInv` and `NextIInv` by PTL.

The inductive invariant is `IInv == NumTypeOK /\ WithinReplicas /\ SweepDone /\ due \in BOOLEAN`. TLC checked it as an invariant of the `restart_sweep` instance before it was proved. The Boolean conjunct has its own lemma, `NextDue`, because SMT and Zenon each prove only one of the two kinds of fact.

`NginxProofs.tla` proves **NginxTypeCorrect**, `Spec => []IInv`, from `NginxConstantsAssumption`. That assumption says `Me` differs from the other owners, and `NoIng` is not a rule set. `IInv` is `TypeOK /\ DesiredBacked`: a desired canary Ingress exists exactly while a Reconcile is between its read and its write, and it is owned by the rollout and has stable-backed rules. `TypeOK` alone is not inductive, because the write step takes the desired Ingress that the read step computed. The Patch case rests on two facts about `MergePatch`:

- it keeps the live owner;
- it takes its rules either from the live object or from the desired one.

`SMIProofs.tla` proves **SMITypeCorrect**, `SMIConstants => (Spec => []TypeOK)`. `SMI.tla` has no ASSUME, because no passing run extends it, so the facts about the constants (the weights are integers and include the initial one, `RealClient` is a Boolean, the bounds are naturals) are the hypothesis `SMIConstants`. The SMI module is checked by TLC only in the violation run `smi_real_client`, whose instance satisfies it. It holds for every set of weights. The TrafficSplit, and in particular every one that Reconcile writes, has both backends in 0..9, so no weight above 9 ever reaches the cluster. This is the rune conversion of finding 5, shown for all weights.

`TypeOK` is not inductive by itself, because a write sends `Split(asked)` for a weight read one step earlier. The inductive invariant adds `AskedConverts`: between its read and its write, a Reconcile holds a weight that `MustParse` accepts. Two lemmas say that `Split` and `MergePatch` stay in range.

`DatadogProofs.tla` proves **RunPanicsExactly**. For every set of point values, and every metric `m` and answer `r`:

- `RunResult(m, r)` is a Measurement or `Panic`;
- it is `Panic` exactly when the interval is not malformed, `Do` and `ReadAll` succeed, the status is 200, and the body has a null `series` or a null last point.

This extends finding 7 from the two values of the run to all values, and it shows that no other answer crashes the controller. The proof follows `parseResponse` branch by branch, with one step per shape of the body.

`Datadog.tla` has no ASSUME, because no passing run extends it. The facts the proof needs about the constants are therefore the hypothesis `DatadogConstants` of the theorem:

- the point values are distinct from the body shapes, from `NoValue` and from `Null`;
- `Panic` is not a Measurement.

TLC evaluated `DatadogConstants` on the `MCDatadog` instance, where it holds, so the hypothesis is satisfiable.

`ValidationProofs.tla` proves two theorems for every spec of the type `RolloutSpecs`. That type has any integers where the Go fields are integers, and any number of canary steps.

- **ValidateRolloutSpecMatches**: `ValidateRolloutSpec(r) = {} <=> SpecValid(r) /\ ~NegativePercentAsZero(r)`. Validation without its panic admits exactly the specs that satisfy the rules, except a canary whose `maxSurge` and `maxUnavailable` both read as 0 because one of them is a negative percentage.
- **ValidationAgreesButForPanicAndNegativePercent**: `Spec => []ValidationDepartsOnlyAtPanicOrNegativePercent`, assuming `Rollouts \subseteq RolloutSpecs`. The verdict is `Panic` exactly when the spec has no `replicas` and its selector converts. Otherwise it is the answer of section 6, or a rejection of exactly the negative-percentage specs above. Findings 6 and 6b are therefore the only departures from the spec.

`getIntOrPercentValue` is proved by what it does, not assumed to be the identity: `IntOrPercentZero` says a value reads as 0 exactly when it is 0 or a negative percentage, and `DefaultsAreValues` that the defaults `FromInt(25)` read as 25.

The proof goes rule by rule:

- `StepErrsEmpty` handles one canary step. The four step checks of `validation.go` reject it exactly when `StepOK` fails. It counts the kinds a step sets with `FiniteSetTheorems`.
- `AntiAffinityErrsEmpty`, `BlueGreenErrsEmpty` and `CanaryErrsEmpty` handle the strategies. `StrategyErrsEmpty` handles the strategy choice.
- The main proof splits `ValidateRolloutSpec` into its seven checks.

The invariant `VInv` says that the verdict is pending or is what `Validate` computed for the spec. `Validate` never changes `rollout`. TLC checked `ValidationDepartsOnlyAtPanicOrNegativePercent` and the verdict conjunct of `VInv` on all 1,711,872 states of `MCValidation`.

As with Datadog, `Validation.tla` has no ASSUME because no passing run extends it. `ValidationConstants` is the hypothesis instead:

- `Nil` is not an integer, a record of the spec, or a default;
- the two defaults are integers.

TLC evaluated it on `MCValidation`.

Two proof attempts failed for a reason, and each led to a fix in `Validation.tla`:

- `ValidateRolloutStrategy` was a `CASE` whose arms overlap when both strategies are set. TLC takes the first arm, but TLA+ leaves the choice open. It is now the `IF`/`ELSE IF` chain of the Go code.
- In `ValidateRolloutStrategyCanary`, `tlapm`'s parser grouped `UNION {...} \cup X` as `UNION ({...} \cup X)`, while SANY and TLC read `(UNION {...}) \cup X`. The expression is now parenthesised.

Neither change alters a TLC result.

**Left to TLC.** TLAPS cannot prove:

- the liveness properties `Converges`, `SweepCompletes` and `SplitExists`, which need fairness and ENABLED (`SplitExists` is only ever violated, by `smi_real_client`);
- `PromotionAfterPause` with `Faults = TRUE`, and the action properties `ScaleDownDelayRespected` and `NeverModifyForeign`: TLC finds all three false (see Findings), so no proof is possible.

The creation order of the rss is a relation, `rsOlder`, and not a sequence
filtered with `SelectSeq`. With a relation, the prover needs no induction
over sequences.

## What is not modelled yet, and the plan

- **Uncovered hazards.** Six hazards in `PROJECT.json` have no passing or violation run of their own:
  - the lost status write of `bluegreen.go:55`. It breaks `PromotionAfterPause` (see the findings), which the passing run checks only without faults.
  - the pod budget of `bluegreen.go:34`. `PodBudget` states it, and the code makes no attempt at it (see the findings).
  - a user's `spec.paused` without a `pauseStartTime` (`bluegreen.go:133`). Spec section 9 leaves it open.
  - the check-then-act window of the SMI router (`smi.go:117`). `SMI.tla` states `NeverModifyForeign` for it, and finding 3 shows the same window in the Nginx router. The project keeps one run per question.
  - the nil error that `smi.go:103` returns for a foreign TrafficSplit. Its caller is not in this repository.
  - the rune conversion of `smi.go:63`. `SMITypeCorrect` shows for every weight what it writes, but no run checks a property the panic breaks.
- **Not modelled at all**: the canary reconciler, the analysis runner, the
  status calculator, revision hashing and scale arithmetic, which have no
  source in this repository. Also left out are the API type declarations,
  `main.go` and logging, which have no behaviour to check.
