# A formal model of keydb-operator

TLA+ modules, TLC configurations and TLAPS proofs about the KeyDB operator: a Kubernetes operator that turns a
`KeyDBCluster` object into a StatefulSet with its ConfigMap, Services and PodDisruptionBudget, and upgrades
the pods when the image changes.

Source references: `T` is `api/v1alpha1/keydbcluster_types.go`, `CM`, `SV` and `PB` are `configmap.go`,
`service.go` and `poddisruptionbudget.go` of `internal/resources`, `C` is
`controllers/keydbcluster_controller.go`, `M` is `internal/upgrade/manager.go`, `S` is
`internal/resources/statefulset.go`, `V` is `internal/validation/validator.go`; `C66` is line 66 of `C`.

## 1. The system

| Component | State | Operations | What makes it correct |
|---|---|---|---|
| Reconciler (`C`) | none of its own: the `KeyDBCluster` (finalizer, spec, status) and its children at the API server, and the cached copies of them | `Reconcile`: deletion, finalizer, validation, children, upgrade decision, status | the user's edits and deletions are never undone; only valid specs are applied; nothing is built for an object that is gone; the cluster settles |
| Upgrade manager (`M`) | the `KeyDBCluster` and the StatefulSet it was handed, a position in the pod order, `status.upgradeStatus` | `PerformRollingUpgrade` with `performRollingUpdate` (validate, write the template, delete, wait, validate, count: pod by pod) or `performRecreateUpdate` | the reported lifecycle; Completed only when rolled out; pods are deleted only to come back upgraded; one at a time, replicas first |
| Resource generation (`internal/resources`) | none | builds StatefulSet, ConfigMap, Services, PDB from a spec | what is generated fits the spec and the other children |
| Validator (`V`) | none | accepts or rejects a spec | what passes can be generated and run |
| Process (`main.go`) | the leader lease, the caches | start-up, leader election | one active operator |
| API types | - | fields, defaults, deep copies | - |
| Kubernetes (external) | StatefulSet status, pods | StatefulSet controller, kubelet, garbage collector | (assumed) |

**Interaction.** All parts share state through the API server only. The reconciler and the upgrade manager
read through the manager's cached client (`main.go`: `mgr.GetClient()`), so every `Get` and `List` returns a
copy that may be old; writes go to the API server, which refuses an update whose `resourceVersion` is not the
live one. The reconciler calls the upgrade manager synchronously: the only worker is held for as long as an
upgrade takes. Meanwhile the StatefulSet controller, the kubelet, the informers and the user go on.
`Reconcile` is called again on watch events of the object and its children (`C619`), after 10 s or 30 s, and
after an error.

**What is hard here.** `reconcileStatefulSet` writes the new image into the template (`C326`) *before*
`checkUpgradeNeeded` (`C570`) compares the template's image with the spec: the manager is called only when the
cached StatefulSet is stale, and then works on a cluster that the StatefulSet controller is already rolling,
from the other end. A status write can be refused in the middle of an upgrade (any edit of the spec does
that), the worker can die there, pods can disappear under its hands, and the cache may show it the pod that it
has just deleted. The list of hazards, each at its line and with the properties that cover it, is in
`PROJECT.json`.

## 2. The modules

| Module | Models | Extends |
|---|---|---|
| `UpgradeOrder` | the number of pods (`S187`) and the orders of the upgrade (`M185`, `M217`), as functions | |
| `StatefulSet` | what Kubernetes does to the StatefulSet and its pods; external, but for the init container (`S201`) | `UpgradeOrder` |
| `ApiServer` | the `KeyDBCluster`, its user, the caches, optimistic locking; external except for the types | `StatefulSet` |
| `UpgradeManager` | `M`, one action per API call | `ApiServer` |
| `Reconciler` | `C` with the image of the StatefulSet, the upgrade and the status; the faults, and the composition of everything; the properties | `UpgradeManager` |
| `Leadership` | a change of leader while a call of the old leader is under way (`main.go:66-106`) | `Reconciler` |
| `UpgradeLifecycle` | abstract: what `status.upgradeStatus` promises its reader | |
| `KeyDBClusterSpec` | the whole spec (`T`), its defaults (`C182`) and the validator (`V`), as operators | |
| `Resources` | what `internal/resources` generates from a spec, as operators | `KeyDBClusterSpec` |
| `Children` | `C` up to the StatefulSet: all five children with their owners and contents, adoption, namesakes, other controllers; the properties | `Resources` |
| `Ownership` | abstract: whose each child is, among KeyDBClusters of one name and other controllers | |
| `DocumentedUpgrades`, `DocumentedChildren` | statements of the README and of comments that the code does not keep | `Reconciler`, `Children` |
| `MCReconciler`, `MCLeadership`, `MCChildren` | instances for TLC | |
| `UpgradeOrderProofs`, `ReconcilerProofs`, `UpgradeProofs`, `RolloutProofs`, `LeadershipProofs`, `TakeoverProofs`, `ChildrenProofs`, `GenerationProofs` | theorems | each the module it is about, or the proofs it builds on |

The operator is modelled twice, along a seam in `Reconcile` (`C131`). `Reconciler` follows *one* field of one
child, the image, through the upgrade and the status, against pods and their controllers. `Children` follows
*all* children and all of the spec, against owners, and ends where the upgrade begins. The two meet in
`reconcileStatefulSet`, which both have. Nothing after the seam writes a child except the image and the pods,
and nothing before it reads the status. One model with both would multiply two state spaces that do not touch.

### State and its correspondence to the code

* `cr` is the `KeyDBCluster` at the API server: generation, `spec.image`, `spec.upgrade.strategy`, `life`
  (finalizer and deletion timestamp in one: new, managed, deleting, gone), and of the status `phase`,
  `currentImage` and `upgradeStatus`. `crCache` is the informer's copy.
* `sts`, `stsCache`, `pods`, `podCache`: the same for the StatefulSet (template image, `status.replicas`,
  `status.readyReplicas`) and the pods (image, Ready condition, deletion timestamp).
* `current`: the copies that carry the live `resourceVersion`. Versions are not numbered. A write removes the
  other copies of its object from the set; an update succeeds when its copy is in it.
* `pc`, `work`, `found`, `loop`, `doomed`: the worker's place in the code, `keydbCluster` and (the image of)
  `statefulSet` as passed down, the index into `upgradeOrder` or the attempt of `updateStatusWithRetry`, and
  the pods that `performRecreateUpdate` has still to delete.
* `faults` counts failed API calls, crashes and failing pods, up to `MaxFaults`; `cr.gen` bounds the edits to
  `MaxEdits`, and `MaxDeletes` is 1 where the user may delete the cluster.

`Children` has the same shape, with

* `cr` reduced to uid, spec and `life`, and KeyDBClusters of one name numbered by their uid;
* `children`, `cache`: of each kind the object there is, with its controller reference (`owner`: nobody, a
  stranger, or a uid) and its content, one of `Generated(kind, spec)`;
* `pc`: the kind that `Reconcile` has got to; `work`: the object it passes around, with the defaults that
  `setDefaults` has filled in; `found`: the StatefulSet that has just been adopted and is written a second
  time (`C304`, `C377`);
* `current` as above, over the kinds, `"cr"` and `"found"`; `faults` counts status writes too, which make copies
  out of date, and a leftover.

`Leadership` adds `late`, the call of the old leader: what it does, what it writes, and whether its
`resourceVersion` is still the live one. The other variables are the new leader's.

Actions carry the names of the functions they model where one action is one function (`PerformRollingUpgrade`,
`validatePodAfterUpgrade`), and name the step otherwise. One action stands for one call that the API server
sees with the code up to it; a cached read is merged with the write that follows it when nothing else depends
on the cache in between. `Reconcile` on an object that is not there, and writes of the idle worker that are
refused, change nothing and have no action.

### Simplifications

* The StatefulSet controller acts on the live template and the live pods, its own caches do not lag; the
  garbage collector deletes the StatefulSet and terminates its pods in one step; the StatefulSet's name never
  belongs to another owner in `Reconciler`: adoption (`C298`) is in `Children`.
* An informer catches up with the live object in one step, whenever it likes. Pods share one watch.
* A call that takes effect although its caller is told that it failed is the call followed by `ApiError`,
  `ApiErrorInUpgradePod` or `Crash`.
* After a crash the caches start from the live objects. A new leader that lists from an older state of the API
  server is not modelled.
* `status.replicas`, `readyReplicas` and `conditions` are left out: no code reads them back. The condition's
  timestamp makes every status write a change (`C505`), and that is kept.
* In cluster mode a pod's init container is done when all pods exist. A pod has a DNS name as soon as it has
  an address, ready or not (`SV41`); a running pod that fails its probe does not go through it again.
* `Leadership` has one call under way, since the worker makes one call at a time, and `mgr.Start` cancels the
  context of all later ones and the process exits. An old leader that is suspended for longer than its lease
  and then makes several calls before it notices is not modelled; two whole operators were out of TLC's reach.
* In `Children` a spec's strings are members of small sets, of which the validator's regular expressions are
  subsets; `keydb.conf` is the function KeyDB makes of its lines (the last line of a directive counts); the
  text is told apart from it by `order`, since Go ranges over `customConfig` in any order (`CM155`).
* A probe's five numbers are one (`timings`), and a section has them all, by the CRD's defaults. The CRD sets no
  minimum: 0 stands for a zero among the four numbers for which the API server puts its own default instead
  (`AsStored`). A negative number, and for the liveness probe a `successThreshold` other than 1, is refused by
  the API server on every pass, and left out.
* Of `customConfig` the keys are those whose values `validateCustomConfigParam` checks, one reserved key as it is
  and one in another case (`toLower`), and some that nothing checks. The list of reserved keys is complete.
* A write that changes nothing leaves the `resourceVersion` as it is, as the API server does.
* Of labels and selectors only the mode can change (`S379`). The init container, the sidecar, ports, volumes
  and labels of an existing StatefulSet are never compared (`C310`-`C373`): the model leaves them alone as
  well.
* The API server admits a child unless a Service names one port number twice; everything else that may be
  wrong with it is left to the runs of section 4.
* Images are model values. `Invalid` is the set of images that stand for specs the validator rejects; `Broken`
  those whose pods never become ready. The number of pods does not change.
* `PerformRollingUpgrade` finds the StatefulSet: `checkUpgradeNeeded` has read it from the same cache (without it
  there is no upgrade), and it does not go as long as the finalizer is there, so that `M44`-`M46` would never be
  taken. Nor would the default branch of the strategy (`M59`): validation (`V224`) lets only the two through, and none, which is
  RollingUpdate.
* The branches for cluster mode without a `cluster` section (`M189`, `S195`) are dead: validation (`V84`)
  rejects such a spec before.

## 3. The runs

Deadlock is not checked: once the `KeyDBCluster` and its children are gone the system stops. `RunningSpec`
starts in a cluster that is up and known to the operator, so that upgrades are reached without the ways that
lead there; `Spec` starts with a new `KeyDBCluster`.

| Run | Instance | Checks | States |
|---|---|---|---|
| `rolling` | `RunningSpec`, 2 pods, 2 images, 1 edit | `TypeOK`, `CompletedMeansRolledOut`, `ImplementsUpgradeLifecycle` | 0.9 million |
| `edits` | `RunningSpec`, 1 pod, 2 images, both strategies, 2 edits | `UserIntentIsKept`, `DeletedPodsComeBackUpgraded`, `CompletedMeansRolledOut`, `ImplementsUpgradeLifecycle` | 2.0 million |
| `settles` | `FairRunningOrInvalidSpec`: a running cluster or a new one with an invalid image, 1 pod, 3 images (1 invalid), 1 edit, 1 deletion, 1 fault | `InvalidSpecIsNeverApplied`, `NothingIsBuiltForAGoneCluster`, `Settles` | 0.5 million |
| `leadership` | `OneTakeoverSpec`: a new cluster or one with an upgrade pending, 1 pod, 2 images, both strategies, 1 change of leader, 1 deletion | `UserIntentIsKept`, `CompletedMeansRolledOut`, `ImplementsUpgradeLifecycle` | 1.1 million |
| `generation` | `FairSpec` of `Children`, some 230 specs, 1 edit of everything that is compared | `PodsFindWhatTheyNeed`, `GeneratedChildrenFit`, `ChildrenSettle`, `ReconcileComesToRest` | 0.2 million |
| `children` | `FairSpec` of `Children`, 1 spec, 2 clusters of one name, a leftover ConfigMap or StatefulSet of cluster mode or 1 fault | `TypeOK`, `ForeignChildrenAreLeftAlone`, `ChildrenAreBuiltForTheLiveCluster`, `ImplementsOwnership`, `ChildrenSettle`, `ReconcileComesToRest` | 0.2 million |

What the properties say:

* `CompletedMeansRolledOut`: when the manager reports Completed, no pod runs another image than the reported
  one.
* `ImplementsUpgradeLifecycle`: `status.upgradeStatus` goes through the phases of `UpgradeLifecycle`, and its
  count never goes back.
* `DeletedPodsComeBackUpgraded`: the manager deletes a pod only when the live template has the image of the
  upgrade.
* `UserIntentIsKept`: no write of the operator undoes an edit of the spec or a deletion.
* `InvalidSpecIsNeverApplied`, `NothingIsBuiltForAGoneCluster`: as they say, with stale caches.
* `Settles`: left alone, the cluster becomes what the user asked for last.
* `PodsFindWhatTheyNeed`: where there is a StatefulSet there are the ConfigMap it mounts and the Service that
  names its pods. This holds for the first cluster of its name only: for a second one the garbage collector
  may take the first one's ConfigMap after the cache has shown it.
* `GeneratedChildrenFit`: `service.go`, `configmap.go` and `statefulset.go` agree on ports, certificates and
  replicas, for every valid spec: the client Service leads to every port of the pods but the cluster bus, and to
  no other. On TLS they agree only where `customConfig` leaves its directives alone (end of section 4); the
  hazard of `V260` is therefore not one that this property catches.
* `ForeignChildrenAreLeftAlone`: what another controller owns is never written by the operator, even if it was
  nobody's in the cache.
* `ChildrenAreBuiltForTheLiveCluster`: what the operator writes belongs to the KeyDBCluster that is there now,
  not to its predecessor of the same name.
* `ImplementsOwnership`: the owners of the children change as in `Ownership`: a KeyDBCluster takes what is
  nobody's or a predecessor's, never a stranger's, and nobody takes from the KeyDBCluster that is there. This
  says of the owners what the two properties before it say of each write, and more: an owner is never lost
  while it is there, and a child changes hands in one of five ways only.
* `ChildrenSettle`: left alone, nothing is left of clusters that are gone, and a cluster whose spec is valid
  and can be built has all its children, with all the fields that `reconcileStatefulSet` compares as in the
  spec. It asks nothing for a spec that cannot be built: a size that panics (`S114`), or a port that the client
  Service would have twice (`SV100`).
* `ReconcileComesToRest`: left alone, no child changes any more, although `Reconcile` goes on being called, and
  `reconcileStatefulSet` finds nothing to update any more: what it compares (`needsUpdate`) must be what it sets
  (`Updated`), as the API server keeps it (`AsStored`). Two things are exempted because the code does them: the
  ConfigMap is written anew for another order of the same `customConfig` (`CM155`), and a StatefulSet whose spec
  has a zero in a probe is compared with that zero, which the API server has replaced, and updated on every pass.

Why the bounds are enough for what the runs ask:

* Two pods are the fewest for which the order of the upgrade, and the two controllers working from opposite
  ends, matter. One pod suffices where the question is which *image* a pod comes back with.
* Two edits are needed for the ABA case: the spec returns to its first image while a cache still shows the
  StatefulSet as it was before the first edit. `reconcileStatefulSet` then finds nothing to write, the cache
  catches up, and `checkUpgradeNeeded` finds an upgrade. Any number of edits more gives caches no state that
  is not either the first, the latest or one in between.
* What a property is checked against is what its run contains. `rolling` and `edits` have no faults and start
  after the finalizer, `leadership` has no edits, `generation` no faults, and the runs of the upgrade have
  multi-master mode. Crashes, edits of a cluster without finalizer and the order of cluster mode, for the
  properties of these runs, are covered by theorems only (section 5).
* One fault at any point of the life cycle and of an upgrade, in `settles`, with an edit and a deletion before or
  after it; the change of leader in `leadership` is a fault of its own. What the other runs check of the manager
  they check without faults and deletions, and the theorems about the same properties with any number.
* In `generation` every section that the validator looks at comes valid and invalid, and every branch of
  `internal/resources` is taken by some spec; sections that one generator reads together (TLS, password,
  monitoring, service, storage) come in every combination, the others one at a time. In `children` the spec
  does not matter, and one is enough.
* Two clusters of one name: a third meets nothing that the second has not met. One leftover at a time, since
  the kinds do not touch each other. A leftover counts as the one fault: a fault during an adoption is met
  with the StatefulSet that a predecessor has left, which takes the same way as one that was nobody's.
* Images that no constant distinguishes are declared symmetric. The liveness run has no symmetry set (TLC's
  reduction is not sound for liveness); its running cluster has image `a`, and `b` would show nothing new.

The invariants and step properties are stated for every copy being possibly stale, and for each of them
theorems (section 5) take the bounds away.

**Fairness** (`Fairness` in `Reconciler`): weak fairness of the worker, of each informer, of the StatefulSet
controller, of the kubelet per pod, and of the garbage collector; none of users and faults, nor of a pod that
starts unready. A worker with something to do is not left idle for good, because `Reconcile` asks to be called
again after 10 or 30 seconds, returns an error that is retried with back-off, or has made a change that the
watch reports; informers resync; the garbage collector, the StatefulSet controller and the kubelet are
level-triggered loops. `Settles` is checked without broken images: with `OrderedReady`, a pod that never gets
ready blocks the rollout of the image that would mend it, and nothing in the operator deletes it. `Children`
has the same fairness: the worker, each informer, the garbage collector for each kind; none of the user and of
the other controllers.

**Mutants.** Next to a definition stands, where a property needs it, the same definition with a bug ("Mutant:
..."): an update without `resourceVersion`, children before the finalizer, a template write that is left out,
a field that is not compared. Nothing uses them in the specifications; with one put in place of the original
TLC finds the property violated. The list is in `PROJECT.json`.

## 4. Where the code does not do what it says

Each is a run that TLC must find violated.

| Run | The code says | What happens |
|---|---|---|
| `one_at_a_time` | `M80`: "For multi-master mode, upgrade one at a time" (README: "Zero-downtime upgrades") | The StatefulSet controller takes pod 1 while the manager takes pod 0. |
| `comes_up` | `S203`: "Wait for all pods to be ready"; README: "Deploy KeyDB cluster with automatic sharding" | The init container of pod 0 waits for the name of pod 1; the StatefulSet controller creates pod 1 when pod 0 is ready. A new cluster in cluster mode stays at one pod. |
| `running` | `RunningPhase`: "the cluster is running normally" | `C493` compares the ready pods with those that exist. With the first pod ready and the second not there yet the cluster is Running. |
| `target_image` | `UpgradeStatus`: "the status of an ongoing upgrade", "Target image for upgrade" | `C599` fills it in once; the second upgrade keeps the first one's target and adds to its count. |
| `tls_ready` | README: "Full TLS support", and its example with TLS and monitoring | `CM93` turns the port 6379 off; the probes (`S420`, `S474`), the post-start hook (`S238`) and the exporter (`S326`) ask no other. The pods never become ready. |
| `services_updated` | README: "Creates/updates ConfigMaps, StatefulSets, Services, and PodDisruptionBudgets" | `C253` and `C269` create them; nothing updates them. An edit of `spec.service` has no effect. |

In `Reconciler` pods may become ready all the same: a spec whose probes can be answered is assumed there. In
cluster mode such a cluster can only come from elsewhere (an adopted StatefulSet, or a mode that was changed,
which leaves the template without init container); that is why the runs of section 3 have multi-master mode,
and the orders of cluster mode are covered by `UpgradeOrderProofs`. `M77` says "For cluster mode, upgrade
replicas first, then masters": the manager's order keeps this (theorem `ReplicasBeforeMasters`), but the
StatefulSet controller, set off by the same edit, takes the pods by ordinal, as in `one_at_a_time`.

Three more disagreements need no run. `README.md:29` promises "Automatic Prometheus ServiceMonitor creation",
and `NewServiceMonitor` (`SV130`) has no caller. A `requirePass.secretRef` passes validation and gets into no
file (`CM87` says so itself). The list of "dangerous configuration parameters that should not be overridden"
(`V260`) has `port`, but not `tls-port`, which takes its place with TLS: set by `customConfig` it has KeyDB
listen where no Service leads, and without TLS it opens a port that the pods do not name.

## 5. The proofs

Assumptions: those of the modules on their constants (`TopologyAssumption`, `ImagesAssumption`,
`ApiServerAssumption`, `ReconcilerAssumption`, `ChildrenAssumption`) say what type they have. Two more are
about `Nil`, which stands for what is not there: it is neither a string nor a number (`NilAssumption`), and
nothing that is generated from a valid spec is `Nil` (`ContentAssumption`), so that a child with content
exists. The theorems hold for any number of pods, shards, images, edits and faults, and those about `Children`
for any sets of specs and leftovers and any number of clusters of one name, except where they say otherwise.

* `UpgradeOrderProofs`: the order of the upgrade is a permutation of the pods (`OrderVisitsEveryPodOnce`,
  `EveryPodHasATurn`), with the replicas before the masters in cluster mode (`ReplicasBeforeMasters`).
  Arithmetic about quotients and remainders.
* `ReconcilerProofs`: the inductive invariant `IInv` (theorem `InvariantHolds`) and, from it, `TypeCorrect`,
  `OnlyValidSpecsAreApplied`, `UserIntent` and `NothingIsBuilt`.
* `UpgradeProofs`: `StatusImplementsUpgradeLifecycle`, a refinement, and `DeletedPodsAreUpgraded`.
* `RolloutProofs`: `CompletedUpgradesAreRolledOut`.
* `LeadershipProofs`: the same across a change of leader, with the late call of the old one:
  `UserIntentAcrossLeaders`, `OnlyValidSpecsAcrossLeaders` and `LifecycleAcrossLeaders`.
* `TakeoverProofs`: the upgrade across a change of leader, `DeletedPodsAcrossLeaders` and
  `CompletedUpgradesAcrossLeaders`, from the invariant `TakeoverIInv` (theorem `TakeoverInvariant`).
* `ChildrenProofs`: the inductive invariant `IInv` of `Children` (theorem `ChildrenInvariant`) and, from it,
  `ChildrenTypes`, `ForeignChildren`, `ChildrenOfTheLiveCluster`, and the refinement `OwnershipIsImplemented`.
* `GenerationProofs`: `GenerationFits`, about what is generated from any spec; `FirstPodsFindWhatTheyNeed` and
  `PodsOfTheOnlyCluster`, about the order in which it is created; `UpdatesSettle`, about the comparisons of
  `reconcileStatefulSet`: whatever StatefulSet it finds and whatever the spec, after its update there is something
  left to update exactly when the spec has a zero in a probe.

**The inductive invariant.** `TypeOK` is not inductive: a status write of the manager would break it if
`upgradeStatus` were absent, or if the write went through against an object that has been deleted. `IInv` adds

* `CurrentCopiesAreExact`: a copy with the live `resourceVersion` equals the live object. All the rest hangs
  on it, since it makes an accepted write a change of the live object;
* `LivesAgree`: the cache is never ahead of the live object in its life, and while the worker is busy neither
  is gone or without the finalizer. This is why the order "finalizer first, children after" matters;
* `WorkIsManaged`: what `Reconcile` passes down is valid and managed, and in the manager has an
  `upgradeStatus`; before `initUpgradeStatus` it has none;
* `ProgressIsRecorded`: in the loop, the carried `upgradeStatus` is InProgress, its total is the number of
  pods, and at least the earlier pods are counted;
* `InvalidSpecIsNeverApplied` itself.

Each action has its case in a lemma `...KeepIInv`; the actions are grouped by what they are made of (`Return`,
`GoTo`, `UpdateStatus`, `UpdateTemplate`, `ReturnWith`), with one lemma for each such piece.

`DeletedPodsAreUpgraded` needs a second invariant, `TemplateIsKnown`: the manager never believes the template
to be at the target when it is not. It holds because checkUpgradeNeeded has seen the cache with *another*
image, the worker is the only one that writes the template, and a cache only moves to what is live.

`CompletedUpgradesAreRolledOut` needs a third, `EarlierPodsAreReplaced`: every pod that the loop has passed
runs the target image, is terminating, or is not there. With the lemma `EveryPodHasATurn` it covers all the
pods at the end. It does not rest on what the manager reads back of a pod after its DELETE, which may be of
the old pod.

**The late call.** `IInv` still holds when the lease is lost and the call of the old leader arrives at any later
moment (`LeadershipInvariant`). What has to be added is what is known of that call. `LateIsKnown`: what it
creates or writes into the template has passed validation, and it takes the finalizer away only where the new
leader's cache shows the deletion too and the new worker is idle; otherwise the object would vanish under a
worker that is busy with it. `LateStatusFits`: a status write that would still be accepted is a step of
`UpgradeLifecycle` from the status that is live. Both survive because every write of an object takes the calls
that were made from older copies of it out of date, so that such a call is no longer accepted. A create and a
DELETE carry no `resourceVersion`; the three theorems do not need one there.

`NothingIsBuiltForAGoneCluster` is not claimed across leaders, because it is not true there: the old leader's
create may arrive when the cluster is gone. What it creates belongs to an owner that is not there, and is
collected.

**The takeover.** `TakeoverIInv` joins `LeadershipIInv` with the two invariants of the upgrade, and adds what
is known of the two late calls that could spoil it. `LateTemplateIsKnown`: while the old leader's template
write would still be accepted, nobody has written the StatefulSet, so that an upgrade of the new leader has
still to write the template itself, and has not begun to delete. `LateCompletionIsKnown`: while the old
leader's Completed would still be accepted, nobody has written the `KeyDBCluster`, so that there is no edit and
no other upgrade, the template stays, and pods that fail come back with it. A late create finds the name taken
whenever the new leader's upgrade has a template to go by (`NoTemplateToDeleteBy`).

**The children.** `TypeOK` of `Children` becomes inductive with `CurrentCopiesAreExact` (a copy that an update
will be accepted from is the live object: the API server's optimistic locking, part of the argument and no
property of the operator), `Shapes` (what an object without content looks like), `ClustersAreLive` (a KeyDBCluster that the cache shows with its finalizer,
and the one the busy worker has in hand, are the one that is there) and `AdoptedIsOurs` (the StatefulSet in
hand after its adoption has the uid of that KeyDBCluster). `ClustersAreLive` is the heart of it: only
`handleDeletion` takes the finalizer away, and the one worker is either there or with the children. From this,
`ReconcileWritesItsOwn` says of every write of a child that it carries the uid of the live KeyDBCluster and
hits nothing that is a stranger's: a create finds nothing there, and an update goes through only from an exact
copy, on which `SetControllerReference` has found no stranger. The two theorems about writes combine it with
`OthersWrite`, which says who else writes children.

**Ownership.** The refinement maps `live` to the uid of the `KeyDBCluster` and `owner` to the owners of the
children. Each step of `Children` that changes an owner is one of `Ownership` (lemma `StepsAreOwnership`):
`CreateCluster` is `Appear`, `handleDeletion` is `Disappear`, the other controllers' steps are `Take` and
`Delete`, and a write of `Reconcile` is `Acquire` or, when it leaves the owner as it is, no step at all. It
needs `ReconcileWritesItsOwn`, and `WhatStrangersOwnExists`: a create must not find a stranger's name on what is
not there.

**What is generated.** `GenerationFits` follows from the types alone: the keys of `keydb.conf` and of the ports
are those of the layers they are put together from (`OverlayDomain`). The specs need not be among those of the
runs.

**The order of the children.** `PodsFindWhatTheyNeed` is not inductive: `Reconcile` goes by its cache, which
says that the ConfigMap is there when it may have been deleted since. `OrderIInv` adds, for the first cluster
of its name, `NeededStay` (the ConfigMap and the headless Service are its own from the start, so that neither
another controller nor the garbage collector takes them away, and a cache that shows them is right) and
`MadeInOrder` (what is behind the worker is there). The two hypotheses are needed. A second cluster of the name
may see in the cache the ConfigMap of the first, which is then collected. And a ConfigMap without owner that is
there from the start (`LeftoversAreNotNeeded` excludes it) may be taken and deleted by another controller,
since `C230` adopts it in memory only.

**The updates.** `UpdatesSettle` is about data, not about steps. For each of the six fields it follows whether it
is compared as equal after it has been set and stored; for the resources this needs that the comparison
(`C384`, limits and requests of cpu and memory) looks at no more than is set, and for the probes `ProbeUpdated`
shows that a zero is the only thing that does not survive.

**Only model-checked**: `Settles`, `ChildrenSettle` and `ReconcileComesToRest`, since liveness is out of the prover's reach, and the
counterexamples of section 4.

## 6. Not modelled, and why

* A second `KeyDBCluster` in the work queue: its reconciliation waits while an upgrade holds the only worker
  (`M168`), up to the timeout for each pod. Nothing else is shared between two clusters.
* A change of the number of pods during an upgrade (`M69` takes the total from the StatefulSet, the order from
  the spec). The proofs have any number, but it is a constant of `Reconciler`.
* A suspended old leader that makes several calls (section 2), and caches that are filled from an older state
  after a restart.
* What is a copy or constant: annotations, topology spread (`S347`), volumes other than the certificates, the
  fixed lines of `keydb.conf`, `conditions` of the status, the wording of the scripts.
* `NewServiceMonitor`, which nothing calls; generated deep copies; CRD, RBAC and manifests; metrics, health
  probes and flags of the process.
* KeyDB itself: what `role` it reports without `activeReplica`, and how it treats a password. `CanBecomeReady`
  states what the default probes need of it; by that the README's quick start has no ready pod either.
