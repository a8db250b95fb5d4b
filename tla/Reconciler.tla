------------------------------ MODULE Reconciler ------------------------------
(***************************************************************************)
(* The operator's reconciler (controllers/keydbcluster_controller.go) with *)
(* everything it works against: the user, the API server, the informers,   *)
(* the StatefulSet controller, the kubelet and the garbage collector.      *)
(*                                                                         *)
(* There is one worker (MaxConcurrentReconciles is left at 1, and main.go  *)
(* has the operator elect a leader).  Reconcile may start whenever the     *)
(* worker is idle: on a watch event of the KeyDBCluster or of an object it *)
(* owns, on a requeue after 10 or 30 seconds, on a retry after an error.   *)
(*                                                                         *)
(* Not here: the ConfigMap, the Services and the PodDisruptionBudget that  *)
(* are reconciled before the StatefulSet, template fields other than the   *)
(* image, and the replica count, which does not change.                    *)
(***************************************************************************)
EXTENDS UpgradeManager

CONSTANT
    Invalid     \* the images of specs that ValidateKeyDBCluster rejects

ASSUME ReconcilerAssumption == Invalid \subseteq Images

storeVars == <<cr, crCache, stsCache, podCache, current>>
vars == <<clusterVars, storeVars, workerVars>>

\* The user has just created the KeyDBCluster, while the operator runs.
Init ==
    /\ \E image \in Images, strategy \in Strategies : cr = NewCR(image, strategy)
    /\ sts = NoSts
    /\ pods = [i \in Pods |-> NoPod]
    /\ crCache = NoCR
    /\ stsCache = NoSts
    /\ podCache = pods
    /\ current = {"stsCache"}
    /\ pc = "idle"
    /\ work = NoCR
    /\ found = NoImage
    /\ loop = 0
    /\ doomed = {}
    /\ faults = 0

-----------------------------------------------------------------------------
\* Reconcile, by what the cache says of the KeyDBCluster.  It does nothing when
\* the object is not there.  A write that the API server refuses, because the
\* copy in the cache is not current, changes nothing either: the worker is idle
\* again, and will retry.

\* Mutant: the finalizer stays until the children are gone.
HandleDeletionAfterTheChildren ==
    /\ pc = "idle"
    /\ crCache.life = "deleting"
    /\ "crCache" \in current
    /\ stsCache = NoSts
    /\ cr' = NoCR
    /\ current' = current \ OfCr
    /\ UNCHANGED <<clusterVars, crCache, stsCache, podCache, workerVars>>

\* handleDeletion removes the finalizer, and the object goes with it.
HandleDeletion ==
    /\ pc = "idle"
    /\ crCache.life = "deleting"
    /\ "crCache" \in current
    /\ cr' = NoCR
    /\ current' = current \ OfCr
    /\ UNCHANGED <<clusterVars, crCache, stsCache, podCache, workerVars>>

\* Mutant: the update carries no resourceVersion.
AddFinalizerUnconditionally ==
    /\ pc = "idle"
    /\ crCache.life = "new"
    /\ cr' = [crCache EXCEPT !.life = "managed", !.status = cr.status]
    /\ current' = current \ OfCr
    /\ UNCHANGED <<clusterVars, crCache, stsCache, podCache, workerVars>>

\* r.Update of the cached object with a finalizer added: metadata and spec are
\* written (the status is a subresource).
AddFinalizer ==
    /\ pc = "idle"
    /\ crCache.life = "new"
    /\ "crCache" \in current
    /\ cr' = [crCache EXCEPT !.life = "managed", !.status = cr.status]
    /\ current' = current \ OfCr
    /\ UNCHANGED <<clusterVars, crCache, stsCache, podCache, workerVars>>

\* Mutant: only a new spec is validated.
IsValidOrAnEdit(keydbCluster) ==
    keydbCluster.gen > 1 \/ keydbCluster.image \notin Invalid

IsValid(keydbCluster) == keydbCluster.image \notin Invalid

\* Validation fails, and the status says so.
RejectSpec ==
    /\ pc = "idle"
    /\ crCache.life = "managed"
    /\ ~IsValid(crCache)
    /\ "crCache" \in current
    /\ cr' = [cr EXCEPT !.status = [crCache.status EXCEPT !.phase = "Failed"]]
    /\ current' = IF cr' = cr THEN current ELSE current \ OfCr
    /\ UNCHANGED <<clusterVars, crCache, stsCache, podCache, workerVars>>

\* Mutant: the children are made before the finalizer is there.
ReconcileStatefulSetWithoutFinalizer ==
    /\ pc = "idle"
    /\ crCache.life \in {"new", "managed"}
    /\ IsValid(crCache)
    /\ stsCache = NoSts
    /\ sts = NoSts
    /\ sts' = [NoSts EXCEPT !.image = crCache.image]
    /\ pc' = "checkUpgradeNeeded"
    /\ work' = crCache
    /\ current' = (current \ OfSts)
                      \cup (IF "crCache" \in current THEN {"crWork"} ELSE {})
    /\ UNCHANGED <<pods, faults, cr, crCache, stsCache, podCache, found, loop, doomed>>

\* Validation passes.  The StatefulSet is created when the cache does not have
\* it, and updated when the cached copy has another image than the spec.
ReconcileStatefulSet ==
    /\ pc = "idle"
    /\ crCache.life = "managed"
    /\ IsValid(crCache)
    /\ \/ /\ stsCache = NoSts
          /\ sts = NoSts
          /\ sts' = [NoSts EXCEPT !.image = crCache.image]
       \/ /\ stsCache # NoSts
          /\ stsCache.image # crCache.image
          /\ "stsCache" \in current
          /\ sts' = [sts EXCEPT !.image = crCache.image]
       \/ /\ stsCache # NoSts
          /\ stsCache.image = crCache.image
          /\ sts' = sts
    /\ pc' = "checkUpgradeNeeded"
    /\ work' = crCache
    /\ current' = (IF sts' = sts THEN current ELSE current \ OfSts)
                      \cup (IF "crCache" \in current THEN {"crWork"} ELSE {})
    /\ UNCHANGED <<pods, faults, cr, crCache, stsCache, podCache, found, loop, doomed>>

\* Mutant: the spec is compared with status.currentImage.
IsUpgradeNeededByStatus == stsCache # NoSts /\ work.status.currentImage # work.image

\* checkUpgradeNeeded reads the StatefulSet once more, from the cache once more.
IsUpgradeNeeded == stsCache # NoSts /\ stsCache.image # work.image

\* Mutant: the upgrade status is taken to be there.
UpgradeIsNeededWithoutInit ==
    /\ pc = "checkUpgradeNeeded"
    /\ IsUpgradeNeeded
    /\ GoTo("PerformRollingUpgrade")
    /\ UNCHANGED <<clusterVars, storeVars>>

UpgradeIsNeeded ==
    /\ pc = "checkUpgradeNeeded"
    /\ IsUpgradeNeeded
    /\ GoTo(IF work.status.upgrade = NoUpgrade THEN "initUpgradeStatus"
                                               ELSE "PerformRollingUpgrade")
    /\ UNCHANGED <<clusterVars, storeVars>>

\* Of keydbCluster, updateStatusWithRetry only uses the name.
NoUpgradeIsNeeded ==
    /\ pc = "checkUpgradeNeeded"
    /\ ~IsUpgradeNeeded
    /\ pc' = "updateStatusWithRetry"
    /\ work' = NoCR
    /\ current' = current \ {"crWork"}
    /\ UNCHANGED <<clusterVars, crVars, stsCache, podCache, found, loop, doomed>>

\* performRollingUpgrade, in the first upgrade of the KeyDBCluster.
InitUpgradeStatus ==
    /\ pc = "initUpgradeStatus"
    /\ \/ /\ UpdateStatus(WithUpgrade([NoUpgrade EXCEPT !.phase = "Starting",
                                                        !.target = work.image]))
          /\ pc' = "PerformRollingUpgrade"
          /\ UNCHANGED <<found, loop, doomed>>
       \/ Conflict
    /\ UNCHANGED clusterVars

\* The phase that updateStatus reads off the StatefulSet.
PhaseOf(statefulSet) ==
    IF statefulSet.ready > 0 /\ statefulSet.ready = statefulSet.replicas
    THEN "Running" ELSE "Pending"

\* Mutant: the status is written whatever the resourceVersion.
WriteStatusUnconditionally ==
    /\ pc = "updateStatusWithRetry"
    /\ stsCache # NoSts
    /\ cr' = [cr EXCEPT !.status = [crCache.status EXCEPT !.phase = PhaseOf(stsCache)]]
    /\ current' = current \ OfCr
    /\ pc' = "idle"
    /\ loop' = 0
    /\ UNCHANGED <<clusterVars, crCache, stsCache, podCache, work, found, doomed>>

\* updateStatus, on the copy that updateStatusWithRetry takes from the cache.
\* The condition's LastTransitionTime is always now: the write always changes
\* something.
WriteStatus ==
    /\ pc = "updateStatusWithRetry"
    /\ stsCache # NoSts
    /\ "crCache" \in current
    /\ cr' = [cr EXCEPT !.status = [crCache.status EXCEPT !.phase = PhaseOf(stsCache)]]
    /\ current' = current \ OfCr
    /\ pc' = "idle"
    /\ loop' = 0
    /\ UNCHANGED <<clusterVars, crCache, stsCache, podCache, work, found, doomed>>

\* Three attempts, each with what the cache has by then.
RetryStatus ==
    /\ pc = "updateStatusWithRetry"
    /\ stsCache # NoSts
    /\ "crCache" \notin current
    /\ loop < 2
    /\ loop' = loop + 1
    /\ UNCHANGED <<clusterVars, storeVars, pc, work, found, doomed>>

GiveUpStatus ==
    /\ pc = "updateStatusWithRetry"
    /\ stsCache = NoSts \/ ("crCache" \notin current /\ loop = 2)
    /\ Return
    /\ UNCHANGED clusterVars

ReconcileStep ==
    \/ HandleDeletion
    \/ AddFinalizer
    \/ RejectSpec
    \/ ReconcileStatefulSet
    \/ UpgradeIsNeeded
    \/ NoUpgradeIsNeeded
    \/ InitUpgradeStatus
    \/ WriteStatus
    \/ RetryStatus
    \/ GiveUpStatus
    \/ UpgradeManagerStep

-----------------------------------------------------------------------------
\* Faults.  A call that takes effect though its caller is told otherwise is the
\* call followed by one of these.

\* A Get or a write fails: upgradePod's errors end in a status write, the
\* others end Reconcile.  The polls of waitForPod(s)Ready go on after an error.
ApiErrorInUpgradePod ==
    /\ Fault
    /\ pc \in UpgradePodSteps \ {"waitForPodReady"}
    /\ UpgradePodFails
    /\ UNCHANGED <<sts, pods>>

ApiError ==
    /\ Fault
    /\ pc \notin UpgradePodSteps \cup {"idle", "waitForPodsReady"}
    /\ Return
    /\ UNCHANGED <<sts, pods>>

\* The operator dies, or loses the lease: the next one lists everything anew.
Crash ==
    /\ Fault
    /\ pc # "idle"
    /\ pc' = "idle"
    /\ work' = NoCR
    /\ found' = NoImage
    /\ loop' = 0
    /\ doomed' = {}
    /\ crCache' = cr
    /\ stsCache' = sts
    /\ podCache' = pods
    /\ current' = {"crCache", "stsCache"}
    /\ UNCHANGED <<sts, pods, cr>>

-----------------------------------------------------------------------------
\* What goes on around the worker.

UserEdits ==
    /\ \E image \in Images, strategy \in Strategies : EditSpec(image, strategy)
    /\ UNCHANGED <<clusterVars, workerVars>>

UserDeletes == DeleteCR /\ UNCHANGED <<clusterVars, workerVars>>

InformerOfCr == SyncCr /\ UNCHANGED <<clusterVars, workerVars>>

InformerOfSts == SyncSts /\ UNCHANGED <<clusterVars, workerVars>>

InformerOfPods == SyncPods /\ UNCHANGED <<clusterVars, workerVars>>

\* What Kubernetes writes to the StatefulSet leaves no copy of it current.
NotByTheOperator ==
    /\ current' = IF sts' = sts THEN current ELSE current \ OfSts
    /\ UNCHANGED <<crVars, stsCache, podCache, workerVars>>

PodCreation(i) == CreatePod(i) /\ NotByTheOperator

PodRoll(i) == RollPod(i) /\ NotByTheOperator

PodReadiness(i) == PodBecomesReady(i) /\ NotByTheOperator

PodStart(i) == PodStartsUnready(i) /\ NotByTheOperator

PodRemoval(i) == PodIsGone(i) /\ NotByTheOperator

PodFailure(i) == PodFails(i) /\ NotByTheOperator

StatusReport == ReportStatus /\ NotByTheOperator

GarbageCollection == cr.life = "gone" /\ CollectGarbage /\ NotByTheOperator

Next ==
    \/ ReconcileStep
    \/ ApiErrorInUpgradePod
    \/ ApiError
    \/ Crash
    \/ UserEdits
    \/ UserDeletes
    \/ InformerOfCr
    \/ InformerOfSts
    \/ InformerOfPods
    \/ \E i \in Pods :
           \/ PodCreation(i)
           \/ PodRoll(i)
           \/ PodReadiness(i)
           \/ PodStart(i)
           \/ PodRemoval(i)
           \/ PodFailure(i)
    \/ StatusReport
    \/ GarbageCollection

Spec == Init /\ [][Next]_vars

\* The worker, the informers and Kubernetes go on; users and faults need not
\* come.  A worker with something to do is never left idle for good: Reconcile
\* asks for a requeue, returns an error that is retried, or has made a change
\* that the watch reports.
Fairness ==
    /\ WF_vars(ReconcileStep)
    /\ WF_vars(InformerOfCr)
    /\ WF_vars(InformerOfSts)
    /\ WF_vars(InformerOfPods)
    /\ \A i \in Pods :
           WF_vars(PodCreation(i) \/ PodRoll(i) \/ PodReadiness(i) \/ PodRemoval(i))
    /\ WF_vars(StatusReport)
    /\ WF_vars(GarbageCollection)

FairSpec == Spec /\ Fairness

-----------------------------------------------------------------------------
\* The type invariant: every variable holds what its comment says.
TypeOK ==
    /\ cr \in KeyDBClusters \cup {NoCR}
    /\ crCache \in KeyDBClusters \cup {NoCR}
    /\ work \in KeyDBClusters \cup {NoCR}
    /\ sts \in StatefulSets
    /\ stsCache \in StatefulSets
    /\ pods \in [Pods -> PodStates]
    /\ podCache \in [Pods -> PodStates]
    /\ current \subseteq Copies
    /\ pc \in Steps
    /\ found \in Images \cup {NoImage}
    /\ loop \in Nat
    /\ doomed \subseteq Pods
    /\ faults \in Nat

\* A copy that carries the live resourceVersion has the live content: what the
\* optimistic locking of every r.Update and r.Status().Update rests on.
CurrentCopiesAreExact ==
    /\ "crCache" \in current => crCache = cr
    /\ "crWork" \in current => work = cr
    /\ "stsCache" \in current => stsCache = sts
    /\ "stsWork" \in current => found = sts.image

\* What the user has asked for is never undone by the operator, whose finalizer
\* updates write the whole object: the spec changes only with an edit (a new
\* metadata.generation), and a deletion goes through.
UserIntentIsKept ==
    [][/\ <<cr'.image, cr'.strategy>> # <<cr.image, cr.strategy>> /\ cr' # NoCR
              => cr'.gen = cr.gen + 1
       /\ cr.life = "deleting" => cr'.life \in {"deleting", "gone"}]_vars

\* Once the KeyDBCluster is gone, the operator creates no StatefulSet for it and
\* changes none, whatever its caches still say (handleDeletion, AddFinalizer).
NothingIsBuiltForAGoneCluster ==
    [][cr.life = "gone" => sts'.image \in {sts.image, NoImage}]_vars

\* The upgrade manager's DELETE of pod i.
ManagerDeletes(i) ==
    \/ pc = "deletePod" /\ pc' = "waitForPodReady" /\ i = podIndex
    \/ pc = "deletePods" /\ pc' = "deletePods" /\ i \in doomed \ doomed'

\* Every pod that the upgrade manager deletes will come back with the image the
\* upgrade is for: the template is at the target by then, although the manager
\* goes by a cached copy of it (upgradePod, performRecreateUpdate).
DeletedPodsComeBackUpgraded ==
    [][\A i \in Pods : ManagerDeletes(i) => sts.image = work.image]_vars

\* When an upgrade is reported Completed, no pod goes on running another image
\* than the one reported as currentImage (performRollingUpdate).
CompletedMeansRolledOut ==
    [][cr'.status.upgrade.phase = "Completed" /\ cr.status.upgrade.phase # "Completed"
           => \A i \in Pods : pods[i].image # cr'.status.currentImage
                                  => pods[i] = NoPod \/ pods[i].terminating]_vars

\* Whatever copy of the status a writer starts from, and whatever happens to
\* its write, the reader of upgradeStatus sees the lifecycle of UpgradeLifecycle.
Lifecycle == INSTANCE UpgradeLifecycle WITH
    exists <- cr.life # "gone",
    phase <- cr.status.upgrade.phase,
    upgraded <- cr.status.upgrade.upgraded,
    total <- cr.status.upgrade.total

ImplementsUpgradeLifecycle == Lifecycle!Spec

\* ValidateKeyDBCluster stands between the spec and the StatefulSet on every
\* path, the upgrade manager's included.
InvalidSpecIsNeverApplied == sts.image \notin Invalid

\* The spec has come true: every pod runs its image and is ready.
Converged ==
    /\ sts.image = cr.image
    /\ \A i \in Pods : IsHealthy(pods[i]) /\ pods[i].image = cr.image

\* Once the user and the faults leave it alone, the cluster settles for good: a
\* deleted one is gone with its pods, a spec that does not validate is reported
\* Failed, and any other is rolled out and reported Running.
Settles ==
    <>[]\/ cr = NoCR /\ sts = NoSts /\ \A i \in Pods : pods[i] = NoPod
        \/ cr.life = "managed" /\ ~IsValid(cr) /\ cr.status.phase = "Failed"
        \/ cr.life = "managed" /\ IsValid(cr) /\ Converged /\ cr.status.phase = "Running"
=============================================================================
