---------------------------- MODULE UpgradeProofs ----------------------------
(***************************************************************************)
(* Proofs about the upgrades of Reconciler: the status that the operator   *)
(* reports implements UpgradeLifecycle, and the pods that the upgrade      *)
(* manager deletes come back with the image the upgrade is for.            *)
(***************************************************************************)
EXTENDS ReconcilerProofs

USE DEF IInv

-----------------------------------------------------------------------------
\* The status implements UpgradeLifecycle.

LEMMA InitImplementsLifecycle == Init => Lifecycle!Init
<1> SUFFICES ASSUME Init PROVE Lifecycle!Init
  OBVIOUS
<1>1. PICK image \in Images, strategy \in Strategies : cr = NewCR(image, strategy)
  BY DEF Init
<1>2. cr.status.upgrade = NoUpgrade
  BY <1>1 DEF NewCR, NoStatus
<1> QED
  BY <1>1, <1>2 DEF Lifecycle!Init, NoUpgrade, NewCR

\* A write that keeps upgradeStatus is no step of the lifecycle.
LEMMA UpgradeKept ==
    ASSUME cr'.status.upgrade = cr.status.upgrade,
           cr'.life # "gone" <=> cr.life # "gone"
    PROVE  UNCHANGED Lifecycle!vars
BY DEF Lifecycle!vars

\* When the KeyDBCluster goes, its upgradeStatus goes with it.
LEMMA GoneIsForgotten ==
    ASSUME cr.life # "gone", cr' = NoCR
    PROVE  Lifecycle!Next
BY DEF Lifecycle!Next, Lifecycle!Forget, NoCR, NoStatus, NoUpgrade

\* The user's writes, and the operator's writes of the finalizer and of the
\* phase, leave upgradeStatus alone, unless the KeyDBCluster goes.
LEMMA OtherWritesKeepUpgrade ==
    ASSUME IInv,
           \/ HandleDeletion \/ AddFinalizer \/ UserEdits \/ UserDeletes
           \/ RejectSpec \/ WriteStatus
    PROVE  \/ cr.life # "gone" /\ cr' = NoCR
           \/ /\ cr'.status.upgrade = cr.status.upgrade
              /\ cr'.life # "gone" <=> cr.life # "gone"
<1>1. CASE HandleDeletion
  BY <1>1, CurrentCache DEF HandleDeletion
<1>2. CASE AddFinalizer
  <2>1. crCache = cr /\ cr \in KeyDBClusters
    BY <1>2, CurrentCache DEF AddFinalizer
  <2> QED
    BY <1>2, <2>1 DEF AddFinalizer, KeyDBClusters
<1>3. CASE UserEdits
  <2>1. cr \in KeyDBClusters
    BY <1>3, LifeOf DEF UserEdits, EditSpec, TypeOK
  <2>2. cr'.status = cr.status /\ cr'.life = cr.life
    BY <1>3, <2>1 DEF UserEdits, EditSpec, KeyDBClusters
  <2> QED
    BY <2>2
<1>4. CASE UserDeletes
  <2>1. cr \in KeyDBClusters
    BY <1>4, LifeOf DEF UserDeletes, DeleteCR, TypeOK
  <2> QED
    BY <1>4, <2>1 DEF UserDeletes, DeleteCR, KeyDBClusters
<1>5. CASE RejectSpec \/ WriteStatus
  <2>1. "crCache" \in current /\ crCache.life # "gone"
    BY <1>5 DEF RejectSpec, WriteStatus, LivesAgree
  <2>2. crCache = cr /\ cr \in KeyDBClusters /\ cr.status \in Statuses
    BY <2>1, CurrentCache
  <2>3. PICK p \in {"Failed", "Running", "Pending"} :
            cr' = [cr EXCEPT !.status = [cr.status EXCEPT !.phase = p]]
    BY <1>5, <2>2 DEF RejectSpec, WriteStatus, PhaseOf
  <2>4. PICK status : status = [cr.status EXCEPT !.phase = p]
    OBVIOUS
  <2>5. status \in Statuses /\ status.upgrade = cr.status.upgrade
    BY <2>2, <2>4, PhaseWritten
  <2> QED
    BY <2>2, <2>3, <2>4, <2>5, StatusWritten
<1> QED
  BY <1>1, <1>2, <1>3, <1>4, <1>5

\* A write of the carried upgradeStatus is refused, or it is made from the live
\* one and becomes the live one.
LEMMA UpgradeWrite ==
    ASSUME IInv, pc \in CarryingSteps, NEW u \in UpgradeStatuses,
           \/ UpdateStatus(WithUpgrade(u))
           \/ Conflict
           \/ ReturnWith(WithUpgrade(u))
           \/ ReturnWith([WithUpgrade(u) EXCEPT !.currentImage = work.image])
    PROVE  \/ cr' = cr
           \/ /\ work = cr /\ cr'.status.upgrade = u
              /\ cr.life # "gone" /\ cr'.life = cr.life
<1>1. work.status \in Statuses /\ work.image \in Images
  BY LifeOf DEF WorkIsManaged
<1>2. /\ WithUpgrade(u) \in Statuses
      /\ WithUpgrade(u).upgrade = u
      /\ [WithUpgrade(u) EXCEPT !.currentImage = work.image] \in Statuses
      /\ [WithUpgrade(u) EXCEPT !.currentImage = work.image].upgrade = u
  BY <1>1, UpgradeWritten DEF WithUpgrade
<1>3. \/ cr' = cr
      \/ \E status \in Statuses :
             /\ status.upgrade = u
             /\ "crWork" \in current
             /\ cr' = [cr EXCEPT !.status = status]
  BY <1>2 DEF UpdateStatus, Conflict, Return, ReturnWith
<1> QED
  BY <1>3, AcceptedStatus

\* The upgrade manager's writes are those of UpgradeLifecycle, and it takes
\* CompleteUpgrade to make an upgrade Completed.
LEMMA UpgradeWritesImplementLifecycle ==
    ASSUME IInv,
           \/ InitUpgradeStatus \/ StartRollingUpdate \/ RecordProgress
           \/ CompleteUpgrade \/ FailUpgrade
    PROVE  /\ [Lifecycle!Next]_Lifecycle!vars
           /\ cr'.status.upgrade.phase = "Completed" => cr' = cr \/ CompleteUpgrade
<1> DEFINE Stays == cr.life # "gone" /\ cr'.life = cr.life
<1>0. cr' = cr => UNCHANGED Lifecycle!vars
  BY UpgradeKept
<1>1. CASE InitUpgradeStatus
  <2>0. PICK u : u = [NoUpgrade EXCEPT !.phase = "Starting", !.target = work.image]
    OBVIOUS
  <2>1. pc = "initUpgradeStatus" /\ pc \in CarryingSteps
    BY <1>1 DEF InitUpgradeStatus, CarryingSteps, Steps
  <2>2. work.image \in Images /\ work.status.upgrade = NoUpgrade
    BY <2>1, LifeOf DEF WorkIsManaged
  <2>3. /\ u \in UpgradeStatuses
        /\ u.phase = "Starting" /\ u.upgraded = 0 /\ u.total = 0
    BY <2>0, <2>2 DEF UpgradeStatuses, NoUpgrade
  <2>4. cr' = cr \/ (work = cr /\ cr'.status.upgrade = u /\ Stays)
    BY <1>1, <2>0, <2>1, <2>3, UpgradeWrite DEF InitUpgradeStatus
  <2>5. work = cr /\ cr'.status.upgrade = u /\ Stays => Lifecycle!Announce
    BY <2>2, <2>3 DEF Lifecycle!Announce, NoUpgrade
  <2> QED
    BY <1>0, <2>3, <2>4, <2>5 DEF Lifecycle!Next
<1>2. CASE StartRollingUpdate
  <2>0. PICK u : u = [work.status.upgrade EXCEPT !.phase = "InProgress",
                                                 !.total = calculateReplicas]
    OBVIOUS
  <2>1. pc \in ManagerSteps /\ pc \in CarryingSteps
    BY <1>2 DEF StartRollingUpdate, ManagerSteps, CarryingSteps, Steps
  <2>2. work.status.upgrade \in
            [phase : {"Starting", "InProgress", "Completed", "Failed"},
             target : Images, upgraded : Nat, total : Nat]
    BY <2>1, LifeOf, UpgradeOf DEF WorkIsManaged
  <2>3. u \in UpgradeStatuses
    BY <2>0, <2>2, Sizes DEF UpgradeStatuses
  <2>4. /\ u.phase = "InProgress" /\ u.total \in Nat
        /\ u.upgraded = work.status.upgrade.upgraded
        /\ work.status.upgrade.phase # "nil"
    BY <2>0, <2>2, Sizes
  <2>5. cr' = cr \/ (work = cr /\ cr'.status.upgrade = u /\ Stays)
    BY <1>2, <2>0, <2>1, <2>3, UpgradeWrite DEF StartRollingUpdate
  <2>6. work = cr /\ cr'.status.upgrade = u /\ Stays => Lifecycle!Start
    BY <2>4 DEF Lifecycle!Start
  <2> QED
    BY <1>0, <2>4, <2>5, <2>6 DEF Lifecycle!Next
<1>3. CASE RecordProgress
  <2>0. PICK u : u = [work.status.upgrade EXCEPT !.upgraded = @ + 1]
    OBVIOUS
  <2>1. pc \in RollingSteps
    BY <1>3 DEF RecordProgress, RollingSteps
  <2>2. u \in UpgradeStatuses
    BY <2>0, <2>1, CarriedUpgrade DEF UpgradeStatuses
  <2>3. /\ u.phase = work.status.upgrade.phase /\ u.total = work.status.upgrade.total
        /\ u.upgraded = work.status.upgrade.upgraded + 1
        /\ work.status.upgrade.phase = "InProgress"
    BY <2>0, <2>1, CarriedUpgrade DEF ProgressIsRecorded
  <2>4. cr' = cr \/ (work = cr /\ cr'.status.upgrade = u /\ Stays)
    BY <1>3, <2>0, <2>1, <2>2, CarriedUpgrade, UpgradeWrite DEF RecordProgress
  <2>5. work = cr /\ cr'.status.upgrade = u /\ Stays => Lifecycle!Progress
    BY <2>3 DEF Lifecycle!Progress
  <2> QED
    BY <1>0, <2>3, <2>4, <2>5 DEF Lifecycle!Next
<1>4. CASE CompleteUpgrade
  <2>0. PICK u : u = [work.status.upgrade EXCEPT !.phase = "Completed"]
    OBVIOUS
  <2>1. pc = "upgradeCompleted" /\ pc \in RollingSteps
    BY <1>4 DEF CompleteUpgrade, RollingSteps
  <2>2. u \in UpgradeStatuses
    BY <2>0, <2>1, CarriedUpgrade DEF UpgradeStatuses
  <2>3. /\ u.phase = "Completed" /\ u.total = work.status.upgrade.total
        /\ u.upgraded = work.status.upgrade.upgraded
        /\ work.status.upgrade.phase = "InProgress"
    BY <2>0, <2>1, CarriedUpgrade DEF ProgressIsRecorded
  <2>4. work.status.upgrade.upgraded >= work.status.upgrade.total
    BY <2>1, OrderLength DEF ProgressIsRecorded
  <2>5. cr' = cr \/ (work = cr /\ cr'.status.upgrade = u /\ Stays)
    BY <1>4, <2>0, <2>1, <2>2, CarriedUpgrade, UpgradeWrite DEF CompleteUpgrade
  <2>6. work = cr /\ cr'.status.upgrade = u /\ Stays => Lifecycle!Complete
    BY <2>3, <2>4 DEF Lifecycle!Complete
  <2> QED
    BY <1>0, <1>4, <2>5, <2>6 DEF Lifecycle!Next
<1>5. CASE FailUpgrade
  <2>0. PICK u : u = [work.status.upgrade EXCEPT !.phase = "Failed"]
    OBVIOUS
  <2>1. pc \in RollingSteps
    BY <1>5 DEF FailUpgrade, RollingSteps
  <2>2. u \in UpgradeStatuses
    BY <2>0, <2>1, CarriedUpgrade DEF UpgradeStatuses
  <2>3. /\ u.phase = "Failed" /\ u.total = work.status.upgrade.total
        /\ u.upgraded = work.status.upgrade.upgraded
        /\ work.status.upgrade.phase = "InProgress"
    BY <2>0, <2>1, CarriedUpgrade DEF ProgressIsRecorded
  <2>4. cr' = cr \/ (work = cr /\ cr'.status.upgrade = u /\ Stays)
    BY <1>5, <2>0, <2>1, <2>2, CarriedUpgrade, UpgradeWrite DEF FailUpgrade
  <2>5. work = cr /\ cr'.status.upgrade = u /\ Stays => Lifecycle!Fail
    BY <2>3 DEF Lifecycle!Fail
  <2> QED
    BY <1>0, <2>3, <2>4, <2>5 DEF Lifecycle!Next
<1> QED
  BY <1>1, <1>2, <1>3, <1>4, <1>5

LEMMA StepsImplementLifecycle ==
    ASSUME IInv, [Next]_vars
    PROVE  [Lifecycle!Next]_Lifecycle!vars
<1>1. CASE \/ HandleDeletion \/ AddFinalizer \/ UserEdits \/ UserDeletes
           \/ RejectSpec \/ WriteStatus
  BY <1>1, OtherWritesKeepUpgrade, UpgradeKept, GoneIsForgotten
<1>2. CASE \/ InitUpgradeStatus \/ StartRollingUpdate \/ RecordProgress
           \/ CompleteUpgrade \/ FailUpgrade
  BY <1>2, UpgradeWritesImplementLifecycle
<1>3. CASE cr' = cr
  BY <1>3, UpgradeKept
<1> QED
  BY <1>1, <1>2, <1>3, OthersLeaveTheKeyDBCluster

\* Refused and repeated status writes, stale caches, crashes and edits in the
\* middle of an upgrade notwithstanding, status.upgradeStatus goes through the
\* lifecycle of UpgradeLifecycle.
THEOREM StatusImplementsUpgradeLifecycle == Spec => ImplementsUpgradeLifecycle
<1>1. Init => Lifecycle!Init
  BY InitImplementsLifecycle
<1>2. IInv /\ [Next]_vars => [Lifecycle!Next]_Lifecycle!vars
  BY StepsImplementLifecycle
<1> QED
  BY <1>1, <1>2, InvariantHolds, PTL DEF Spec, ImplementsUpgradeLifecycle, Lifecycle!Spec

-----------------------------------------------------------------------------
\* The pods that the upgrade manager deletes come back upgraded.

\* The manager goes by a cached copy of the StatefulSet, but not to think that
\* the template is at the target when it is not: the copy was seen to have
\* another image when the upgrade was found to be needed, and a cache that
\* changes only catches up with what the operator alone writes.
TemplateIsKnown ==
    /\ pc \in {"initUpgradeStatus", "PerformRollingUpgrade"} =>
           (stsCache.image = work.image => sts.image = work.image)
    /\ pc \in HoldingSteps => (found = work.image => sts.image = work.image)
    /\ pc \in {"deletePod", "getClusterPods", "deletePods"} => found = work.image

LEMMA InitTemplateIsKnown == Init => TemplateIsKnown
BY DEF Init, TemplateIsKnown, HoldingSteps, ManagerSteps, CarryingSteps

\* Outside the steps that TemplateIsKnown is about, there is nothing to show.
LEMMA TemplateDoesNotMatter ==
    ASSUME pc' \in {"idle", "checkUpgradeNeeded", "updateStatusWithRetry"}
    PROVE  TemplateIsKnown'
BY DEF TemplateIsKnown, HoldingSteps, ManagerSteps, CarryingSteps

\* The worker moves on with the same copy, and no one writes the template.
LEMMA TemplateStaysKnown ==
    ASSUME TemplateIsKnown, pc \in HoldingSteps, pc' \in HoldingSteps,
           pc' \in {"deletePod", "getClusterPods", "deletePods"} => found = work.image,
           sts'.image = sts.image, found' = found, work'.image = work.image
    PROVE  TemplateIsKnown'
BY DEF TemplateIsKnown, HoldingSteps, ManagerSteps, CarryingSteps

\* The worker stands still.
LEMMA TemplateStaysKnownMeanwhile ==
    ASSUME TemplateIsKnown, UNCHANGED workerVars, sts'.image = sts.image,
           stsCache'.image \in {stsCache.image, sts.image}
    PROVE  TemplateIsKnown'
BY DEF TemplateIsKnown, workerVars

\* A status write that lets the worker go on keeps the image it carries.
LEMMA CarriedImageKept ==
    ASSUME IInv, pc \in CarryingSteps, NEW status, UpdateStatus(status)
    PROVE  work'.image = work.image
<1>1. work = cr /\ cr \in KeyDBClusters
  BY DEF UpdateStatus, WorkIsManaged, CurrentCopiesAreExact
<1> QED
  BY <1>1 DEF UpdateStatus, KeyDBClusters

LEMMA ReconcileKeepsTemplateKnown ==
    ASSUME IInv, TemplateIsKnown,
           \/ HandleDeletion \/ AddFinalizer \/ RejectSpec \/ ReconcileStatefulSet
           \/ UpgradeIsNeeded \/ NoUpgradeIsNeeded \/ InitUpgradeStatus
           \/ WriteStatus \/ RetryStatus \/ GiveUpStatus
    PROVE  TemplateIsKnown'
<1>1. CASE HandleDeletion \/ AddFinalizer \/ RejectSpec
  BY <1>1, TemplateDoesNotMatter DEF HandleDeletion, AddFinalizer, RejectSpec, workerVars
<1>2. CASE \/ ReconcileStatefulSet \/ NoUpgradeIsNeeded \/ WriteStatus \/ RetryStatus
           \/ GiveUpStatus
  BY <1>2, TemplateDoesNotMatter DEF ReconcileStatefulSet, NoUpgradeIsNeeded, WriteStatus,
     RetryStatus, GiveUpStatus, Return
<1>3. CASE UpgradeIsNeeded
  <2>1. /\ pc' \in {"initUpgradeStatus", "PerformRollingUpgrade"}
        /\ stsCache'.image # work'.image
    BY <1>3 DEF UpgradeIsNeeded, IsUpgradeNeeded, GoTo, storeVars
  <2> QED
    BY <2>1 DEF TemplateIsKnown, HoldingSteps, ManagerSteps
<1>4. CASE InitUpgradeStatus
  <2>1. CASE pc' = "idle"
    BY <2>1, TemplateDoesNotMatter
  <2>2. CASE pc' # "idle"
    <3>1. pc \in CarryingSteps /\ pc = "initUpgradeStatus"
      BY <1>4 DEF InitUpgradeStatus, CarryingSteps, Steps
    <3>2. /\ pc' = "PerformRollingUpgrade"
          /\ work'.image = work.image
          /\ UNCHANGED <<sts, stsCache>>
      BY <1>4, <2>2, <3>1, CarriedImageKept
         DEF InitUpgradeStatus, UpdateStatus, Conflict, Return, clusterVars
    <3> QED
      BY <3>1, <3>2 DEF TemplateIsKnown, HoldingSteps, ManagerSteps
  <2> QED
    BY <2>1, <2>2
<1> QED
  BY <1>1, <1>2, <1>3, <1>4

LEMMA RollingKeepsTemplateKnown ==
    ASSUME IInv, TemplateIsKnown,
           \/ PerformRollingUpgrade \/ StartRollingUpdate \/ RejectPodBeforeUpgrade
           \/ PreparePod \/ PreparePodAndTemplate \/ DeletePod \/ PodToDeleteNotFound
           \/ PodIsReady \/ WaitForPodTimesOut \/ validatePodAfterUpgrade
           \/ RecordProgress \/ CompleteUpgrade \/ FailUpgrade
    PROVE  TemplateIsKnown'
<1>1. CASE PerformRollingUpgrade
  <2>1. pc' \in {"performRecreateUpdate", "performRollingUpdate"} /\ pc = "PerformRollingUpgrade"
        /\ found' = stsCache.image /\ UNCHANGED <<sts, work>>
    BY <1>1 DEF PerformRollingUpgrade, clusterVars
  <2> QED
    BY <2>1 DEF TemplateIsKnown
<1>2. CASE StartRollingUpdate \/ RecordProgress
  <2>1. CASE pc' = "idle"
    BY <2>1, TemplateDoesNotMatter
  <2>2. CASE pc' # "idle"
    <3>1. pc \in CarryingSteps /\ pc \in HoldingSteps
      BY <1>2 DEF StartRollingUpdate, RecordProgress, CarryingSteps, HoldingSteps,
                  ManagerSteps, Steps
    <3>2. /\ pc' \in HoldingSteps
          /\ pc' \notin {"deletePod", "getClusterPods", "deletePods"}
          /\ work'.image = work.image
          /\ UNCHANGED <<sts, found>>
      BY <1>2, <2>2, <3>1, CarriedImageKept
         DEF StartRollingUpdate, RecordProgress, UpdateStatus, Conflict, Return, clusterVars,
             HoldingSteps, ManagerSteps, CarryingSteps, Steps, UpgradePodSteps
    <3> QED
      BY <3>1, <3>2, TemplateStaysKnown
  <2> QED
    BY <2>1, <2>2
<1>3. CASE CompleteUpgrade \/ FailUpgrade
  BY <1>3, TemplateDoesNotMatter DEF CompleteUpgrade, FailUpgrade, ReturnWith
<1>4. CASE PreparePodAndTemplate /\ ~UpgradePodFails
  <2>1. /\ work \in KeyDBClusters /\ work.image \in Images /\ sts \in StatefulSets
    BY <1>4, LifeOf DEF PreparePodAndTemplate, WorkIsManaged, CarryingSteps, Steps,
                        UpgradePodSteps, TypeOK
  <2>2. sts'.image = work.image
    BY <1>4, <2>1, ImageWritten DEF PreparePodAndTemplate, UpdateTemplate
  <2>3. pc' = "deletePod" /\ found' = work.image /\ work' = work
    BY <1>4 DEF PreparePodAndTemplate, UpdateTemplate
  <2> QED
    BY <2>2, <2>3 DEF TemplateIsKnown
<1>5. CASE \/ RejectPodBeforeUpgrade \/ PreparePod
           \/ pc = "validatePodBeforeUpgrade" /\ UpgradePodFails /\ UNCHANGED clusterVars
           \/ DeletePod \/ PodToDeleteNotFound \/ PodIsReady \/ WaitForPodTimesOut
           \/ validatePodAfterUpgrade
  <2>1. pc \in UpgradePodSteps
    BY <1>5 DEF RejectPodBeforeUpgrade, PreparePod,
       DeletePod, PodToDeleteNotFound, PodIsReady, WaitForPodTimesOut,
       validatePodAfterUpgrade, UpgradePodSteps
  <2>2. /\ UNCHANGED <<sts, found, work>>
        /\ pc' \in {"deletePod", "waitForPodReady", "validatePodAfterUpgrade",
                    "upgradedPod", "upgradeFailed"}
        /\ pc' = "deletePod" => found = work.image
    BY <1>5 DEF RejectPodBeforeUpgrade, PreparePod,
       DeletePod, PodToDeleteNotFound, PodIsReady, WaitForPodTimesOut,
       validatePodAfterUpgrade, UpgradePodFails, GoTo, clusterVars
  <2>3. pc \in HoldingSteps /\ pc' \in HoldingSteps /\ pc' # "deletePods"
    BY <2>1, <2>2 DEF HoldingSteps, ManagerSteps, CarryingSteps, Steps, UpgradePodSteps
  <2> QED
    BY <2>2, <2>3, TemplateStaysKnown
<1>6. PreparePodAndTemplate =>
          \/ ~UpgradePodFails
          \/ pc = "validatePodBeforeUpgrade" /\ UpgradePodFails /\ UNCHANGED clusterVars
  BY DEF PreparePodAndTemplate, UpgradePodFails
<1> QED
  BY <1>1, <1>2, <1>3, <1>4, <1>5, <1>6

LEMMA RecreateKeepsTemplateKnown ==
    ASSUME IInv, TemplateIsKnown,
           \/ StartRecreateUpdate \/ getClusterPods \/ DeleteNextPod
           \/ AllPodsDeleted \/ WaitForPodsReady
    PROVE  TemplateIsKnown'
<1>1. CASE pc' = "idle"
  BY <1>1, TemplateDoesNotMatter
<1>2. CASE StartRecreateUpdate /\ pc' # "idle"
  <2>1. work.image \in Images /\ sts \in StatefulSets
    BY <1>2, LifeOf DEF StartRecreateUpdate, WorkIsManaged, CarryingSteps, Steps, TypeOK
  <2>2. UpdateTemplate /\ found' = work.image /\ work' = work
    BY <1>2 DEF StartRecreateUpdate, Return
  <2>3. sts'.image = work.image
    BY <2>1, <2>2, ImageWritten DEF UpdateTemplate
  <2> QED
    BY <2>2, <2>3 DEF TemplateIsKnown
<1>3. CASE (getClusterPods \/ DeleteNextPod) /\ pc' # "idle"
  BY <1>3, TemplateStaysKnown DEF getClusterPods, DeleteNextPod, Return, TemplateIsKnown,
     HoldingSteps, ManagerSteps, CarryingSteps, Steps, clusterVars
<1>4. CASE AllPodsDeleted
  <2>1. /\ pc \in HoldingSteps /\ pc' \in HoldingSteps
        /\ pc' \notin {"deletePod", "getClusterPods", "deletePods"}
        /\ UNCHANGED <<sts, found, work>>
    BY <1>4 DEF AllPodsDeleted, GoTo, clusterVars, HoldingSteps, ManagerSteps,
       CarryingSteps, Steps
  <2> QED
    BY <2>1, TemplateStaysKnown
<1>5. CASE WaitForPodsReady
  BY <1>5, TemplateDoesNotMatter DEF WaitForPodsReady, Return
<1> QED
  BY <1>1, <1>2, <1>3, <1>4, <1>5

LEMMA FaultsKeepTemplateKnown ==
    ASSUME IInv, TemplateIsKnown, ApiErrorInUpgradePod \/ ApiError \/ Crash
    PROVE  TemplateIsKnown'
<1>1. CASE ApiErrorInUpgradePod
  BY <1>1, TemplateStaysKnown DEF ApiErrorInUpgradePod, UpgradePodFails, HoldingSteps,
     ManagerSteps, CarryingSteps, Steps, UpgradePodSteps
<1>2. CASE ApiError \/ Crash
  BY <1>2, TemplateDoesNotMatter DEF ApiError, Crash, Return
<1> QED
  BY <1>1, <1>2

\* The StatefulSet controller and the garbage collector do not write the
\* template; the latter waits for the KeyDBCluster to go, and so for the worker.
LEMMA SurroundingsKeepTemplateKnown ==
    ASSUME IInv, TemplateIsKnown,
           \/ UserEdits \/ UserDeletes
           \/ InformerOfCr \/ InformerOfSts \/ InformerOfPods
           \/ \E i \in Pods : \/ PodCreation(i) \/ PodRoll(i) \/ PodReadiness(i)
                              \/ PodStart(i) \/ PodRemoval(i) \/ PodFailure(i)
           \/ StatusReport
           \/ GarbageCollection
    PROVE  TemplateIsKnown'
<1>1. CASE \/ UserEdits \/ UserDeletes
           \/ InformerOfCr \/ InformerOfSts \/ InformerOfPods
  BY <1>1, TemplateStaysKnownMeanwhile DEF UserEdits, UserDeletes, InformerOfCr,
     InformerOfSts, InformerOfPods, EditSpec, DeleteCR, SyncCr, SyncSts, SyncPods,
     clusterVars
<1>2. CASE \E i \in Pods : \/ PodCreation(i) \/ PodRoll(i) \/ PodReadiness(i)
                           \/ PodStart(i) \/ PodRemoval(i) \/ PodFailure(i)
  <2>1. UNCHANGED <<workerVars, sts, stsCache>>
    BY <1>2 DEF PodCreation, PodRoll, PodReadiness, PodStart, PodRemoval, PodFailure,
       CreatePod, RollPod, PodBecomesReady, PodStartsUnready, PodIsGone, PodFails,
       NotByTheOperator
  <2> QED
    BY <2>1, TemplateStaysKnownMeanwhile
<1>3. CASE StatusReport
  <2>1. sts \in [image : Images, replicas : Nat, ready : Nat]
    BY <1>3, ImageOf DEF StatusReport, ReportStatus, TypeOK
  <2>2. sts'.image = sts.image /\ UNCHANGED <<workerVars, stsCache>>
    BY <1>3, <2>1 DEF StatusReport, ReportStatus, ObservedStatus, NotByTheOperator
  <2> QED
    BY <2>2, TemplateStaysKnownMeanwhile
<1>4. CASE GarbageCollection
  <2>1. pc = "idle" /\ pc' = pc
    BY <1>4 DEF GarbageCollection, NotByTheOperator, workerVars, LivesAgree
  <2> QED
    BY <2>1, TemplateDoesNotMatter
<1> QED
  BY <1>1, <1>2, <1>3, <1>4

LEMMA NextKeepsTemplateKnown == IInv /\ TemplateIsKnown /\ [Next]_vars => TemplateIsKnown'
<1> SUFFICES ASSUME IInv, TemplateIsKnown, [Next]_vars PROVE TemplateIsKnown'
  OBVIOUS
<1>1. CASE ReconcileStep
  BY <1>1, ReconcileKeepsTemplateKnown, RollingKeepsTemplateKnown,
     RecreateKeepsTemplateKnown DEF ReconcileStep, UpgradeManagerStep
<1>2. CASE ApiErrorInUpgradePod \/ ApiError \/ Crash
  BY <1>2, FaultsKeepTemplateKnown
<1>3. CASE \/ UserEdits \/ UserDeletes
           \/ InformerOfCr \/ InformerOfSts \/ InformerOfPods
           \/ \E i \in Pods : \/ PodCreation(i) \/ PodRoll(i) \/ PodReadiness(i)
                              \/ PodStart(i) \/ PodRemoval(i) \/ PodFailure(i)
           \/ StatusReport
           \/ GarbageCollection
  BY <1>3, SurroundingsKeepTemplateKnown
<1>4. CASE UNCHANGED vars
  BY <1>4, TemplateStaysKnownMeanwhile DEF vars, clusterVars, storeVars
<1> QED
  BY <1>1, <1>2, <1>3, <1>4 DEF Next

\* The upgrade manager deletes a pod only when the StatefulSet at the API server
\* has the image of the upgrade, so that the pod that takes its place runs it:
\* with a stale cache, an edit of the spec or a crash in between, too.
THEOREM DeletedPodsAreUpgraded == Spec => DeletedPodsComeBackUpgraded
<1> DEFINE Upgraded == \A i \in Pods : ManagerDeletes(i) => sts.image = work.image
<1>1. Init => TemplateIsKnown
  BY InitTemplateIsKnown
<1>2. IInv /\ TemplateIsKnown /\ [Next]_vars => TemplateIsKnown'
  BY NextKeepsTemplateKnown
<1>3. TemplateIsKnown => Upgraded
  BY DEF TemplateIsKnown, ManagerDeletes, HoldingSteps, ManagerSteps, CarryingSteps,
         Steps, UpgradePodSteps
<1>4. TemplateIsKnown /\ [Next]_vars => [Upgraded]_vars
  BY <1>3
<1> QED
  BY <1>1, <1>2, <1>4, InvariantHolds, PTL DEF Spec, DeletedPodsComeBackUpgraded
=============================================================================
