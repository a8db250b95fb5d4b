---------------------------- MODULE TakeoverProofs ----------------------------
(***************************************************************************)
(* Proof that a change of leader in the middle of an upgrade does no harm  *)
(* to it: what the new leader's upgrade manager deletes comes back         *)
(* upgraded, and an upgrade that either leader reports as Completed has    *)
(* been rolled out.                                                        *)
(*                                                                         *)
(* Two calls of the old leader could do harm.  Its template write may come *)
(* between the new leader's look at the template and its DELETEs: as long  *)
(* as its resourceVersion is the live one, no one has written the          *)
(* StatefulSet, so that the new leader is still to write it itself.  Its   *)
(* last status write may report the upgrade Completed after the new leader *)
(* has begun another: as long as its resourceVersion is the live one, no   *)
(* one has written the KeyDBCluster, so that there is no other.            *)
(***************************************************************************)
EXTENDS LeadershipProofs, RolloutProofs

USE DEF IInv

\* The upgrade that the new leader is at is still to change the template.
TemplateIsToBeWritten ==
    /\ pc \in {"initUpgradeStatus", "PerformRollingUpgrade"} => stsCache.image # work.image
    /\ pc \in HoldingSteps => found # work.image

\* While a template write would be accepted, the new leader's cached template
\* is the live one, and its upgrade is still to change it.
LateTemplateIsKnown ==
    late.op = "template" /\ late.isCurrent =>
        "stsCache" \in current /\ TemplateIsToBeWritten

\* The new leader, and the StatefulSet, go on with the image of the upgrade that
\* the old leader has completed.
UpgradeStands(image) ==
    /\ cr.image = image /\ "crCache" \in current
    /\ sts.image = image
    /\ pc \in CarryingSteps => work.image = image
    /\ \A i \in Pods : IsReplaced(pods[i], image)

LateCompletion ==
    /\ late.op = "status" /\ late.isCurrent
    /\ late.status.upgrade.phase = "Completed"
    /\ cr.status.upgrade.phase # "Completed"

\* While the write that completes an upgrade would be accepted, the pods stay
\* as the upgrade has left them.
LateCompletionIsKnown == LateCompletion => UpgradeStands(late.status.currentImage)

TakeoverIInv ==
    /\ LeadershipIInv
    /\ TemplateIsKnown
    /\ EarlierPodsAreReplaced
    /\ LateTemplateIsKnown
    /\ LateCompletionIsKnown

-----------------------------------------------------------------------------
\* The template write, until it arrives.

\* Steps that change neither what the worker carries nor where it is in an
\* upgrade.
LEMMA TemplateIsStillToBeWritten ==
    ASSUME TemplateIsToBeWritten,
           \/ pc' \in {"idle", "checkUpgradeNeeded", "updateStatusWithRetry"}
           \/ UNCHANGED <<workerVars, stsCache>>
           \/ /\ pc \in HoldingSteps /\ pc' \in HoldingSteps
              /\ found' = found /\ work'.image = work.image
    PROVE  TemplateIsToBeWritten'
<1>1. CASE pc' \in {"idle", "checkUpgradeNeeded", "updateStatusWithRetry"}
  BY <1>1 DEF TemplateIsToBeWritten, HoldingSteps, ManagerSteps, CarryingSteps
<1>2. CASE UNCHANGED <<workerVars, stsCache>>
  BY <1>2 DEF TemplateIsToBeWritten, workerVars
<1>3. CASE /\ pc \in HoldingSteps /\ pc' \in HoldingSteps
           /\ found' = found /\ work'.image = work.image
  BY <1>3 DEF TemplateIsToBeWritten, HoldingSteps, ManagerSteps, CarryingSteps
<1> QED
  BY <1>1, <1>2, <1>3

\* A template write of the worker is a change, and takes the late one out of date.
LEMMA TemplateWriteIsAChange ==
    ASSUME IInv, TemplateIsToBeWritten, pc \in HoldingSteps, UpdateTemplate
    PROVE  sts' # sts
<1>1. work.image \in Images /\ sts \in StatefulSets
  BY LifeOf DEF WorkIsManaged, HoldingSteps, ManagerSteps, TypeOK
<1>2. sts'.image = work.image
  BY <1>1, ImageWritten DEF UpdateTemplate
<1>3. sts.image # work.image
  BY DEF UpdateTemplate, CurrentCopiesAreExact, TemplateIsToBeWritten
<1> QED
  BY <1>2, <1>3

LEMMA WorkerKeepsTemplateToBeWritten ==
    ASSUME IInv, TemplateIsToBeWritten, sts' = sts,
           ReconcileStep \/ ApiErrorInUpgradePod \/ ApiError \/ Crash
    PROVE  TemplateIsToBeWritten'
<1>1. CASE pc' \in {"idle", "checkUpgradeNeeded", "updateStatusWithRetry"}
  BY <1>1, TemplateIsStillToBeWritten
<1> SUFFICES ASSUME pc' \notin {"idle", "checkUpgradeNeeded", "updateStatusWithRetry"}
             PROVE  TemplateIsToBeWritten'
  BY <1>1
<1>2. CASE UpgradeIsNeeded
  BY <1>2 DEF UpgradeIsNeeded, IsUpgradeNeeded, GoTo, storeVars, TemplateIsToBeWritten,
     HoldingSteps, ManagerSteps
<1>3. CASE InitUpgradeStatus
  <2>1. pc = "initUpgradeStatus" /\ pc \in CarryingSteps
    BY <1>3 DEF InitUpgradeStatus, CarryingSteps, Steps
  <2>2. pc' = "PerformRollingUpgrade" /\ work'.image = work.image /\ stsCache' = stsCache
    BY <1>3, <2>1, CarriedImageKept DEF InitUpgradeStatus, UpdateStatus, Conflict, Return
  <2> QED
    BY <2>1, <2>2 DEF TemplateIsToBeWritten, HoldingSteps, ManagerSteps
<1>4. CASE PerformRollingUpgrade
  <2>1. /\ pc = "PerformRollingUpgrade" /\ found' = stsCache.image /\ work' = work
        /\ pc' \in {"performRecreateUpdate", "performRollingUpdate"}
    BY <1>4 DEF PerformRollingUpgrade
  <2> QED
    BY <2>1 DEF TemplateIsToBeWritten
<1>5. CASE StartRollingUpdate \/ RecordProgress
  <2>1. pc \in CarryingSteps /\ pc \in HoldingSteps
    BY <1>5 DEF StartRollingUpdate, RecordProgress, CarryingSteps, HoldingSteps,
       ManagerSteps, Steps
  <2>2. /\ pc' \in {"validatePodBeforeUpgrade", "upgradeCompleted"}
        /\ work'.image = work.image /\ found' = found
    BY <1>5, <2>1, CarriedImageKept
       DEF StartRollingUpdate, RecordProgress, UpdateStatus, Conflict, Return
  <2>3. pc' \in HoldingSteps
    BY <2>2 DEF HoldingSteps, ManagerSteps, CarryingSteps, Steps, UpgradePodSteps
  <2> QED
    BY <2>1, <2>2, <2>3, TemplateIsStillToBeWritten
<1>6. CASE PreparePodAndTemplate \/ StartRecreateUpdate
  <2>1. pc \in HoldingSteps
    BY <1>6 DEF PreparePodAndTemplate, StartRecreateUpdate, HoldingSteps, ManagerSteps,
       CarryingSteps, Steps, UpgradePodSteps
  <2>2. ~UpdateTemplate
    BY <2>1, TemplateWriteIsAChange
  <2>3. UpgradePodFails
    BY <1>6, <2>2 DEF PreparePodAndTemplate, StartRecreateUpdate, Return
  <2>4. pc' \in HoldingSteps /\ found' = found /\ work' = work
    BY <2>3 DEF UpgradePodFails, HoldingSteps, ManagerSteps, CarryingSteps, Steps
  <2> QED
    BY <2>1, <2>4, TemplateIsStillToBeWritten
<1>7. CASE \/ RejectPodBeforeUpgrade \/ PreparePod \/ DeletePod \/ PodToDeleteNotFound
           \/ PodIsReady \/ WaitForPodTimesOut \/ validatePodAfterUpgrade
           \/ ApiErrorInUpgradePod
  <2>1. /\ pc \in UpgradePodSteps /\ found' = found /\ work' = work
        /\ pc' \in UpgradePodSteps \cup {"upgradedPod", "upgradeFailed"}
    BY <1>7 DEF RejectPodBeforeUpgrade, PreparePod, DeletePod, PodToDeleteNotFound,
       PodIsReady, WaitForPodTimesOut, validatePodAfterUpgrade, ApiErrorInUpgradePod,
       UpgradePodFails, GoTo, UpgradePodSteps
  <2>2. pc \in HoldingSteps /\ pc' \in HoldingSteps
    BY <2>1 DEF HoldingSteps, ManagerSteps, CarryingSteps, Steps, UpgradePodSteps
  <2> QED
    BY <2>1, <2>2, TemplateIsStillToBeWritten
<1>8. CASE getClusterPods \/ DeleteNextPod \/ AllPodsDeleted
  <2>1. /\ pc \in {"getClusterPods", "deletePods"}
        /\ pc' \in {"deletePods", "waitForPodsReady"}
        /\ found' = found /\ work' = work
    BY <1>8 DEF getClusterPods, DeleteNextPod, AllPodsDeleted, Return, GoTo
  <2>2. pc \in HoldingSteps /\ pc' \in HoldingSteps
    BY <2>1 DEF HoldingSteps, ManagerSteps, CarryingSteps, Steps
  <2> QED
    BY <2>1, <2>2, TemplateIsStillToBeWritten
<1>9. CASE \/ HandleDeletion \/ AddFinalizer \/ RejectSpec \/ RetryStatus
  <2>1. pc' \in {"idle", "updateStatusWithRetry"}
    BY <1>9 DEF HandleDeletion, AddFinalizer, RejectSpec, RetryStatus, workerVars
  <2> QED
    BY <2>1
<1>10. CASE \/ ReconcileStatefulSet \/ NoUpgradeIsNeeded \/ WriteStatus \/ GiveUpStatus
            \/ CompleteUpgrade \/ FailUpgrade \/ WaitForPodsReady \/ ApiError \/ Crash
  <2>1. pc' \in {"idle", "checkUpgradeNeeded", "updateStatusWithRetry"}
    BY <1>10 DEF ReconcileStatefulSet, NoUpgradeIsNeeded, WriteStatus, GiveUpStatus,
       CompleteUpgrade, FailUpgrade, WaitForPodsReady, ApiError, Crash, Return, ReturnWith
  <2> QED
    BY <2>1
<1> QED
  BY <1>2, <1>3, <1>4, <1>5, <1>6, <1>7, <1>8, <1>9, <1>10
     DEF ReconcileStep, UpgradeManagerStep

LEMMA NextKeepsTemplateToBeWritten ==
    ASSUME IInv, TemplateIsToBeWritten, [Next]_vars, sts' = sts, "stsCache" \in current
    PROVE  TemplateIsToBeWritten'
<1>1. CASE \/ UserEdits \/ UserDeletes
           \/ InformerOfCr \/ InformerOfSts \/ InformerOfPods
           \/ \E i \in Pods : \/ PodCreation(i) \/ PodRoll(i) \/ PodReadiness(i)
                              \/ PodStart(i) \/ PodRemoval(i) \/ PodFailure(i)
           \/ StatusReport
           \/ GarbageCollection
           \/ UNCHANGED vars
  <2>1. UNCHANGED <<workerVars, stsCache>>
    BY <1>1 DEF UserEdits, UserDeletes, EditSpec, DeleteCR, InformerOfCr, InformerOfSts,
       InformerOfPods, SyncCr, SyncSts, SyncPods, PodCreation, PodRoll, PodReadiness,
       PodStart, PodRemoval, PodFailure, StatusReport, GarbageCollection,
       NotByTheOperator, vars, storeVars
  <2> QED
    BY <2>1, TemplateIsStillToBeWritten
<1>2. CASE ReconcileStep \/ ApiErrorInUpgradePod \/ ApiError \/ Crash
  BY <1>2, WorkerKeepsTemplateToBeWritten
<1> QED
  BY <1>1, <1>2 DEF Next

-----------------------------------------------------------------------------
\* The status write that completes an upgrade, until it arrives.

\* Who may write the StatefulSet while the KeyDBCluster is there.
LEMMA OnlyTheseWriteTheTemplate ==
    ASSUME [Next]_vars, cr.life # "gone"
    PROVE  \/ ReconcileStatefulSet \/ StatusReport
           \/ PreparePodAndTemplate \/ StartRecreateUpdate
           \/ sts' = sts
<1>1. CASE UpgradeManagerStep
  BY <1>1 DEF UpgradeManagerStep, PerformRollingUpgrade, StartRollingUpdate,
     RejectPodBeforeUpgrade, PreparePod, DeletePod, PodToDeleteNotFound, PodIsReady,
     WaitForPodTimesOut, validatePodAfterUpgrade, RecordProgress, CompleteUpgrade,
     FailUpgrade, getClusterPods, DeleteNextPod, AllPodsDeleted, WaitForPodsReady, clusterVars
<1>2. CASE ReconcileStep /\ ~UpgradeManagerStep
  BY <1>2 DEF ReconcileStep, HandleDeletion, AddFinalizer, RejectSpec, UpgradeIsNeeded,
     NoUpgradeIsNeeded, InitUpgradeStatus, WriteStatus, RetryStatus, GiveUpStatus, clusterVars
<1>3. CASE \/ ApiErrorInUpgradePod \/ ApiError \/ Crash \/ UserEdits \/ UserDeletes
           \/ InformerOfCr \/ InformerOfSts \/ InformerOfPods \/ UNCHANGED vars
  BY <1>3 DEF ApiErrorInUpgradePod, ApiError, Crash, UserEdits, UserDeletes, InformerOfCr,
     InformerOfSts, InformerOfPods, clusterVars, vars
<1>4. CASE \E i \in Pods : \/ PodCreation(i) \/ PodRoll(i) \/ PodReadiness(i)
                           \/ PodStart(i) \/ PodRemoval(i) \/ PodFailure(i)
  BY <1>4 DEF PodCreation, PodRoll, PodReadiness, PodStart, PodRemoval, PodFailure,
     CreatePod, RollPod, PodBecomesReady, PodStartsUnready, PodIsGone, PodFails
<1> QED
  BY <1>1, <1>2, <1>3, <1>4 DEF Next, GarbageCollection

\* Where the object that the worker carries comes from.
LEMMA WhatTheWorkerCarries ==
    ASSUME [Next]_vars, pc' \notin {"idle", "updateStatusWithRetry"}
    PROVE  \/ ReconcileStatefulSet
           \/ work' = cr'
           \/ work' = work /\ pc \in CarryingSteps
           \/ UNCHANGED workerVars
<1>1. CASE UpgradeManagerStep
  BY <1>1 DEF UpgradeManagerStep, PerformRollingUpgrade, StartRollingUpdate,
     RejectPodBeforeUpgrade, PreparePod, PreparePodAndTemplate, DeletePod,
     PodToDeleteNotFound, PodIsReady, WaitForPodTimesOut, validatePodAfterUpgrade,
     RecordProgress, CompleteUpgrade, FailUpgrade, StartRecreateUpdate, getClusterPods,
     DeleteNextPod, AllPodsDeleted, WaitForPodsReady, Conflict, Return, ReturnWith, UpdateStatus,
     UpgradePodFails, GoTo, CarryingSteps, Steps, UpgradePodSteps
<1>2. CASE ReconcileStep /\ ~UpgradeManagerStep
  BY <1>2 DEF ReconcileStep, HandleDeletion, AddFinalizer, RejectSpec, UpgradeIsNeeded,
     NoUpgradeIsNeeded, InitUpgradeStatus, WriteStatus, RetryStatus, GiveUpStatus, Conflict,
     Return, UpdateStatus, GoTo, CarryingSteps, Steps, workerVars
<1>3. CASE ApiErrorInUpgradePod \/ ApiError \/ Crash
  BY <1>3 DEF ApiErrorInUpgradePod, ApiError, Crash, UpgradePodFails, Return, CarryingSteps,
     Steps, UpgradePodSteps
<1>4. CASE \/ UserEdits \/ UserDeletes \/ InformerOfCr \/ InformerOfSts \/ InformerOfPods
           \/ \E i \in Pods : \/ PodCreation(i) \/ PodRoll(i) \/ PodReadiness(i)
                              \/ PodStart(i) \/ PodRemoval(i) \/ PodFailure(i)
           \/ StatusReport
           \/ GarbageCollection
           \/ UNCHANGED vars
  BY <1>4 DEF UserEdits, UserDeletes, InformerOfCr, InformerOfSts, InformerOfPods,
     PodCreation, PodRoll, PodReadiness, PodStart, PodRemoval, PodFailure, StatusReport,
     GarbageCollection, NotByTheOperator, vars
<1> QED
  BY <1>1, <1>2, <1>3, <1>4 DEF Next

\* Who may delete or bring back a pod.
LEMMA OnlyTheseTouchThePods ==
    ASSUME [Next]_vars
    PROVE  \/ pods' = pods \/ DeletePod \/ DeleteNextPod \/ GarbageCollection
           \/ \E i \in Pods : \/ PodCreation(i) \/ PodRoll(i) \/ PodReadiness(i)
                              \/ PodStart(i) \/ PodRemoval(i) \/ PodFailure(i)
<1>1. CASE UpgradeManagerStep
  BY <1>1 DEF UpgradeManagerStep, PerformRollingUpgrade, StartRollingUpdate,
     RejectPodBeforeUpgrade, PreparePod, PreparePodAndTemplate, UpdateTemplate,
     PodToDeleteNotFound, PodIsReady, WaitForPodTimesOut, validatePodAfterUpgrade,
     RecordProgress, CompleteUpgrade, FailUpgrade, StartRecreateUpdate, getClusterPods,
     AllPodsDeleted,
     WaitForPodsReady, clusterVars
<1>2. CASE ReconcileStep /\ ~UpgradeManagerStep
  BY <1>2 DEF ReconcileStep, HandleDeletion, AddFinalizer, RejectSpec, ReconcileStatefulSet,
     UpgradeIsNeeded, NoUpgradeIsNeeded, InitUpgradeStatus, WriteStatus, RetryStatus,
     GiveUpStatus, clusterVars
<1>3. CASE \/ ApiErrorInUpgradePod \/ ApiError \/ Crash \/ UserEdits \/ UserDeletes
           \/ InformerOfCr \/ InformerOfSts \/ InformerOfPods \/ StatusReport
           \/ UNCHANGED vars
  BY <1>3 DEF ApiErrorInUpgradePod, ApiError, Crash, UserEdits, UserDeletes, InformerOfCr,
     InformerOfSts, InformerOfPods, StatusReport, ReportStatus, clusterVars, vars
<1> QED
  BY <1>1, <1>2, <1>3 DEF Next

\* The template stays: the spec asks for the same image, and so does the worker.
LEMMA StepsKeepCompletedTemplate ==
    ASSUME IInv, [Next]_vars, NEW image \in Images, UpgradeStands(image), cr.life # "gone"
    PROVE  sts'.image = image
<1>1. sts \in StatefulSets /\ sts.image = image /\ sts # NoSts
  BY ImagesAssumption DEF TypeOK, UpgradeStands, NoSts
<1>2. \A i \in Images : [sts EXCEPT !.image = i].image = i
  BY <1>1, ImageWritten
<1>3. CASE ReconcileStatefulSet
  <2>1. crCache.image = image
    BY DEF UpgradeStands, CurrentCopiesAreExact
  <2> QED
    BY <1>1, <1>2, <1>3, <2>1 DEF ReconcileStatefulSet
<1>4. CASE UpdateTemplate /\ pc \in CarryingSteps
  BY <1>2, <1>4 DEF UpdateTemplate, UpgradeStands
<1>5. CASE StatusReport
  <2>1. sts \in [image : Images, replicas : Nat, ready : Nat]
    BY <1>1, ImageOf
  <2> QED
    BY <1>1, <1>5, <2>1 DEF StatusReport, ReportStatus, ObservedStatus
<1>6. CASE PreparePodAndTemplate \/ StartRecreateUpdate
  <2>1. pc \in CarryingSteps
    BY <1>6 DEF PreparePodAndTemplate, StartRecreateUpdate, CarryingSteps, Steps, UpgradePodSteps
  <2>2. UpdateTemplate \/ sts' = sts
    BY <1>6 DEF PreparePodAndTemplate, StartRecreateUpdate, clusterVars
  <2> QED
    BY <1>1, <1>4, <2>1, <2>2
<1>7. CASE sts' = sts
  BY <1>1, <1>7
<1>8. \/ ReconcileStatefulSet \/ StatusReport \/ PreparePodAndTemplate \/ StartRecreateUpdate
      \/ sts' = sts
  BY OnlyTheseWriteTheTemplate
<1> QED
  BY <1>3, <1>5, <1>6, <1>7, <1>8

\* The worker starts from the spec, and keeps the image it carries.
LEMMA StepsKeepCompletedWork ==
    ASSUME IInv, [Next]_vars, NEW image, UpgradeStands(image), cr' = cr
    PROVE  pc' \in CarryingSteps => work'.image = image
<1> SUFFICES ASSUME pc' \in CarryingSteps PROVE work'.image = image
  OBVIOUS
<1>1. pc' \notin {"idle", "updateStatusWithRetry"}
  BY DEF CarryingSteps
<1>2. CASE ReconcileStatefulSet
  BY <1>2 DEF ReconcileStatefulSet, UpgradeStands, CurrentCopiesAreExact
<1>3. CASE work' = cr'
  BY <1>3 DEF UpgradeStands
<1>4. CASE work' = work /\ pc \in CarryingSteps
  BY <1>4 DEF UpgradeStands
<1>5. CASE UNCHANGED workerVars
  BY <1>5 DEF workerVars, UpgradeStands
<1>6. \/ ReconcileStatefulSet
      \/ work' = cr'
      \/ work' = work /\ pc \in CarryingSteps
      \/ UNCHANGED workerVars
  BY <1>1, WhatTheWorkerCarries
<1> QED
  BY <1>2, <1>3, <1>4, <1>5, <1>6

\* The pods that come back run what the template says.
LEMMA StepsKeepCompletedPods ==
    ASSUME IInv, [Next]_vars, NEW image, UpgradeStands(image), cr.life # "gone",
           NEW i \in Pods
    PROVE  IsReplaced(pods'[i], image)
<1>1. pods \in [Pods -> PodStates] /\ IsReplaced(pods[i], image) /\ sts.image = image
  BY DEF TypeOK, UpgradeStands
<1>2. CASE pods' = pods
  BY <1>1, <1>2
<1>3. CASE \E j \in Pods : pods' = [pods EXCEPT ![j] = Terminated(@)]
  <2>1. pods'[i] \in {pods[i], Terminated(pods[i])}
    BY <1>1, <1>3
  <2> QED
    BY <1>1, <2>1, ReplacedPodStays
<1>4. CASE \E j \in Pods : \/ PodCreation(j) \/ PodRoll(j) \/ PodReadiness(j)
                           \/ PodStart(j) \/ PodRemoval(j) \/ PodFailure(j)
  <2>1. PICK j \in Pods : \/ CreatePod(j) \/ RollPod(j) \/ PodBecomesReady(j)
                          \/ PodStartsUnready(j) \/ PodIsGone(j) \/ PodFails(j)
    BY <1>4 DEF PodCreation, PodRoll, PodReadiness, PodStart, PodRemoval, PodFailure
  <2> QED
    BY <1>1, <2>1, PodStepsKeepReplaced
<1>5. CASE DeletePod
  <2>1. podIndex \in Pods
    BY <1>5, OrderVisitsEveryPodOnce
       DEF DeletePod, ProgressIsRecorded, RollingSteps, UpgradePodSteps, podIndex
  <2> QED
    BY <1>3, <1>5, <2>1 DEF DeletePod
<1>6. CASE DeleteNextPod
  <2>1. doomed \subseteq Pods
    BY DEF TypeOK
  <2> QED
    BY <1>2, <1>3, <1>6, <2>1 DEF DeleteNextPod, clusterVars
<1>7. CASE GarbageCollection
  BY <1>7 DEF GarbageCollection
<1>8. \/ pods' = pods \/ DeletePod \/ DeleteNextPod \/ GarbageCollection
      \/ \E j \in Pods : \/ PodCreation(j) \/ PodRoll(j) \/ PodReadiness(j)
                         \/ PodStart(j) \/ PodRemoval(j) \/ PodFailure(j)
  BY OnlyTheseTouchThePods
<1> QED
  BY <1>2, <1>4, <1>5, <1>6, <1>7, <1>8

-----------------------------------------------------------------------------
\* What is known of the call, step by step.

LEMMA NextKeepsLateCalls ==
    ASSUME TakeoverIInv, [Next]_vars, late' = [late EXCEPT !.isCurrent = CallIsStillCurrent]
    PROVE  LateTemplateIsKnown' /\ LateCompletionIsKnown'
<1> USE DEF TakeoverIInv, LeadershipIInv
<1>1. /\ late'.op = late.op /\ late'.status = late.status
      /\ late'.isCurrent = CallIsStillCurrent
  BY DEF LateIsKnown, Calls
<1>2. LateTemplateIsKnown'
  <2> SUFFICES ASSUME late'.op = "template", late'.isCurrent
               PROVE  "stsCache" \in current' /\ TemplateIsToBeWritten'
    BY DEF LateTemplateIsKnown
  <2>1. late.op = "template" /\ late.isCurrent /\ CallIsStillCurrent
    BY <1>1 DEF CallIsStillCurrent
  <2>2. "stsCache" \in current /\ TemplateIsToBeWritten
    BY <2>1 DEF LateTemplateIsKnown
  <2>3. sts' = sts /\ "stsCache" \in current'
    BY <2>1, <2>2 DEF CallIsStillCurrent
  <2> QED
    BY <2>2, <2>3, NextKeepsTemplateToBeWritten
<1>3. LateCompletionIsKnown'
  <2> SUFFICES ASSUME LateCompletion' PROVE UpgradeStands(late.status.currentImage)'
    BY <1>1 DEF LateCompletionIsKnown, UpgradeStands
  <2>1. late.op = "status" /\ late.isCurrent /\ CallIsStillCurrent /\ cr' = cr
    BY <1>1 DEF LateCompletion, CallIsStillCurrent
  <2>2. PICK image : image = late.status.currentImage
    OBVIOUS
  <2>3. UpgradeStands(image)
    BY <1>1, <2>1, <2>2 DEF LateCompletion, LateCompletionIsKnown
  <2>4. cr.life # "gone" /\ image \in Images
    BY <2>1, <2>3, LifeOf DEF LateIsKnown, UpgradeStands, TypeOK
  <2>5. cr'.image = image /\ "crCache" \in current'
    BY <2>1, <2>3 DEF UpgradeStands, CallIsStillCurrent
  <2>6. /\ sts'.image = image
        /\ pc' \in CarryingSteps => work'.image = image
        /\ \A i \in Pods : IsReplaced(pods'[i], image)
    BY <2>1, <2>3, <2>4, StepsKeepCompletedTemplate, StepsKeepCompletedWork,
       StepsKeepCompletedPods
  <2>7. image = late.status.currentImage'
    BY <1>1, <2>2
  <2> QED
    BY <1>1, <2>2, <2>5, <2>6, <2>7 DEF UpgradeStands
<1> QED
  BY <1>2, <1>3

\* Only a call that has been sent from upgradeCompleted makes an upgrade Completed.
LEMMA CompletionUnderWay ==
    ASSUME IInv, StatusCall, StatusUnderWay.upgrade.phase = "Completed",
           (IF pc \in {"idle", "updateStatusWithRetry"} THEN crCache ELSE work)
               .status.upgrade.phase # "Completed"
    PROVE  pc = "upgradeCompleted" /\ StatusUnderWay.currentImage = work.image
<1>1. crCache.status \in Statuses
  BY LifeOf DEF TypeOK
<1>2. pc \notin {"idle", "updateStatusWithRetry"}
  BY <1>1, PhaseWritten DEF StatusUnderWay, PhaseOf
<1>3. pc \in CarryingSteps
  BY <1>2 DEF StatusCall, CarryingSteps, Steps
<1>4. work.status \in Statuses /\ work.image \in Images
  BY <1>3, LifeOf DEF WorkIsManaged
<1>5. work.status.upgrade \in UpgradeStatuses
  BY <1>4 DEF Statuses
<1>6. CASE pc \in {"initUpgradeStatus", "performRollingUpdate", "upgradedPod", "upgradeFailed"}
  <2>1. PICK u : /\ StatusUnderWay = [work.status EXCEPT !.upgrade = u]
                 /\ \/ u = [NoUpgrade EXCEPT !.phase = "Starting", !.target = work.image]
                    \/ u = [work.status.upgrade EXCEPT !.phase = "InProgress",
                                                       !.total = calculateReplicas]
                    \/ u = [work.status.upgrade EXCEPT !.upgraded = @ + 1]
                    \/ u = [work.status.upgrade EXCEPT !.phase = "Failed"]
    BY <1>6 DEF StatusUnderWay, WithUpgrade
  <2>2. StatusUnderWay.upgrade = u
    BY <1>4, <2>1 DEF Statuses
  <2>3. u.phase \in {"Starting", "InProgress", work.status.upgrade.phase, "Failed"}
    BY <1>5, <2>1 DEF NoUpgrade, UpgradeStatuses
  <2> QED
    BY <1>2, <2>2, <2>3
<1>7. CASE pc = "upgradeCompleted"
  <2>1. PICK u : StatusUnderWay = [[work.status EXCEPT !.upgrade = u]
                                       EXCEPT !.currentImage = work.image]
    BY <1>7 DEF StatusUnderWay, WithUpgrade
  <2> QED
    BY <1>4, <1>7, <2>1 DEF Statuses
<1> QED
  BY <1>2, <1>6, <1>7 DEF StatusCall

LEMMA LeaseIsLostKeepsTakeoverIInv ==
    ASSUME TakeoverIInv, LeaseIsLost
    PROVE  TakeoverIInv'
<1> USE DEF TakeoverIInv, LeadershipIInv
<1>1. /\ pc' = "idle" /\ cr' = cr /\ sts' = sts /\ pods' = pods
      /\ current' = {"crCache", "stsCache"}
  BY DEF LeaseIsLost, clusterVars
<1>2. LeadershipIInv'
  BY LeadershipNextKeepsIInv DEF LeadershipNext
<1>3. TemplateIsKnown' /\ EarlierPodsAreReplaced' /\ TemplateIsToBeWritten'
  BY <1>1, TemplateDoesNotMatter, RolloutDoesNotMatter
     DEF RollingSteps, UpgradePodSteps, TemplateIsToBeWritten, HoldingSteps, ManagerSteps,
         CarryingSteps
<1>4. LateTemplateIsKnown'
  BY <1>1, <1>3 DEF LateTemplateIsKnown
<1>5. LateCompletionIsKnown'
  <2> SUFFICES ASSUME LateCompletion' PROVE UpgradeStands(late.status.currentImage)'
    BY DEF LateCompletionIsKnown
  <2> DEFINE copy == IF pc \in {"idle", "updateStatusWithRetry"} THEN crCache ELSE work
             name == IF pc \in {"idle", "updateStatusWithRetry"} THEN "crCache" ELSE "crWork"
  <2>1. StatusCall
    <3>1. ASSUME FinalizerCall \/ CreateCall \/ TemplateCall \/ DeleteCall
          PROVE  late'.op # "status"
      BY <3>1 DEF FinalizerCall, CreateCall, TemplateCall, DeleteCall, NoCall
    <3> QED
      BY <3>1 DEF LeaseIsLost, LateCompletion
  <2>2. late' = [NoCall EXCEPT !.op = "status", !.isCurrent = name \in current,
                               !.status = StatusUnderWay]
    BY <2>1 DEF StatusCall
  <2>3. name \in current /\ late'.status = StatusUnderWay
    BY <2>2 DEF NoCall, LateCompletion
  <2>4. copy = cr
    BY <2>3 DEF CurrentCopiesAreExact
  <2>5. pc = "upgradeCompleted" /\ StatusUnderWay.currentImage = work.image
    BY <1>1, <2>1, <2>3, <2>4, CompletionUnderWay DEF LateCompletion
  <2>6. \A i \in Pods : found = work.image /\ Replaced(i)
    BY <2>5, EveryPodHasATurn DEF EarlierPodsAreReplaced, IsOver, RollingSteps
  <2>7. sts.image = work.image
    <3>1. 0 \in Pods
      BY Sizes DEF Pods
    <3>2. pc \in HoldingSteps
      BY <2>5 DEF HoldingSteps, ManagerSteps, CarryingSteps, Steps
    <3> QED
      BY <2>6, <3>1, <3>2 DEF TemplateIsKnown
  <2>8. cr.image = work.image
    BY <2>4, <2>5
  <2>9. /\ late'.status.currentImage = work.image /\ pc' \notin CarryingSteps
        /\ "crCache" \in current'
    BY <1>1, <2>3, <2>5 DEF CarryingSteps
  <2> QED
    BY <1>1, <2>6, <2>7, <2>8, <2>9 DEF UpgradeStands, Replaced
<1> QED
  BY <1>2, <1>3, <1>4, <1>5

-----------------------------------------------------------------------------
\* The call arrives.

\* Of what the worker and its pods have reached, a write that is not theirs
\* leaves what does not depend on the template.
LEMMA LateTemplateWriteIsHarmless ==
    ASSUME IInv, TemplateIsKnown, EarlierPodsAreReplaced, TemplateIsToBeWritten,
           NotTheNewLeader, pods' = pods
    PROVE  TemplateIsKnown' /\ EarlierPodsAreReplaced'
<1>1. UNCHANGED <<pc, work, found, loop, stsCache, pods>>
  BY DEF NotTheNewLeader, workerVars
<1>2. pc \notin {"deletePod", "deletePods"}
  BY DEF TemplateIsKnown, TemplateIsToBeWritten, HoldingSteps, ManagerSteps, CarryingSteps,
     Steps, UpgradePodSteps
<1>3. TemplateIsKnown'
  BY <1>1, <1>2 DEF TemplateIsKnown, TemplateIsToBeWritten
<1>4. EarlierPodsAreReplaced'
  BY <1>1 DEF EarlierPodsAreReplaced, IsOver, Replaced
<1> QED
  BY <1>3, <1>4

\* A create call is accepted only when there is no StatefulSet, and then the new
\* leader's upgrade has not written the template.
LEMMA NoTemplateToDeleteBy ==
    ASSUME IInv, TemplateIsKnown, sts = NoSts
    PROVE  TemplateIsToBeWritten
<1>1. pc \in CarryingSteps => work.image # sts.image
  BY ImagesAssumption, LifeOf DEF WorkIsManaged, NoSts
<1>2. pc \in HoldingSteps \cup {"initUpgradeStatus", "PerformRollingUpgrade"}
          => pc \in CarryingSteps
  BY DEF HoldingSteps, ManagerSteps, CarryingSteps, Steps
<1> QED
  BY <1>1, <1>2 DEF TemplateIsKnown, TemplateIsToBeWritten

LEMMA CallArrivesKeepsTakeoverIInv ==
    ASSUME TakeoverIInv, CallArrives
    PROVE  TakeoverIInv'
<1> USE DEF TakeoverIInv, LeadershipIInv
<1>1. LeadershipIInv'
  BY CallArrivesKeepsIInv
<1>2. late'.op = "over"
  BY DEF CallArrives, NoMoreCalls, NoCall
<1>3. LateTemplateIsKnown' /\ LateCompletionIsKnown'
  BY <1>2 DEF LateTemplateIsKnown, LateCompletionIsKnown, LateCompletion
<1>4. CASE LateFinalizer \/ LateStatus \/ LateCallIsLost
  <2>1. UNCHANGED <<workerVars, sts, stsCache, pods>>
    BY <1>4 DEF LateFinalizer, LateStatus, LateCallIsLost, NotTheNewLeader, vars, clusterVars,
       storeVars
  <2>2. TemplateIsKnown'
    BY <2>1, TemplateStaysKnownMeanwhile
  <2>3. EarlierPodsAreReplaced'
    BY <2>1 DEF workerVars, EarlierPodsAreReplaced, IsOver, Replaced
  <2> QED
    BY <1>1, <1>3, <2>2, <2>3
<1>5. CASE LateCreate
  <2>1. NotTheNewLeader /\ pods' = pods /\ sts = NoSts
    BY <1>5 DEF LateCreate
  <2> QED
    BY <1>1, <1>3, <2>1, NoTemplateToDeleteBy, LateTemplateWriteIsHarmless
<1>6. CASE LateTemplate
  <2>1. NotTheNewLeader /\ pods' = pods /\ TemplateIsToBeWritten
    BY <1>6 DEF LateTemplate, LateTemplateIsKnown
  <2> QED
    BY <1>1, <1>3, <2>1, LateTemplateWriteIsHarmless
<1>7. CASE LateDelete
  <2>1. /\ UNCHANGED <<workerVars, sts, stsCache>>
        /\ pods' = [pods EXCEPT ![late.pod] = Terminated(@)]
    BY <1>7 DEF LateDelete, NotTheNewLeader
  <2>2. TemplateIsKnown'
    BY <2>1, TemplateStaysKnownMeanwhile
  <2>3. pods \in [Pods -> PodStates]
    BY DEF TypeOK
  <2>4. ASSUME NEW i \in Pods, Replaced(i)
        PROVE  Replaced(i)'
    <3>1. pods'[i] \in {pods[i], Terminated(pods[i])} /\ work' = work
      BY <2>1, <2>3 DEF workerVars
    <3> QED
      BY <2>3, <2>4, <3>1, ReplacedPodStays DEF Replaced
  <2>5. EarlierPodsAreReplaced'
    <3>1. CASE pc \in RollingSteps \ {"upgradeFailed"}
      <4>1. \A k \in 1 .. Len(Order) : IsOver(k)' => IsOver(k)
        BY <2>1 DEF workerVars, IsOver
      <4> QED
        BY <2>1, <2>4, <3>1, <4>1, RolloutStands DEF workerVars
    <3>2. CASE pc \notin RollingSteps \ {"upgradeFailed"}
      BY <2>1, <3>2, RolloutDoesNotMatter DEF workerVars
    <3> QED
      BY <3>1, <3>2
  <2> QED
    BY <1>1, <1>3, <2>2, <2>5
<1> QED
  BY <1>4, <1>5, <1>6, <1>7 DEF CallArrives

-----------------------------------------------------------------------------
\* The invariant, and the theorems.

LEMMA TakeoverInit == LeadershipInit => TakeoverIInv
<1> SUFFICES ASSUME LeadershipInit PROVE TakeoverIInv
  OBVIOUS
<1>1. Init /\ late.op = "none"
  BY DEF LeadershipInit, NoCall
<1>2. LateTemplateIsKnown /\ LateCompletionIsKnown
  BY <1>1 DEF LateTemplateIsKnown, LateCompletionIsKnown, LateCompletion
<1> QED
  BY <1>1, <1>2, LeadershipInitIInv, InitTemplateIsKnown, InitNothingIsReplaced DEF TakeoverIInv

LEMMA NextKeepsTakeoverIInv ==
    ASSUME TakeoverIInv, [LeadershipNext]_leadershipVars
    PROVE  TakeoverIInv'
<1> USE DEF TakeoverIInv
<1>1. CASE Next /\ late' = [late EXCEPT !.isCurrent = CallIsStillCurrent]
  <2>1. LeadershipIInv'
    BY <1>1, LeadershipNextKeepsIInv DEF LeadershipNext
  <2>2. TemplateIsKnown' /\ EarlierPodsAreReplaced'
    BY <1>1, NextKeepsTemplateKnown, NextKeepsReplaced DEF LeadershipIInv
  <2> QED
    BY <1>1, <2>1, <2>2, NextKeepsLateCalls
<1>2. CASE LeaseIsLost
  BY <1>2, LeaseIsLostKeepsTakeoverIInv
<1>3. CASE CallArrives
  BY <1>3, CallArrivesKeepsTakeoverIInv
<1>4. CASE UNCHANGED leadershipVars
  <2>1. UNCHANGED vars /\ late' = late
    BY <1>4 DEF leadershipVars
  <2>2. LeadershipIInv' /\ TemplateIsKnown' /\ EarlierPodsAreReplaced'
    BY <1>4, <2>1, LeadershipNextKeepsIInv, NextKeepsTemplateKnown, NextKeepsReplaced
       DEF LeadershipIInv
  <2>3. UNCHANGED <<cr, sts, pods, stsCache, current, pc, work, found>>
    BY <2>1 DEF vars, clusterVars, storeVars, workerVars
  <2>4. LateTemplateIsKnown'
    BY <2>1, <2>3 DEF LateTemplateIsKnown, TemplateIsToBeWritten
  <2>5. LateCompletionIsKnown'
    BY <2>1, <2>3 DEF LateCompletionIsKnown, LateCompletion, UpgradeStands
  <2> QED
    BY <2>2, <2>4, <2>5
<1> QED
  BY <1>1, <1>2, <1>3, <1>4 DEF LeadershipNext

\* Whatever call of the old leader is under way, and whenever it arrives, it does
\* not come between the new leader's look at the template and its DELETEs, nor
\* between the end of an upgrade and the report of it.
THEOREM TakeoverInvariant == LeadershipSpec => []TakeoverIInv
<1> QED
  BY TakeoverInit, NextKeepsTakeoverIInv, PTL DEF LeadershipSpec

\* What DeletedPodsComeBackUpgraded says of a step.
DeletesUpgrade == \A i \in Pods : ManagerDeletes(i) => sts.image = work.image

\* The pods that the new leader's upgrade manager deletes come back upgraded,
\* though the old leader's last create or template write may have arrived while
\* the new one was at work on the same StatefulSet.
THEOREM DeletedPodsAcrossLeaders == LeadershipSpec => DeletedPodsComeBackUpgraded
<1>1. TakeoverIInv => DeletesUpgrade
  BY DEF TakeoverIInv, TemplateIsKnown, DeletesUpgrade, ManagerDeletes, HoldingSteps,
         ManagerSteps, CarryingSteps, Steps, UpgradePodSteps
<1>2. TakeoverIInv /\ [LeadershipNext]_leadershipVars => [DeletesUpgrade]_vars
  BY <1>1
<1> QED
  BY <1>2, TakeoverInvariant, PTL
     DEF LeadershipSpec, DeletedPodsComeBackUpgraded, DeletesUpgrade

\* An upgrade that is reported Completed has left no pod behind, whichever leader
\* has reported it: the write by which the old leader completes one is refused
\* when the new leader, or the user, has written the KeyDBCluster in between.
THEOREM CompletedUpgradesAcrossLeaders == LeadershipSpec => CompletedMeansRolledOut
<1>1. TakeoverIInv /\ [LeadershipNext]_leadershipVars => [RolledOutWhenCompleted]_vars
  <2> SUFFICES ASSUME TakeoverIInv, [LeadershipNext]_leadershipVars
               PROVE  RolledOutWhenCompleted
    OBVIOUS
  <2> USE DEF TakeoverIInv, LeadershipIInv
  <2>1. CASE Next
    BY <2>1, StepsCompleteWhatIsRolledOut
  <2>2. CASE LateStatus
    <3>1. late.op = "status" /\ late.isCurrent /\ cr' = [cr EXCEPT !.status = late.status]
      BY <2>2 DEF LateStatus
    <3>2. cr \in KeyDBClusters /\ late.status \in Statuses
      BY <3>1, LifeOf DEF LateIsKnown, Calls, TypeOK
    <3>3. cr'.status = late.status
      BY <3>1, <3>2, StatusWritten
    <3> QED
      BY <3>1, <3>3 DEF RolledOutWhenCompleted, LateCompletionIsKnown, LateCompletion,
         UpgradeStands
  <2>3. CASE LateFinalizer
    <3>1. CASE late.life = "gone"
      <4>1. cr'.status.upgrade.phase = "nil"
        BY <2>3, <3>1 DEF LateFinalizer, NoCR, NoStatus, NoUpgrade
      <4> QED
        BY <4>1 DEF RolledOutWhenCompleted
    <3>2. CASE late.life # "gone"
      <4>1. cr.life = "new" /\ cr' = [cr EXCEPT !.life = "managed"]
        BY <2>3, <3>2 DEF LateFinalizer, LateIsKnown
      <4>2. cr \in KeyDBClusters
        BY <4>1, LifeOf DEF TypeOK
      <4>3. cr'.status = cr.status
        BY <4>1, <4>2 DEF KeyDBClusters
      <4> QED
        BY <4>3 DEF RolledOutWhenCompleted
    <3> QED
      BY <3>1, <3>2
  <2>4. CASE \/ LateCreate \/ LateTemplate \/ LateDelete \/ LateCallIsLost \/ LeaseIsLost
             \/ UNCHANGED leadershipVars
    <3>1. cr' = cr
      BY <2>4 DEF LateCreate, LateTemplate, LateDelete, LateCallIsLost, LeaseIsLost,
         leadershipVars, vars, storeVars
    <3> QED
      BY <3>1 DEF RolledOutWhenCompleted
  <2> QED
    BY <2>1, <2>2, <2>3, <2>4 DEF LeadershipNext, CallArrives
<1> QED
  BY <1>1, TakeoverInvariant, PTL
     DEF LeadershipSpec, CompletedMeansRolledOut, RolledOutWhenCompleted, IsReplaced
=============================================================================
