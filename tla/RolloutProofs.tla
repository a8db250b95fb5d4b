---------------------------- MODULE RolloutProofs ----------------------------
(***************************************************************************)
(* Proof that an upgrade which Reconciler reports as Completed has been    *)
(* rolled out.  The invariant follows the turns of performRollingUpdate:   *)
(* once the manager has deleted the pod of a turn, that pod is on its way  *)
(* out, or gone, or back with the image of the upgrade, and stays so,      *)
(* because the template has that image and no one but the worker, which is *)
(* busy, writes it.  What the manager reads back of the pod (waitForPod,   *)
(* validatePodAfterUpgrade) is of no use here: it may be of the old pod.   *)
(***************************************************************************)
EXTENDS UpgradeProofs

USE DEF IInv

\* A pod that runs the image, or is going or gone.
IsReplaced(pod, image) == pod.image # image => pod = NoPod \/ pod.terminating

Replaced(i) == IsReplaced(pods[i], work.image)

\* The steps of a turn that come after its DELETE.
StepsAfterDelete == {"waitForPodReady", "validatePodAfterUpgrade", "upgradedPod"}

\* The k-th turn has had its DELETE.
IsOver(k) ==
    \/ k < loop
    \/ k = loop /\ pc \in StepsAfterDelete
    \/ pc = "upgradeCompleted"

\* What performRollingUpdate has done by now.
EarlierPodsAreReplaced ==
    pc \in RollingSteps \ {"upgradeFailed"} =>
        \A k \in 1 .. Len(Order) :
            IsOver(k) => found = work.image /\ Replaced(Order[k])

LEMMA InitNothingIsReplaced == Init => EarlierPodsAreReplaced
BY DEF Init, EarlierPodsAreReplaced, RollingSteps, UpgradePodSteps

\* Outside performRollingUpdate there is nothing to show.
LEMMA RolloutDoesNotMatter ==
    ASSUME pc' \notin RollingSteps \ {"upgradeFailed"}
    PROVE  EarlierPodsAreReplaced'
BY DEF EarlierPodsAreReplaced

\* What may become of a pod that has been replaced, or is about to be.
LEMMA ReplacedPodStays ==
    ASSUME NEW image, NEW pod \in PodStates, IsReplaced(pod, image), NEW next,
           \/ next \in {pod, Terminated(pod), NoPod, NewPod(image)}
           \/ next.image = pod.image /\ pod # NoPod /\ ~pod.terminating
    PROVE  IsReplaced(next, image)
<1>1. CASE next = Terminated(pod)
  BY <1>1 DEF Terminated, Exists, PodStates, IsReplaced
<1>2. CASE next # Terminated(pod)
  BY <1>2 DEF IsReplaced, NewPod
<1> QED
  BY <1>1, <1>2

\* The rollout goes on when no turn is over that was not, and no pod is brought
\* back with another image.
LEMMA RolloutStands ==
    ASSUME EarlierPodsAreReplaced, pc \in RollingSteps \ {"upgradeFailed"},
           work'.image = work.image, found' = found,
           \A k \in 1 .. Len(Order) : IsOver(k)' => IsOver(k),
           \A i \in Pods : found = work.image /\ Replaced(i) => Replaced(i)'
    PROVE  EarlierPodsAreReplaced'
<1>1. ASSUME NEW k \in 1 .. Len(Order), IsOver(k)'
      PROVE  found' = work'.image /\ Replaced(Order[k])'
  <2>1. found = work.image /\ Replaced(Order[k])
    BY <1>1 DEF EarlierPodsAreReplaced
  <2>2. Order[k] \in Pods
    BY <1>1, OrderVisitsEveryPodOnce
  <2> QED
    BY <2>1, <2>2
<1> QED
  BY <1>1 DEF EarlierPodsAreReplaced

\* The worker goes on within a turn, or to the next, and the pods stay.
LEMMA RolloutStandsWithThePods ==
    ASSUME EarlierPodsAreReplaced, pc \in RollingSteps \ {"upgradeFailed"},
           UNCHANGED <<pods, found>>, work'.image = work.image,
           \A k \in 1 .. Len(Order) : IsOver(k)' => IsOver(k)
    PROVE  EarlierPodsAreReplaced'
<1>1. \A i \in Pods : Replaced(i) => Replaced(i)'
  BY DEF Replaced
<1> QED
  BY <1>1, RolloutStands

-----------------------------------------------------------------------------
\* The invariant, action by action.

LEMMA TurnKeepsReplaced ==
    ASSUME IInv, TemplateIsKnown, EarlierPodsAreReplaced,
           \/ RejectPodBeforeUpgrade \/ PreparePod \/ PreparePodAndTemplate
           \/ DeletePod \/ PodToDeleteNotFound \/ PodIsReady \/ WaitForPodTimesOut
           \/ validatePodAfterUpgrade
    PROVE  EarlierPodsAreReplaced'
<1>1. CASE pc' = "upgradeFailed"
  BY <1>1, RolloutDoesNotMatter
<1>2. CASE /\ pc' # "upgradeFailed"
           /\ PreparePod \/ PodIsReady \/ validatePodAfterUpgrade
  <2>1. /\ pc \in RollingSteps \ {"upgradeFailed"}
        /\ UNCHANGED <<pods, found, work, loop>>
        /\ pc' \in StepsAfterDelete => pc \in StepsAfterDelete
        /\ pc' # "upgradeCompleted"
    BY <1>2 DEF PreparePod, PodIsReady, validatePodAfterUpgrade, UpgradePodFails, GoTo,
       clusterVars, RollingSteps, UpgradePodSteps, StepsAfterDelete
  <2>2. \A k \in 1 .. Len(Order) : IsOver(k)' => IsOver(k)
    BY <2>1 DEF IsOver
  <2> QED
    BY <2>1, <2>2, RolloutStandsWithThePods
<1>3. CASE PreparePodAndTemplate /\ pc' # "upgradeFailed"
  <2>1. /\ pc = "validatePodBeforeUpgrade" /\ pc' = "deletePod"
        /\ found' = work'.image /\ UNCHANGED <<pods, work, loop>>
    BY <1>3 DEF PreparePodAndTemplate, UpdateTemplate, UpgradePodFails
  <2>2. ASSUME NEW k \in 1 .. Len(Order), IsOver(k)'
        PROVE  Replaced(Order[k])'
    <3>1. IsOver(k)
      BY <2>1, <2>2 DEF IsOver, StepsAfterDelete
    <3>2. Replaced(Order[k])
      BY <2>1, <3>1 DEF EarlierPodsAreReplaced, RollingSteps, UpgradePodSteps
    <3> QED
      BY <2>1, <3>2 DEF Replaced
  <2> QED
    BY <2>1, <2>2 DEF EarlierPodsAreReplaced
<1>4. CASE DeletePod
  <2>1. /\ pc = "deletePod" /\ pc' = "waitForPodReady"
        /\ UNCHANGED <<found, work, loop>>
        /\ Exists(pods[podIndex])
        /\ pods' = [pods EXCEPT ![podIndex] = Terminated(@)]
    BY <1>4 DEF DeletePod, GoTo
  <2>2. loop \in 1 .. Len(Order) /\ podIndex \in Pods /\ pods \in [Pods -> PodStates]
    BY <2>1, OrderVisitsEveryPodOnce
       DEF ProgressIsRecorded, RollingSteps, UpgradePodSteps, podIndex, TypeOK
  <2>3. found' = work'.image
    BY <2>1 DEF TemplateIsKnown
  <2>4. Replaced(podIndex)'
    <3>1. pods'[podIndex] = Terminated(pods[podIndex])
      BY <2>1, <2>2
    <3>2. pods'[podIndex].terminating
      BY <2>1, <2>2, <3>1 DEF Terminated, Exists, PodStates
    <3> QED
      BY <2>1, <3>2 DEF Replaced, IsReplaced, podIndex
  <2>5. ASSUME NEW k \in 1 .. Len(Order), k < loop
        PROVE  Replaced(Order[k])'
    <3>1. Replaced(Order[k])
      BY <2>1, <2>5 DEF EarlierPodsAreReplaced, IsOver, RollingSteps, UpgradePodSteps
    <3>2. Order[k] \in Pods /\ pods[Order[k]] \in PodStates
      BY <2>2, OrderVisitsEveryPodOnce
    <3>3. pods'[Order[k]] \in {pods[Order[k]], Terminated(pods[Order[k]])}
      BY <2>1, <2>2, <3>2
    <3> QED
      BY <2>1, <3>1, <3>2, <3>3, ReplacedPodStays DEF Replaced
  <2> QED
    BY <2>1, <2>2, <2>3, <2>4, <2>5
       DEF EarlierPodsAreReplaced, IsOver, podIndex
<1>5. CASE RejectPodBeforeUpgrade \/ PodToDeleteNotFound \/ WaitForPodTimesOut
  BY <1>5, RolloutDoesNotMatter DEF RejectPodBeforeUpgrade, PodToDeleteNotFound,
     WaitForPodTimesOut, UpgradePodFails
<1> QED
  BY <1>1, <1>2, <1>3, <1>4, <1>5

LEMMA ProgressKeepsReplaced ==
    ASSUME IInv, EarlierPodsAreReplaced, StartRollingUpdate \/ RecordProgress
    PROVE  EarlierPodsAreReplaced'
<1>1. CASE pc' = "idle"
  BY <1>1, RolloutDoesNotMatter DEF RollingSteps, UpgradePodSteps
<1>2. CASE StartRollingUpdate /\ pc' # "idle"
  <2>1. pc' = "validatePodBeforeUpgrade" /\ loop' = 1
    BY <1>2 DEF StartRollingUpdate, Conflict, Return
  <2> QED
    BY <2>1 DEF EarlierPodsAreReplaced, IsOver, StepsAfterDelete
<1>3. CASE RecordProgress /\ pc' # "idle"
  <2>1. pc = "upgradedPod" /\ pc \in CarryingSteps /\ pc \in RollingSteps \ {"upgradeFailed"}
    BY <1>3 DEF RecordProgress, CarryingSteps, Steps, RollingSteps
  <2>2. /\ work'.image = work.image /\ UNCHANGED <<pods, found>>
        /\ \/ pc' = "validatePodBeforeUpgrade" /\ loop' = loop + 1
           \/ pc' = "upgradeCompleted" /\ loop' = loop /\ ~(loop < Len(Order))
    BY <1>3, <2>1, CarriedImageKept DEF RecordProgress, Conflict, Return, clusterVars
  <2>3. loop \in 1 .. Len(Order) /\ Len(Order) \in Nat
    BY <2>1, OrderLength, Sizes DEF ProgressIsRecorded
  <2>4. \A k \in 1 .. Len(Order) : IsOver(k)' => IsOver(k)
    BY <2>1, <2>2, <2>3 DEF IsOver, StepsAfterDelete
  <2> QED
    BY <2>1, <2>2, <2>4, RolloutStandsWithThePods
<1> QED
  BY <1>1, <1>2, <1>3

\* No other step of the worker leads into performRollingUpdate.
LEMMA OtherStepsKeepReplaced ==
    ASSUME \/ HandleDeletion \/ AddFinalizer \/ RejectSpec \/ ReconcileStatefulSet
           \/ UpgradeIsNeeded \/ NoUpgradeIsNeeded \/ InitUpgradeStatus
           \/ WriteStatus \/ RetryStatus \/ GiveUpStatus
           \/ PerformRollingUpgrade \/ CompleteUpgrade \/ FailUpgrade
           \/ StartRecreateUpdate \/ getClusterPods \/ DeleteNextPod
           \/ AllPodsDeleted \/ WaitForPodsReady
           \/ ApiErrorInUpgradePod \/ ApiError \/ Crash
    PROVE  EarlierPodsAreReplaced'
<1>1. pc' \notin RollingSteps \ {"upgradeFailed"}
  BY DEF HandleDeletion, AddFinalizer, RejectSpec, ReconcileStatefulSet, UpgradeIsNeeded,
     NoUpgradeIsNeeded, InitUpgradeStatus, WriteStatus, RetryStatus, GiveUpStatus,
     PerformRollingUpgrade, CompleteUpgrade, FailUpgrade, StartRecreateUpdate,
     getClusterPods, DeleteNextPod, AllPodsDeleted, WaitForPodsReady,
     ApiErrorInUpgradePod, ApiError, Crash,
     Conflict, Return, ReturnWith, GoTo, UpgradePodFails, workerVars, RollingSteps,
     UpgradePodSteps
<1> QED
  BY <1>1, RolloutDoesNotMatter

\* A pod that comes back comes back with the template's image.
LEMMA PodStepsKeepReplaced ==
    ASSUME IInv, NEW image, sts.image = image, NEW j \in Pods,
           \/ CreatePod(j) \/ RollPod(j) \/ PodBecomesReady(j)
           \/ PodStartsUnready(j) \/ PodIsGone(j) \/ PodFails(j),
           NEW i \in Pods, IsReplaced(pods[i], image)
    PROVE  IsReplaced(pods'[i], image)
<1>1. pods \in [Pods -> PodStates] /\ pods[i] \in PodStates /\ pods[j] \in PodStates
  BY DEF TypeOK
<1>2. CASE i # j
  <2>1. pods'[i] = pods[i]
    BY <1>1, <1>2 DEF CreatePod, RollPod, PodBecomesReady, PodStartsUnready, PodIsGone, PodFails
  <2> QED
    BY <2>1
<1>3. CASE i = j /\ (CreatePod(j) \/ RollPod(j) \/ PodIsGone(j))
  <2>1. pods'[i] \in {Terminated(pods[i]), NoPod, NewPod(image)}
    BY <1>1, <1>3 DEF CreatePod, RollPod, PodIsGone
  <2> QED
    BY <1>1, <2>1, ReplacedPodStays
<1>4. CASE i = j /\ (PodBecomesReady(j) \/ PodStartsUnready(j) \/ PodFails(j))
  <2>1. /\ pods'[i].image = pods[i].image
        /\ pods[i].ready \in {"new", "init", "False", "True"} /\ ~pods[i].terminating
    BY <1>1, <1>4 DEF PodBecomesReady, PodStartsUnready, PodFails, IsHealthy, PodStates, NoPod
  <2>2. pods[i] # NoPod
    BY <2>1 DEF NoPod
  <2> QED
    BY <1>1, <2>1, <2>2, ReplacedPodStays
<1> QED
  BY <1>2, <1>3, <1>4

LEMMA SurroundingsKeepReplaced ==
    ASSUME IInv, TemplateIsKnown, EarlierPodsAreReplaced,
           \/ UserEdits \/ UserDeletes
           \/ InformerOfCr \/ InformerOfSts \/ InformerOfPods
           \/ \E i \in Pods : \/ PodCreation(i) \/ PodRoll(i) \/ PodReadiness(i)
                              \/ PodStart(i) \/ PodRemoval(i) \/ PodFailure(i)
           \/ StatusReport
           \/ GarbageCollection
    PROVE  EarlierPodsAreReplaced'
<1>1. CASE GarbageCollection
  <2>1. pc = "idle" /\ pc' = pc
    BY <1>1 DEF GarbageCollection, NotByTheOperator, workerVars, LivesAgree
  <2> QED
    BY <2>1, RolloutDoesNotMatter DEF RollingSteps, UpgradePodSteps
<1>2. CASE \/ UserEdits \/ UserDeletes
           \/ InformerOfCr \/ InformerOfSts \/ InformerOfPods \/ StatusReport
  <2>1. UNCHANGED <<workerVars, pods>>
    BY <1>2 DEF UserEdits, UserDeletes, InformerOfCr, InformerOfSts, InformerOfPods,
       StatusReport, ReportStatus, NotByTheOperator, clusterVars
  <2> QED
    BY <2>1 DEF workerVars, EarlierPodsAreReplaced, IsOver, Replaced
<1>3. CASE \E i \in Pods : \/ PodCreation(i) \/ PodRoll(i) \/ PodReadiness(i)
                           \/ PodStart(i) \/ PodRemoval(i) \/ PodFailure(i)
  <2>1. PICK j \in Pods :
            \/ CreatePod(j) \/ RollPod(j) \/ PodBecomesReady(j)
            \/ PodStartsUnready(j) \/ PodIsGone(j) \/ PodFails(j)
    BY <1>3 DEF PodCreation, PodRoll, PodReadiness, PodStart, PodRemoval, PodFailure
  <2>2. UNCHANGED workerVars
    BY <1>3 DEF PodCreation, PodRoll, PodReadiness, PodStart, PodRemoval, PodFailure,
       NotByTheOperator
  <2>3. CASE pc \in RollingSteps \ {"upgradeFailed"}
    <3>1. found = work.image => sts.image = work.image
      BY <2>3 DEF TemplateIsKnown, HoldingSteps, ManagerSteps, CarryingSteps, Steps,
         RollingSteps, UpgradePodSteps
    <3>2. work' = work /\ found' = found
          /\ \A k \in 1 .. Len(Order) : IsOver(k)' => IsOver(k)
      BY <2>2 DEF workerVars, IsOver
    <3>3. ASSUME NEW i \in Pods, found = work.image, Replaced(i)
          PROVE  Replaced(i)'
      BY <2>1, <3>1, <3>2, <3>3, PodStepsKeepReplaced DEF Replaced
    <3> QED
      BY <2>3, <3>2, <3>3, RolloutStands
  <2>4. CASE pc \notin RollingSteps \ {"upgradeFailed"}
    BY <2>2, <2>4, RolloutDoesNotMatter DEF workerVars
  <2> QED
    BY <2>3, <2>4
<1> QED
  BY <1>1, <1>2, <1>3

LEMMA NextKeepsReplaced ==
    IInv /\ TemplateIsKnown /\ EarlierPodsAreReplaced /\ [Next]_vars
        => EarlierPodsAreReplaced'
<1> SUFFICES ASSUME IInv, TemplateIsKnown, EarlierPodsAreReplaced, [Next]_vars
             PROVE  EarlierPodsAreReplaced'
  OBVIOUS
<1>1. CASE ReconcileStep
  BY <1>1, TurnKeepsReplaced, ProgressKeepsReplaced, OtherStepsKeepReplaced
     DEF ReconcileStep, UpgradeManagerStep
<1>2. CASE ApiErrorInUpgradePod \/ ApiError \/ Crash
  BY <1>2, OtherStepsKeepReplaced
<1>3. CASE UNCHANGED vars
  BY <1>3 DEF vars, clusterVars, workerVars, EarlierPodsAreReplaced, IsOver, Replaced
<1> QED
  BY <1>1, <1>2, <1>3, SurroundingsKeepReplaced DEF Next

-----------------------------------------------------------------------------
\* Only CompleteUpgrade makes an upgrade Completed.
LEMMA OnlyCompleteUpgradeCompletes ==
    ASSUME IInv, [Next]_vars,
           cr'.status.upgrade.phase = "Completed", cr.status.upgrade.phase # "Completed"
    PROVE  CompleteUpgrade /\ cr' # cr
<1>1. cr' # cr
  OBVIOUS
<1>2. cr' # NoCR
  <2>1. NoCR.status.upgrade.phase = "nil"
    BY DEF NoCR, NoStatus, NoUpgrade
  <2> QED
    BY <2>1
<1>3. CASE \/ HandleDeletion \/ AddFinalizer \/ UserEdits \/ UserDeletes
           \/ RejectSpec \/ WriteStatus
  BY <1>2, <1>3, OtherWritesKeepUpgrade
<1>4. CASE \/ InitUpgradeStatus \/ StartRollingUpdate \/ RecordProgress
           \/ CompleteUpgrade \/ FailUpgrade
  BY <1>1, <1>4, UpgradeWritesImplementLifecycle
<1> QED
  BY <1>1, <1>3, <1>4, OthersLeaveTheKeyDBCluster

\* The image that CompleteUpgrade reports is the one the manager carries.
LEMMA CompletedImage ==
    ASSUME IInv, CompleteUpgrade, cr' # cr
    PROVE  cr'.status.currentImage = work.image
<1>1. pc \in CarryingSteps /\ pc \in RollingSteps
  BY DEF CompleteUpgrade, CarryingSteps, Steps, RollingSteps
<1>2. PICK u : u = [work.status.upgrade EXCEPT !.phase = "Completed"]
  OBVIOUS
<1>3. u \in UpgradeStatuses
  BY <1>1, <1>2, CarriedUpgrade DEF UpgradeStatuses
<1>4. work.status \in Statuses /\ work.image \in Images
  BY <1>1, LifeOf DEF WorkIsManaged
<1>5. PICK status : status = [WithUpgrade(u) EXCEPT !.currentImage = work.image]
  OBVIOUS
<1>6. status \in Statuses /\ status.currentImage = work.image
  BY <1>3, <1>4, <1>5, UpgradeWritten DEF WithUpgrade, Statuses
<1>7. "crWork" \in current /\ cr' = [cr EXCEPT !.status = status]
  BY <1>2, <1>5 DEF CompleteUpgrade, ReturnWith
<1> QED
  BY <1>1, <1>6, <1>7, AcceptedStatus

\* What CompletedMeansRolledOut says of a step.
RolledOutWhenCompleted ==
    cr'.status.upgrade.phase = "Completed" /\ cr.status.upgrade.phase # "Completed"
        => \A i \in Pods : IsReplaced(pods[i], cr'.status.currentImage)

LEMMA StepsCompleteWhatIsRolledOut ==
    ASSUME IInv, EarlierPodsAreReplaced, [Next]_vars
    PROVE  RolledOutWhenCompleted
<1> SUFFICES ASSUME cr'.status.upgrade.phase = "Completed",
                    cr.status.upgrade.phase # "Completed",
                    NEW i \in Pods
             PROVE  IsReplaced(pods[i], cr'.status.currentImage)
  BY DEF RolledOutWhenCompleted
<1>1. CompleteUpgrade /\ cr' # cr
  BY OnlyCompleteUpgradeCompletes
<1>2. cr'.status.currentImage = work.image
  BY <1>1, CompletedImage
<1>3. pc = "upgradeCompleted" /\ pc \in RollingSteps \ {"upgradeFailed"}
  BY <1>1 DEF CompleteUpgrade, RollingSteps
<1>4. PICK k \in 1 .. Len(Order) : Order[k] = i
  BY EveryPodHasATurn
<1>5. Replaced(i)
  BY <1>3, <1>4 DEF EarlierPodsAreReplaced, IsOver
<1> QED
  BY <1>2, <1>5 DEF Replaced

\* Edits in the middle of an upgrade, stale caches, pods that fail or are rolled
\* by Kubernetes meanwhile, errors and crashes notwithstanding: an upgrade that
\* performRollingUpdate reports as Completed has left no pod behind.
THEOREM CompletedUpgradesAreRolledOut == Spec => CompletedMeansRolledOut
<1>1. Init => TemplateIsKnown /\ EarlierPodsAreReplaced
  BY InitTemplateIsKnown, InitNothingIsReplaced
<1>2. IInv /\ TemplateIsKnown /\ EarlierPodsAreReplaced /\ [Next]_vars
          => TemplateIsKnown' /\ EarlierPodsAreReplaced'
  BY NextKeepsTemplateKnown, NextKeepsReplaced
<1>3. IInv /\ EarlierPodsAreReplaced /\ [Next]_vars => [RolledOutWhenCompleted]_vars
  BY StepsCompleteWhatIsRolledOut
<1> QED
  BY <1>1, <1>2, <1>3, InvariantHolds, PTL
     DEF Spec, CompletedMeansRolledOut, RolledOutWhenCompleted, IsReplaced
=============================================================================
