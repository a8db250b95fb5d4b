--------------------------- MODULE LeadershipProofs ---------------------------
(***************************************************************************)
(* Proofs about Leadership: with a change of leader and a call of the old  *)
(* leader that arrives whenever it likes, the invariant of Reconciler      *)
(* still holds, and with it what the user has asked for and what           *)
(* ValidateKeyDBCluster has refused.                                       *)
(***************************************************************************)
EXTENDS Leadership, UpgradeProofs

Calls ==
    [op : {"none", "over", "finalizer", "status", "create", "template", "delete"},
     isCurrent : BOOLEAN, life : {"gone", "managed"}, status : Statuses,
     image : Images \cup {NoImage}, pod : Nat]

\* A call that would be accepted fits what it writes to: the finalizer goes only
\* from an object whose deletion the new leader knows of, so that the new leader
\* is not at work on it.  What any call writes has been validated.
LateIsKnown ==
    /\ late \in Calls
    /\ late.op = "finalizer" /\ late.isCurrent =>
           \/ late.life = "managed" /\ cr.life = "new"
           \/ /\ late.life = "gone" /\ cr.life = "deleting"
              /\ crCache.life = "deleting" /\ pc = "idle"
    /\ late.op = "status" /\ late.isCurrent => cr.life # "gone"
    /\ late.op \in {"create", "template"} => late.image \in Images \ Invalid

LeadershipIInv == IInv /\ LateIsKnown

USE DEF IInv

-----------------------------------------------------------------------------
\* Lemmas about the calls.

LEMMA NoCallIsKnown == NoCall \in Calls /\ NoMoreCalls \in Calls
BY DEF NoCall, NoMoreCalls, Calls, Statuses, NoStatus, UpgradeStatuses

\* The fields of the calls.

LEMMA FinalizerCallMade ==
    ASSUME NEW isCurrent \in BOOLEAN, NEW life \in {"gone", "managed"},
           NEW call, call = [NoCall EXCEPT !.op = "finalizer", !.isCurrent = isCurrent,
                                           !.life = life]
    PROVE  /\ call \in Calls /\ call.op = "finalizer"
           /\ call.isCurrent = isCurrent /\ call.life = life
BY NoCallIsKnown DEF Calls

LEMMA StatusCallMade ==
    ASSUME NEW isCurrent \in BOOLEAN, NEW status \in Statuses,
           NEW call, call = [NoCall EXCEPT !.op = "status", !.isCurrent = isCurrent,
                                           !.status = status]
    PROVE  call \in Calls /\ call.op = "status" /\ call.isCurrent = isCurrent
BY NoCallIsKnown DEF Calls

LEMMA CreateCallMade ==
    ASSUME NEW image \in Images,
           NEW call, call = [NoCall EXCEPT !.op = "create", !.image = image]
    PROVE  call \in Calls /\ call.op = "create" /\ call.image = image
BY NoCallIsKnown DEF Calls

LEMMA DeleteCallMade ==
    ASSUME NEW pod \in Nat,
           NEW call, call = [NoCall EXCEPT !.op = "delete", !.pod = pod]
    PROVE  call \in Calls /\ call.op = "delete"
BY NoCallIsKnown DEF Calls

\* Reconcile leaves a KeyDBCluster alone that the cache shows as deleted.
LEMMA DeletingStaysIdle ==
    ASSUME [Next]_vars, pc = "idle", crCache.life = "deleting",
           cr.life = "deleting", cr' = cr
    PROVE  pc' = "idle" /\ crCache'.life = "deleting"
<1>1. CASE ReconcileStep
  <2>1. HandleDeletion
    BY <1>1 DEF ReconcileStep, UpgradeManagerStep, AddFinalizer, RejectSpec,
       ReconcileStatefulSet, UpgradeIsNeeded, NoUpgradeIsNeeded, InitUpgradeStatus,
       WriteStatus, RetryStatus, GiveUpStatus, PerformRollingUpgrade, StartRollingUpdate,
       RejectPodBeforeUpgrade, PreparePod, PreparePodAndTemplate, DeletePod,
       PodToDeleteNotFound, PodIsReady, WaitForPodTimesOut, validatePodAfterUpgrade,
       RecordProgress, CompleteUpgrade, FailUpgrade, StartRecreateUpdate, getClusterPods,
       DeleteNextPod, AllPodsDeleted, WaitForPodsReady
  <2> QED
    BY <2>1 DEF HandleDeletion, workerVars
<1>2. CASE ApiErrorInUpgradePod \/ ApiError \/ Crash
  BY <1>2 DEF ApiErrorInUpgradePod, ApiError, Crash, UpgradePodSteps
<1>3. CASE \/ UserEdits \/ UserDeletes
           \/ InformerOfCr \/ InformerOfSts \/ InformerOfPods
  BY <1>3 DEF UserEdits, UserDeletes, EditSpec, DeleteCR, InformerOfCr, InformerOfSts,
     InformerOfPods, SyncCr, SyncSts, SyncPods, workerVars
<1>4. CASE \/ \E i \in Pods : \/ PodCreation(i) \/ PodRoll(i) \/ PodReadiness(i)
                              \/ PodStart(i) \/ PodRemoval(i) \/ PodFailure(i)
           \/ StatusReport
           \/ GarbageCollection
  BY <1>4 DEF PodCreation, PodRoll, PodReadiness, PodStart, PodRemoval, PodFailure,
     StatusReport, GarbageCollection, NotByTheOperator, workerVars, crVars
<1>5. CASE UNCHANGED vars
  BY <1>5 DEF vars, storeVars, workerVars
<1> QED
  BY <1>1, <1>2, <1>3, <1>4, <1>5 DEF Next

\* A step of the model without the call: what it writes takes the call out of date.
LEMMA NextKeepsLate ==
    ASSUME IInv, LateIsKnown, [Next]_vars,
           late' = [late EXCEPT !.isCurrent = CallIsStillCurrent]
    PROVE  LateIsKnown'
<1>1. CallIsStillCurrent \in BOOLEAN
  BY DEF CallIsStillCurrent
<1>2. /\ late' \in Calls /\ late'.op = late.op /\ late'.life = late.life
      /\ late'.image = late.image /\ late'.isCurrent = CallIsStillCurrent
  BY <1>1 DEF LateIsKnown, Calls
<1>3. CASE late.op = "finalizer" /\ CallIsStillCurrent
  BY <1>2, <1>3, DeletingStaysIdle DEF LateIsKnown, CallIsStillCurrent
<1>4. CASE late.op = "status" /\ CallIsStillCurrent
  BY <1>2, <1>4 DEF LateIsKnown, CallIsStillCurrent
<1>5. CASE late.op \notin {"finalizer", "status"} \/ ~CallIsStillCurrent
  BY <1>2, <1>5 DEF LateIsKnown
<1> QED
  BY <1>3, <1>4, <1>5

-----------------------------------------------------------------------------
\* The lease is lost.

\* What the old leader was about to write to the status is a status.
LEMMA StatusUnderWayIsAStatus ==
    ASSUME IInv, StatusCall
    PROVE  StatusUnderWay \in Statuses
<1>1. crCache.status \in Statuses /\ \A p \in {"Pending", "Running", "Failed"} :
          [crCache.status EXCEPT !.phase = p] \in Statuses
  BY LifeOf, PhaseWritten DEF TypeOK
<1>2. CASE pc = "idle"
  BY <1>1, <1>2 DEF StatusUnderWay
<1>3. CASE pc = "updateStatusWithRetry"
  BY <1>1, <1>3 DEF StatusUnderWay, PhaseOf
<1>4. CASE pc \in {"initUpgradeStatus", "performRollingUpdate", "upgradedPod",
                   "upgradeFailed", "upgradeCompleted"}
  <2>1. pc \in CarryingSteps
    BY <1>4 DEF CarryingSteps, Steps
  <2>2. work.image \in Images /\ work.status \in Statuses
    BY <2>1, LifeOf DEF WorkIsManaged
  <2>3. CASE pc = "initUpgradeStatus"
    <3>1. [NoUpgrade EXCEPT !.phase = "Starting", !.target = work.image] \in UpgradeStatuses
      BY <2>2 DEF NoUpgrade, UpgradeStatuses
    <3> QED
      BY <2>2, <2>3, <3>1, UpgradeWritten DEF StatusUnderWay, WithUpgrade
  <2>4. CASE pc # "initUpgradeStatus"
    <3> DEFINE upgrade == work.status.upgrade
    <3>1. pc \in ManagerSteps
      BY <1>4, <2>1, <2>4 DEF ManagerSteps
    <3>2. upgrade \in [phase : {"Starting", "InProgress", "Completed", "Failed"},
                       target : Images, upgraded : Nat, total : Nat]
      BY <2>2, <3>1, UpgradeOf DEF WorkIsManaged
    <3>3. /\ [upgrade EXCEPT !.phase = "InProgress", !.total = calculateReplicas]
                 \in UpgradeStatuses
          /\ [upgrade EXCEPT !.upgraded = @ + 1] \in UpgradeStatuses
          /\ [upgrade EXCEPT !.phase = "Failed"] \in UpgradeStatuses
          /\ [upgrade EXCEPT !.phase = "Completed"] \in UpgradeStatuses
      <4> HIDE DEF upgrade
      <4>1. calculateReplicas \in Nat /\ upgrade.upgraded + 1 \in Nat
        BY <3>2, Sizes
      <4>2. [upgrade EXCEPT !.phase = "InProgress", !.total = calculateReplicas]
                 \in UpgradeStatuses
        BY <3>2, <4>1 DEF UpgradeStatuses
      <4>3. [upgrade EXCEPT !.upgraded = @ + 1] \in UpgradeStatuses
        BY <3>2, <4>1 DEF UpgradeStatuses
      <4>4. /\ [upgrade EXCEPT !.phase = "Failed"] \in UpgradeStatuses
            /\ [upgrade EXCEPT !.phase = "Completed"] \in UpgradeStatuses
        BY <3>2 DEF UpgradeStatuses
      <4> QED
        BY <4>2, <4>3, <4>4
    <3>4. CASE pc = "performRollingUpdate"
      BY <2>2, <3>3, <3>4, UpgradeWritten DEF StatusUnderWay, WithUpgrade
    <3>5. CASE pc = "upgradedPod"
      BY <2>2, <3>3, <3>5, UpgradeWritten DEF StatusUnderWay, WithUpgrade
    <3>6. CASE pc = "upgradeFailed"
      BY <2>2, <3>3, <3>6, UpgradeWritten DEF StatusUnderWay, WithUpgrade
    <3>7. CASE pc = "upgradeCompleted"
      BY <2>2, <3>3, <3>7, UpgradeWritten DEF StatusUnderWay, WithUpgrade
    <3> QED
      BY <1>4, <2>4, <3>4, <3>5, <3>6, <3>7
  <2> QED
    BY <2>3, <2>4
<1> QED
  BY <1>2, <1>3, <1>4 DEF StatusCall

LEMMA LeaseIsLostKeepsLate ==
    ASSUME IInv, LeaseIsLost
    PROVE  LateIsKnown'
<1>1. /\ pc' = "idle" /\ crCache' = cr /\ cr' = cr /\ sts' = sts
  BY DEF LeaseIsLost, clusterVars
<1>2. /\ NoCall \in Calls
      /\ DOMAIN NoCall = {"op", "isCurrent", "life", "status", "image", "pod"}
  BY NoCallIsKnown DEF NoCall
<1>3. crCache.life \in {"managed", "deleting", "new"} => crCache \in KeyDBClusters
  BY LifeOf DEF TypeOK
<1>4. CASE FinalizerCall
  <2> DEFINE life == IF crCache.life = "new" THEN "managed" ELSE "gone"
             isCurrent == "crCache" \in current
  <2>1. /\ crCache.life \in {"new", "deleting"}
        /\ late' = [NoCall EXCEPT !.op = "finalizer", !.isCurrent = isCurrent, !.life = life]
    BY <1>4 DEF FinalizerCall
  <2>2. life \in {"gone", "managed"} /\ isCurrent \in BOOLEAN
    OBVIOUS
  <2> HIDE DEF life, isCurrent
  <2>3. /\ late' \in Calls /\ late'.op = "finalizer"
        /\ late'.isCurrent = isCurrent /\ late'.life = life
    BY <2>1, <2>2, FinalizerCallMade
  <2>4. isCurrent => crCache = cr
    BY DEF isCurrent, CurrentCopiesAreExact
  <2> QED
    BY <1>1, <2>1, <2>3, <2>4 DEF LateIsKnown, life
<1>5. CASE StatusCall
  <2> DEFINE isCurrent == (IF pc \in {"idle", "updateStatusWithRetry"}
                           THEN "crCache" ELSE "crWork") \in current
  <2>1. late' = [NoCall EXCEPT !.op = "status", !.isCurrent = isCurrent,
                               !.status = StatusUnderWay]
    BY <1>5 DEF StatusCall
  <2>2. isCurrent \in BOOLEAN
    OBVIOUS
  <2>3. isCurrent => cr.life # "gone"
    <3>1. CASE pc = "idle"
      BY <1>5, <3>1 DEF StatusCall, CurrentCopiesAreExact
    <3>2. CASE pc # "idle"
      BY <3>2 DEF LivesAgree
    <3> QED
      BY <3>1, <3>2
  <2> HIDE DEF isCurrent
  <2>4. late' \in Calls /\ late'.op = "status" /\ late'.isCurrent = isCurrent
    BY <1>5, <2>1, <2>2, StatusUnderWayIsAStatus, StatusCallMade
  <2> QED
    BY <1>1, <2>3, <2>4 DEF LateIsKnown
<1>6. CASE CreateCall
  <2>1. crCache.image \in Images \ Invalid
    BY <1>3, <1>6, LifeOf DEF CreateCall, IsValid
  <2>2. late' \in Calls /\ late'.op = "create" /\ late'.image = crCache.image
    BY <1>6, <2>1, CreateCallMade DEF CreateCall
  <2> QED
    BY <2>1, <2>2 DEF LateIsKnown
<1>7. CASE TemplateCall
  <2>1. PICK image \in Images \ Invalid, copy \in Copies :
            late' = [NoCall EXCEPT !.op = "template", !.image = image,
                                   !.isCurrent = copy \in current]
    <3>1. CASE pc = "idle"
      <4>1. /\ crCache.life = "managed" /\ IsValid(crCache)
            /\ late' = [NoCall EXCEPT !.op = "template", !.image = crCache.image,
                                      !.isCurrent = "stsCache" \in current]
        BY <1>7, <3>1 DEF TemplateCall
      <4>2. crCache.image \in Images \ Invalid
        BY <1>3, <4>1, LifeOf DEF IsValid
      <4> QED
        BY <4>1, <4>2 DEF Copies
    <3>2. CASE pc # "idle"
      <4>1. /\ pc \in {"performRecreateUpdate", "validatePodBeforeUpgrade"}
            /\ late' = [NoCall EXCEPT !.op = "template", !.image = work.image,
                                      !.isCurrent = "stsWork" \in current]
        BY <1>7, <3>2 DEF TemplateCall
      <4>2. pc \in CarryingSteps
        BY <4>1 DEF CarryingSteps, Steps, UpgradePodSteps
      <4>3. work.image \in Images \ Invalid
        BY <4>2, LifeOf DEF WorkIsManaged, IsValid
      <4> QED
        BY <4>1, <4>3 DEF Copies
    <3> QED
      BY <3>1, <3>2
  <2>2. late' \in Calls /\ late'.op = "template" /\ late'.image = image
    <3> DEFINE isCurrent == copy \in current
    <3>1. isCurrent \in BOOLEAN
      OBVIOUS
    <3>2. late' = [NoCall EXCEPT !.op = "template", !.image = image, !.isCurrent = isCurrent]
      BY <2>1
    <3>3. image \in Images
      OBVIOUS
    <3> HIDE DEF isCurrent
    <3> QED
      BY <3>1, <3>2, <3>3, NoCallIsKnown DEF Calls
  <2> QED
    BY <2>2 DEF LateIsKnown
<1>8. CASE DeleteCall
  <2>1. PICK i \in (IF pc = "deletePod" THEN {podIndex} ELSE doomed) :
            late' = [NoCall EXCEPT !.op = "delete", !.pod = i]
    BY <1>8 DEF DeleteCall
  <2>2. i \in Pods
    BY <2>1, OrderVisitsEveryPodOnce
       DEF ProgressIsRecorded, RollingSteps, UpgradePodSteps, podIndex, TypeOK
  <2>3. i \in Nat
    BY <2>2, Sizes DEF Pods
  <2>4. late' \in Calls /\ late'.op = "delete"
    BY <2>1, <2>3, DeleteCallMade
  <2> QED
    BY <2>4 DEF LateIsKnown
<1> QED
  BY <1>4, <1>5, <1>6, <1>7, <1>8 DEF LeaseIsLost

LEMMA LeaseIsLostKeepsIInv ==
    ASSUME IInv, LeaseIsLost
    PROVE  IInv'
<1>1. TypeOK'
  BY DEF LeaseIsLost, TypeOK, Copies, Steps, clusterVars
<1>2. CurrentCopiesAreExact'
  BY DEF LeaseIsLost, CurrentCopiesAreExact, clusterVars
<1>3. LivesAgree'
  BY DEF LeaseIsLost, LivesAgree
<1>4. WorkIsManaged' /\ ProgressIsRecorded'
  BY DEF LeaseIsLost, WorkIsManaged, ProgressIsRecorded, CarryingSteps, ManagerSteps,
         HoldingSteps, RollingSteps, UpgradePodSteps
<1>5. InvalidSpecIsNeverApplied'
  BY DEF LeaseIsLost, InvalidSpecIsNeverApplied, clusterVars
<1> QED
  BY <1>1, <1>2, <1>3, <1>4, <1>5

-----------------------------------------------------------------------------
\* The call arrives.

\* A late write of the KeyDBCluster, which the new leader's copies do not show.
LEMMA LateCrWriteKeepsIInv ==
    ASSUME IInv, NotTheNewLeader, UNCHANGED <<sts, pods>>, current' = current \ OfCr,
           cr' \in KeyDBClusters \cup {NoCR},
           \/ cr'.life = cr.life
           \/ cr.life = "new" /\ cr'.life = "managed"
           \/ pc = "idle" /\ crCache.life = "deleting" /\ cr'.life = "gone"
    PROVE  IInv'
<1>1. TypeOK'
  BY DEF TypeOK, NotTheNewLeader, workerVars
<1>2. CurrentCopiesAreExact'
  BY DEF CurrentCopiesAreExact, NotTheNewLeader, workerVars, OfCr
<1>3. LivesAgree'
  BY DEF LivesAgree, NotTheNewLeader, workerVars
<1>4. WorkIsManaged' /\ ProgressIsRecorded'
  BY DEF WorkIsManaged, ProgressIsRecorded, NotTheNewLeader, workerVars
<1>5. InvalidSpecIsNeverApplied'
  BY DEF InvalidSpecIsNeverApplied
<1> QED
  BY <1>1, <1>2, <1>3, <1>4, <1>5

\* A late write of the StatefulSet, or of a pod.
LEMMA LateStsWriteKeepsIInv ==
    ASSUME IInv, NotTheNewLeader, cr' = cr,
           \/ UNCHANGED <<sts, current>>
           \/ sts'.image \notin Invalid /\ current' = current \ OfSts,
           sts' \in StatefulSets, pods' \in [Pods -> PodStates]
    PROVE  IInv'
<1>1. TypeOK'
  BY DEF TypeOK, NotTheNewLeader, workerVars
<1>2. CurrentCopiesAreExact'
  BY DEF CurrentCopiesAreExact, NotTheNewLeader, workerVars, OfSts
<1>3. LivesAgree'
  BY DEF LivesAgree, NotTheNewLeader, workerVars
<1>4. WorkIsManaged' /\ ProgressIsRecorded'
  BY DEF WorkIsManaged, ProgressIsRecorded, NotTheNewLeader, workerVars
<1>5. InvalidSpecIsNeverApplied'
  BY DEF InvalidSpecIsNeverApplied
<1> QED
  BY <1>1, <1>2, <1>3, <1>4, <1>5

\* What a late write of the KeyDBCluster makes of it: neither the spec nor a
\* deletion is touched.
LEMMA LateCrWrite ==
    ASSUME IInv, LateIsKnown, LateFinalizer \/ LateStatus
    PROVE  /\ cr' \in KeyDBClusters \cup {NoCR}
           /\ \/ cr'.life = cr.life
              \/ cr.life = "new" /\ cr'.life = "managed"
              \/ /\ pc = "idle" /\ crCache.life = "deleting"
                 /\ cr.life = "deleting" /\ cr' = NoCR /\ cr'.life = "gone"
           /\ cr' # NoCR => cr'.image = cr.image /\ cr'.strategy = cr.strategy
<1>1. late.status \in Statuses /\ (cr.life # "gone" => cr \in KeyDBClusters)
  BY LifeOf DEF LateIsKnown, Calls, TypeOK
<1>2. CASE LateFinalizer /\ late.life = "managed"
  <2>1. cr.life = "new" /\ cr \in KeyDBClusters /\ cr' = [cr EXCEPT !.life = "managed"]
    BY <1>1, <1>2 DEF LateFinalizer, LateIsKnown
  <2> QED
    BY <2>1 DEF KeyDBClusters
<1>3. CASE LateFinalizer /\ late.life # "managed"
  <2>1. late.life = "gone"
    BY <1>3 DEF LateIsKnown, Calls
  <2>2. /\ cr' = NoCR /\ cr.life = "deleting"
        /\ crCache.life = "deleting" /\ pc = "idle"
    BY <1>3, <2>1 DEF LateFinalizer, LateIsKnown
  <2> QED
    BY <2>2 DEF NoCR
<1>4. CASE LateStatus
  <2>1. cr \in KeyDBClusters /\ cr' = [cr EXCEPT !.status = late.status]
    BY <1>1, <1>4 DEF LateStatus, LateIsKnown
  <2> QED
    BY <1>1, <2>1, StatusWritten
<1> QED
  BY <1>2, <1>3, <1>4

LEMMA CallArrivesKeepsIInv ==
    ASSUME LeadershipIInv, CallArrives
    PROVE  LeadershipIInv'
<1> USE DEF LeadershipIInv
<1>1. late' \in Calls /\ late'.op = "over" /\ LateIsKnown'
  BY NoCallIsKnown DEF CallArrives, LateIsKnown, NoMoreCalls, NoCall
<1>2. CASE LateFinalizer \/ LateStatus
  <2>1. NotTheNewLeader /\ UNCHANGED <<sts, pods>> /\ current' = current \ OfCr
    BY <1>2 DEF LateFinalizer, LateStatus
  <2> QED
    BY <1>1, <1>2, <2>1, LateCrWrite, LateCrWriteKeepsIInv
<1>3. CASE LateCreate \/ LateTemplate
  <2>1. late.image \in Images \ Invalid
    BY <1>3 DEF LateCreate, LateTemplate, LateIsKnown
  <2>2. /\ NotTheNewLeader /\ cr' = cr /\ pods' = pods /\ current' = current \ OfSts
        /\ sts' = [sts EXCEPT !.image = late.image]
    BY <1>3 DEF LateCreate, LateTemplate
  <2>3. sts' \in StatefulSets /\ sts'.image = late.image
    BY <2>1, <2>2, ImageWritten DEF TypeOK
  <2> QED
    BY <1>1, <2>1, <2>2, <2>3, LateStsWriteKeepsIInv DEF TypeOK
<1>4. CASE LateDelete
  <2>1. NotTheNewLeader /\ UNCHANGED <<sts, cr, current>>
    BY <1>4 DEF LateDelete
  <2>2. pods' \in [Pods -> PodStates]
    BY <1>4, PodTerminated DEF LateDelete, TypeOK
  <2> QED
    BY <1>1, <2>1, <2>2, LateStsWriteKeepsIInv DEF TypeOK
<1>5. CASE LateCallIsLost
  <2>1. [Next]_vars
    BY <1>5 DEF LateCallIsLost
  <2> QED
    BY <1>1, <2>1, NextKeepsIInv
<1> QED
  BY <1>2, <1>3, <1>4, <1>5 DEF CallArrives

-----------------------------------------------------------------------------
\* The invariant, and the theorems.

LEMMA LeadershipInitIInv == LeadershipInit => LeadershipIInv
BY InitIInv, NoCallIsKnown
   DEF LeadershipInit, LeadershipIInv, LateIsKnown, NoCall

LEMMA LeadershipNextKeepsIInv ==
    ASSUME LeadershipIInv, [LeadershipNext]_leadershipVars
    PROVE  LeadershipIInv'
<1> USE DEF LeadershipIInv
<1>1. CASE Next /\ late' = [late EXCEPT !.isCurrent = CallIsStillCurrent]
  BY <1>1, NextKeepsIInv, NextKeepsLate
<1>2. CASE LeaseIsLost
  BY <1>2, LeaseIsLostKeepsIInv, LeaseIsLostKeepsLate
<1>3. CASE CallArrives
  BY <1>3, CallArrivesKeepsIInv
<1>4. CASE UNCHANGED leadershipVars
  <2>1. UNCHANGED vars /\ late' = late
    BY <1>4 DEF leadershipVars
  <2>2. LateIsKnown'
    BY <2>1 DEF LateIsKnown, vars, clusterVars, storeVars, workerVars
  <2> QED
    BY <2>1, <2>2, NextKeepsIInv
<1> QED
  BY <1>1, <1>2, <1>3, <1>4 DEF LeadershipNext

\* A change of leader does no harm to the invariant of Reconciler: the old
\* leader's last call is refused by its resourceVersion whenever it would.
THEOREM LeadershipInvariant == LeadershipSpec => []LeadershipIInv
<1>1. LeadershipInit => LeadershipIInv
  BY LeadershipInitIInv
<1>2. LeadershipIInv /\ [LeadershipNext]_leadershipVars => LeadershipIInv'
  BY LeadershipNextKeepsIInv
<1> QED
  BY <1>1, <1>2, PTL DEF LeadershipSpec

\* No StatefulSet ever runs an image that ValidateKeyDBCluster rejects, not even
\* one that the last create or template write of the old leader brings.
THEOREM OnlyValidSpecsAcrossLeaders == LeadershipSpec => []InvalidSpecIsNeverApplied
<1>1. LeadershipIInv => InvalidSpecIsNeverApplied
  BY DEF LeadershipIInv
<1> QED
  BY <1>1, LeadershipInvariant, PTL

\* Neither the two leaders nor the old leader's last call, a finalizer update
\* with the whole object among them, undo an edit of the spec or a deletion.
THEOREM UserIntentAcrossLeaders == LeadershipSpec => UserIntentIsKept
<1>1. LeadershipIInv /\ [LeadershipNext]_leadershipVars => IntentIsKept
  <2> SUFFICES ASSUME LeadershipIInv, [LeadershipNext]_leadershipVars PROVE IntentIsKept
    OBVIOUS
  <2> USE DEF LeadershipIInv
  <2>1. CASE Next
    BY <2>1, StepsKeepIntent
  <2>2. CASE LateFinalizer \/ LateStatus
    BY <2>2, LateCrWrite DEF IntentIsKept
  <2>3. CASE cr' = cr
    BY <2>3 DEF IntentIsKept
  <2>4. CASE LateCreate \/ LateTemplate \/ LateDelete \/ LateCallIsLost \/ LeaseIsLost
             \/ UNCHANGED leadershipVars
    BY <2>3, <2>4 DEF LateCreate, LateTemplate, LateDelete, LateCallIsLost, LeaseIsLost,
       leadershipVars, vars, storeVars
  <2> QED
    BY <2>1, <2>2, <2>4 DEF LeadershipNext, CallArrives
<1> QED
  BY <1>1, LeadershipInvariant, PTL DEF LeadershipSpec, UserIntentIsKept, IntentIsKept

-----------------------------------------------------------------------------
\* The late status write and UpgradeLifecycle.

\* From one upgradeStatus to another by a step of UpgradeLifecycle, or by none.
LifecycleStep(from, to) ==
    \/ to = from
    \/ /\ from.phase = "nil" /\ to.phase = "Starting"
       /\ to.upgraded = from.upgraded /\ to.total = from.total
    \/ /\ from.phase # "nil" /\ to.phase = "InProgress" /\ to.total \in Nat
       /\ to.upgraded = from.upgraded
    \/ /\ from.phase = "InProgress" /\ to.phase = "InProgress"
       /\ to.upgraded = from.upgraded + 1 /\ to.total = from.total
    \/ /\ from.phase = "InProgress" /\ to.phase = "Completed"
       /\ from.upgraded >= from.total
       /\ to.upgraded = from.upgraded /\ to.total = from.total
    \/ /\ from.phase = "InProgress" /\ to.phase = "Failed"
       /\ to.upgraded = from.upgraded /\ to.total = from.total

\* A status write that would be accepted takes the live status one step on.
LateStatusFits ==
    late.op = "status" /\ late.isCurrent =>
        LifecycleStep(cr.status.upgrade, late.status.upgrade)

LEMMA LateStatusImplementsLifecycle ==
    ASSUME LeadershipIInv, LateStatusFits, LateStatus
    PROVE  [Lifecycle!Next]_Lifecycle!vars
<1> USE DEF LeadershipIInv
<1>1. late.op = "status" /\ late.isCurrent /\ cr' = [cr EXCEPT !.status = late.status]
  BY DEF LateStatus
<1>2. cr \in KeyDBClusters /\ cr.life # "gone" /\ late.status \in Statuses
  BY <1>1, LifeOf DEF LateIsKnown, Calls, TypeOK
<1>3. cr'.status = late.status /\ cr'.life = cr.life
  BY <1>1, <1>2, StatusWritten
<1>4. LifecycleStep(cr.status.upgrade, cr'.status.upgrade)
  BY <1>1, <1>3 DEF LateStatusFits
<1> QED
  BY <1>2, <1>3, <1>4 DEF LifecycleStep, Lifecycle!Next, Lifecycle!vars, Lifecycle!Announce,
     Lifecycle!Start, Lifecycle!Progress, Lifecycle!Complete, Lifecycle!Fail

\* The old leader's status is made of the status in the copy it works with.
LEMMA StatusUnderWayFits ==
    ASSUME IInv, StatusCall
    PROVE  LifecycleStep((IF pc \in {"idle", "updateStatusWithRetry"}
                          THEN crCache ELSE work).status.upgrade,
                         StatusUnderWay.upgrade)
<1>1. crCache.status \in Statuses
  BY LifeOf DEF TypeOK
<1>2. CASE pc \in {"idle", "updateStatusWithRetry"}
  <2>1. StatusUnderWay.upgrade = crCache.status.upgrade
    BY <1>1, <1>2, PhaseWritten DEF StatusUnderWay, PhaseOf
  <2> QED
    BY <1>2, <2>1 DEF LifecycleStep
<1>3. CASE pc = "initUpgradeStatus"
  <2>1. PICK u : u = [NoUpgrade EXCEPT !.phase = "Starting", !.target = work.image]
    OBVIOUS
  <2>2. pc \in CarryingSteps
    BY <1>3 DEF CarryingSteps, Steps
  <2>3. /\ work.image \in Images /\ work.status \in Statuses
        /\ work.status.upgrade = NoUpgrade
    BY <1>3, <2>2, LifeOf DEF WorkIsManaged
  <2>4. /\ u \in UpgradeStatuses
        /\ u.phase = "Starting" /\ u.upgraded = 0 /\ u.total = 0
    BY <2>1, <2>3 DEF UpgradeStatuses, NoUpgrade
  <2>5. StatusUnderWay.upgrade = u
    BY <1>3, <2>1, <2>3, <2>4, UpgradeWritten DEF StatusUnderWay, WithUpgrade
  <2> QED
    BY <1>3, <2>3, <2>4, <2>5 DEF LifecycleStep, NoUpgrade
<1>4. CASE pc = "performRollingUpdate"
  <2>1. PICK u : u = [work.status.upgrade EXCEPT !.phase = "InProgress",
                                                 !.total = calculateReplicas]
    OBVIOUS
  <2>2. pc \in ManagerSteps /\ pc \in CarryingSteps
    BY <1>4 DEF ManagerSteps, CarryingSteps, Steps
  <2>3. work.status \in Statuses /\ work.status.upgrade \in
            [phase : {"Starting", "InProgress", "Completed", "Failed"},
             target : Images, upgraded : Nat, total : Nat]
    BY <2>2, LifeOf, UpgradeOf DEF WorkIsManaged
  <2>4. /\ u \in UpgradeStatuses
        /\ u.phase = "InProgress" /\ u.total \in Nat
        /\ u.upgraded = work.status.upgrade.upgraded
        /\ work.status.upgrade.phase # "nil"
    BY <2>1, <2>3, Sizes DEF UpgradeStatuses
  <2>5. StatusUnderWay.upgrade = u
    <3>1. StatusUnderWay = [work.status EXCEPT !.upgrade = u]
      BY <1>4, <2>1 DEF StatusUnderWay, WithUpgrade
    <3> QED
      BY <2>3, <2>4, <3>1, UpgradeWritten
  <2> QED
    BY <1>4, <2>4, <2>5 DEF LifecycleStep
<1>5. CASE pc \in {"upgradedPod", "upgradeCompleted", "upgradeFailed"}
  <2>1. pc \in RollingSteps
    BY <1>5 DEF RollingSteps
  <2>2. /\ work.status.upgrade.phase = "InProgress"
        /\ pc = "upgradeCompleted" =>
               work.status.upgrade.upgraded >= work.status.upgrade.total
    BY <2>1, OrderLength DEF ProgressIsRecorded
  <2>3. CASE pc = "upgradedPod"
    <3>1. PICK u : u = [work.status.upgrade EXCEPT !.upgraded = @ + 1]
      OBVIOUS
    <3>2. /\ u \in UpgradeStatuses
          /\ u.phase = work.status.upgrade.phase /\ u.total = work.status.upgrade.total
          /\ u.upgraded = work.status.upgrade.upgraded + 1
      BY <2>1, <3>1, CarriedUpgrade DEF UpgradeStatuses
    <3>3. StatusUnderWay.upgrade = u
      <4>1. StatusUnderWay = [work.status EXCEPT !.upgrade = u]
        BY <2>3, <3>1 DEF StatusUnderWay, WithUpgrade
      <4> QED
        BY <2>1, <3>2, <4>1, CarriedUpgrade, UpgradeWritten
    <3> QED
      BY <2>2, <2>3, <3>2, <3>3 DEF LifecycleStep
  <2>4. CASE pc \in {"upgradeCompleted", "upgradeFailed"}
    <3>1. PICK u : u = [work.status.upgrade EXCEPT
                            !.phase = IF pc = "upgradeFailed" THEN "Failed" ELSE "Completed"]
      OBVIOUS
    <3>2. /\ u \in UpgradeStatuses
          /\ u.phase = IF pc = "upgradeFailed" THEN "Failed" ELSE "Completed"
          /\ u.total = work.status.upgrade.total
          /\ u.upgraded = work.status.upgrade.upgraded
      BY <2>1, <3>1, CarriedUpgrade DEF UpgradeStatuses
    <3>3. StatusUnderWay.upgrade = u
      <4>1. \/ StatusUnderWay = [work.status EXCEPT !.upgrade = u]
            \/ StatusUnderWay = [[work.status EXCEPT !.upgrade = u]
                                     EXCEPT !.currentImage = work.image]
        BY <2>4, <3>1 DEF StatusUnderWay, WithUpgrade
      <4>2. work.status \in Statuses /\ work.image \in Images
        BY <2>1, CarriedUpgrade
      <4>3. /\ [work.status EXCEPT !.upgrade = u].upgrade = u
            /\ [[work.status EXCEPT !.upgrade = u]
                     EXCEPT !.currentImage = work.image].upgrade = u
        BY <3>2, <4>2, UpgradeWritten
      <4> QED
        BY <4>1, <4>3
    <3> QED
      BY <2>2, <2>4, <3>2, <3>3 DEF LifecycleStep
  <2> QED
    BY <1>5, <2>3, <2>4
<1> QED
  BY <1>2, <1>3, <1>4, <1>5 DEF StatusCall

LEMMA LeaseIsLostKeepsLateStatusFits ==
    ASSUME IInv, LeaseIsLost
    PROVE  LateStatusFits'
<1>1. cr' = cr
  BY DEF LeaseIsLost
<1>2. CASE StatusCall
  <2> DEFINE copy == IF pc \in {"idle", "updateStatusWithRetry"} THEN crCache ELSE work
             name == IF pc \in {"idle", "updateStatusWithRetry"} THEN "crCache" ELSE "crWork"
  <2>1. late' = [NoCall EXCEPT !.op = "status", !.isCurrent = name \in current,
                               !.status = StatusUnderWay]
    BY <1>2 DEF StatusCall
  <2>2. late'.isCurrent = (name \in current) /\ late'.status = StatusUnderWay
    BY <2>1 DEF NoCall
  <2>3. name \in current => copy = cr
    BY DEF CurrentCopiesAreExact
  <2>4. LifecycleStep(copy.status.upgrade, StatusUnderWay.upgrade)
    BY <1>2, StatusUnderWayFits
  <2> HIDE DEF copy, name
  <2> QED
    BY <1>1, <2>2, <2>3, <2>4 DEF LateStatusFits, LifecycleStep
<1>3. CASE FinalizerCall \/ CreateCall \/ TemplateCall \/ DeleteCall
  <2>1. late'.op # "status"
    BY <1>3 DEF FinalizerCall, CreateCall, TemplateCall, DeleteCall, NoCall
  <2> QED
    BY <2>1 DEF LateStatusFits
<1> QED
  BY <1>2, <1>3 DEF LeaseIsLost

LEMMA LeadershipNextKeepsLateStatusFits ==
    ASSUME LeadershipIInv, LateStatusFits, [LeadershipNext]_leadershipVars
    PROVE  LateStatusFits'
<1>1. CASE Next /\ late' = [late EXCEPT !.isCurrent = CallIsStillCurrent]
  <2>1. /\ late'.op = late.op /\ late'.status = late.status
        /\ late'.isCurrent = CallIsStillCurrent
    BY <1>1 DEF LeadershipIInv, LateIsKnown, Calls
  <2>2. late.op = "status" /\ CallIsStillCurrent => late.isCurrent /\ cr' = cr
    BY DEF CallIsStillCurrent
  <2> QED
    BY <2>1, <2>2 DEF LateStatusFits, LifecycleStep
<1>2. CASE LeaseIsLost
  BY <1>2, LeaseIsLostKeepsLateStatusFits DEF LeadershipIInv
<1>3. CASE CallArrives
  BY <1>3 DEF CallArrives, LateStatusFits, NoMoreCalls, NoCall
<1>4. CASE UNCHANGED leadershipVars
  BY <1>4 DEF LateStatusFits, LifecycleStep, leadershipVars, vars, storeVars
<1> QED
  BY <1>1, <1>2, <1>3, <1>4 DEF LeadershipNext

LEMMA LeadershipStepsImplementLifecycle ==
    ASSUME LeadershipIInv, LateStatusFits, [LeadershipNext]_leadershipVars
    PROVE  [Lifecycle!Next]_Lifecycle!vars
<1> USE DEF LeadershipIInv
<1>1. CASE Next
  BY <1>1, StepsImplementLifecycle
<1>2. CASE LateFinalizer
  <2>1. late.life = "gone" => cr.life # "gone" /\ cr' = NoCR
    BY <1>2 DEF LateFinalizer, LateIsKnown
  <2>2. late.life # "gone" =>
            /\ cr'.status.upgrade = cr.status.upgrade
            /\ cr'.life # "gone" /\ cr.life # "gone"
    <3>1. ASSUME late.life # "gone"
          PROVE  cr.life = "new" /\ late.life = "managed" /\ cr' = [cr EXCEPT !.life = "managed"]
      BY <1>2, <3>1 DEF LateFinalizer, LateIsKnown
    <3>2. late.life # "gone" => cr \in KeyDBClusters
      BY <3>1, LifeOf DEF TypeOK
    <3> QED
      BY <3>1, <3>2 DEF KeyDBClusters
  <2> QED
    BY <2>1, <2>2, GoneIsForgotten, UpgradeKept
<1>3. CASE LateStatus
  BY <1>3, LateStatusImplementsLifecycle
<1>4. CASE \/ LateCreate \/ LateTemplate \/ LateDelete \/ LateCallIsLost \/ LeaseIsLost
           \/ UNCHANGED leadershipVars
  <2>1. cr' = cr
    BY <1>4 DEF LateCreate, LateTemplate, LateDelete, LateCallIsLost, LeaseIsLost,
       leadershipVars, vars, storeVars
  <2> QED
    BY <2>1, UpgradeKept
<1> QED
  BY <1>1, <1>2, <1>3, <1>4 DEF LeadershipNext, CallArrives

\* With a status write of the old leader that arrives while the new one is at
\* work on the same upgrade, upgradeStatus still goes through the lifecycle of
\* UpgradeLifecycle: the write is refused, or it is the next step.
THEOREM LifecycleAcrossLeaders == LeadershipSpec => ImplementsUpgradeLifecycle
<1>1. LeadershipInit => Lifecycle!Init /\ LateStatusFits
  BY InitImplementsLifecycle DEF LeadershipInit, LateStatusFits, NoCall
<1>2. LeadershipIInv /\ LateStatusFits /\ [LeadershipNext]_leadershipVars =>
          LateStatusFits' /\ [Lifecycle!Next]_Lifecycle!vars
  BY LeadershipNextKeepsLateStatusFits, LeadershipStepsImplementLifecycle
<1> QED
  BY <1>1, <1>2, LeadershipInvariant, PTL
     DEF LeadershipSpec, ImplementsUpgradeLifecycle, Lifecycle!Spec
=============================================================================
