--------------------------- MODULE ReconcilerProofs ---------------------------
(***************************************************************************)
(* Proofs about Reconciler, for every topology, set of images, number of   *)
(* edits and number of faults.                                             *)
(*                                                                         *)
(* The inductive invariant says, besides the types, four things that the   *)
(* properties rest on: copies with the live resourceVersion are exact;     *)
(* the cached KeyDBCluster is never ahead of the live one, and neither is  *)
(* gone while the worker is busy; the worker only carries a validated,     *)
(* managed KeyDBCluster; and an upgrade that is under way is recorded as   *)
(* such in the copy the manager carries.                                   *)
(***************************************************************************)
EXTENDS Reconciler, UpgradeOrderProofs, FiniteSetTheorems, TLAPS

\* The steps in which keydbCluster is needed for more than its name.
CarryingSteps == Steps \ {"idle", "updateStatusWithRetry"}

\* Those of the upgrade manager: upgradeStatus is there by then.
ManagerSteps ==
    CarryingSteps \ {"checkUpgradeNeeded", "initUpgradeStatus"}

\* Those with a copy of the StatefulSet.
HoldingSteps == ManagerSteps \ {"PerformRollingUpgrade"}

\* Those of performRollingUpdate after its first status write.
RollingSteps ==
    UpgradePodSteps \cup {"upgradedPod", "upgradeCompleted", "upgradeFailed"}

\* The cached object is not ahead of the live one; neither is gone, nor without
\* the finalizer, while Reconcile is at work.
LivesAgree ==
    /\ crCache.life = "managed" => cr.life \in {"managed", "deleting"}
    /\ crCache.life = "deleting" => cr.life \in {"deleting", "gone"}
    /\ pc # "idle" => /\ crCache.life \in {"managed", "deleting"}
                      /\ cr.life \in {"managed", "deleting"}

\* What Reconcile passes down has the finalizer, is valid, and in the manager
\* has an upgradeStatus, which initUpgradeStatus makes; the worker's copies count only while it has them.
WorkIsManaged ==
    /\ pc \in CarryingSteps =>
           work \in KeyDBClusters /\ work.life = "managed" /\ IsValid(work)
    /\ pc = "initUpgradeStatus" => work.status.upgrade = NoUpgrade
    /\ pc \in ManagerSteps => work.status.upgrade # NoUpgrade
    /\ "crWork" \in current => pc \in CarryingSteps
    /\ "stsWork" \in current => pc \in HoldingSteps

\* The manager's own record of a RollingUpdate: all earlier pods are counted.
ProgressIsRecorded ==
    /\ pc \in RollingSteps =>
           /\ work.status.upgrade.phase = "InProgress"
           /\ work.status.upgrade.total = calculateReplicas
           /\ loop \in 1 .. Len(Order)
           /\ work.status.upgrade.upgraded >= loop - 1
    /\ pc = "upgradeCompleted" => work.status.upgrade.upgraded >= Len(Order)

IInv ==
    /\ TypeOK
    /\ CurrentCopiesAreExact
    /\ LivesAgree
    /\ WorkIsManaged
    /\ ProgressIsRecorded
    /\ InvalidSpecIsNeverApplied

-----------------------------------------------------------------------------
\* Lemmas about the data.

LEMMA LifeOf ==
    ASSUME NEW k \in KeyDBClusters \cup {NoCR}
    PROVE  /\ k.life = "gone" <=> k = NoCR
           /\ k.life # "gone" => k \in KeyDBClusters
           /\ k.status \in Statuses
           /\ k \in KeyDBClusters =>
                  k.image \in Images /\ k.life \in {"new", "managed", "deleting"}
<1>1. /\ NoCR.life = "gone"
      /\ NoCR.status \in Statuses
      /\ NoCR \notin KeyDBClusters
  BY DEF KeyDBClusters, NoCR, NoStatus, Statuses, UpgradeStatuses
<1>2. k \in KeyDBClusters =>
          /\ k.life \in {"new", "managed", "deleting"}
          /\ k.image \in Images
          /\ k.status \in Statuses
  BY DEF KeyDBClusters
<1> QED
  BY <1>1, <1>2

LEMMA StatusWritten ==
    ASSUME NEW k \in KeyDBClusters, NEW status \in Statuses
    PROVE  /\ [k EXCEPT !.status = status] \in KeyDBClusters
           /\ [k EXCEPT !.status = status].status = status
           /\ [k EXCEPT !.status = status].life = k.life
           /\ [k EXCEPT !.status = status].image = k.image
           /\ [k EXCEPT !.status = status].strategy = k.strategy
           /\ [k EXCEPT !.status = status].gen = k.gen
BY DEF KeyDBClusters

LEMMA PhaseWritten ==
    ASSUME NEW status \in Statuses, NEW p \in {"", "Pending", "Running", "Failed"}
    PROVE  /\ [status EXCEPT !.phase = p] \in Statuses
           /\ [status EXCEPT !.phase = p].upgrade = status.upgrade
BY DEF Statuses

LEMMA UpgradeWritten ==
    ASSUME NEW status \in Statuses, NEW u \in UpgradeStatuses
    PROVE  /\ [status EXCEPT !.upgrade = u] \in Statuses
           /\ [status EXCEPT !.upgrade = u].upgrade = u
           /\ \A image \in Images :
                  /\ [[status EXCEPT !.upgrade = u] EXCEPT !.currentImage = image] \in Statuses
                  /\ [[status EXCEPT !.upgrade = u]
                          EXCEPT !.currentImage = image].upgrade = u
BY DEF Statuses

LEMMA UpgradeOf ==
    ASSUME NEW status \in Statuses, status.upgrade # NoUpgrade
    PROVE  /\ status.upgrade \in UpgradeStatuses
           /\ status.upgrade \in [phase : {"Starting", "InProgress", "Completed", "Failed"},
                                  target : Images, upgraded : Nat, total : Nat]
BY DEF Statuses, UpgradeStatuses

LEMMA ImageWritten ==
    ASSUME NEW s \in StatefulSets, NEW image \in Images
    PROVE  /\ [s EXCEPT !.image = image] \in StatefulSets
           /\ [s EXCEPT !.image = image].image = image
BY DEF StatefulSets, NoSts

LEMMA ImageOf ==
    ASSUME NEW s \in StatefulSets
    PROVE  /\ s.image \in Images \cup {NoImage}
           /\ s # NoSts => s.image \in Images /\ s \in [image : Images, replicas : Nat, ready : Nat]
BY DEF StatefulSets, NoSts

LEMMA PodTerminated ==
    ASSUME NEW f \in [Pods -> PodStates], NEW i
    PROVE  [f EXCEPT ![i] = Terminated(@)] \in [Pods -> PodStates]
<1>1. \A pod \in PodStates : Terminated(pod) \in PodStates
  BY DEF PodStates, Terminated, Exists, NoPod
<1> QED
  BY <1>1

-----------------------------------------------------------------------------
\* Lemmas about the pieces that the actions are made of.

USE DEF IInv

\* Reconcile returns without a write.
LEMMA ReturnKeepsIInv ==
    ASSUME IInv, Return, UNCHANGED <<sts, pods>>, faults' \in Nat
    PROVE  IInv'
<1>1. TypeOK'
  BY DEF TypeOK, Return, Steps, NoCR
<1>2. CurrentCopiesAreExact'
  BY DEF CurrentCopiesAreExact, Return
<1>3. LivesAgree'
  BY DEF LivesAgree, Return
<1>4. WorkIsManaged' /\ ProgressIsRecorded'
  BY DEF WorkIsManaged, ProgressIsRecorded, Return, CarryingSteps, ManagerSteps,
         RollingSteps, UpgradePodSteps
<1>5. InvalidSpecIsNeverApplied'
  BY DEF InvalidSpecIsNeverApplied
<1> QED
  BY <1>1, <1>2, <1>3, <1>4, <1>5

\* upgradePod fails, before a write or with one that was refused.
LEMMA FailureKeepsIInv ==
    ASSUME IInv, pc \in UpgradePodSteps, UpgradePodFails,
           UNCHANGED <<sts, pods>>, faults' \in Nat
    PROVE  IInv'
<1>1. TypeOK'
  BY DEF TypeOK, UpgradePodFails, Steps
<1>2. CurrentCopiesAreExact'
  BY DEF CurrentCopiesAreExact, UpgradePodFails
<1>3. LivesAgree'
  BY DEF LivesAgree, UpgradePodFails, UpgradePodSteps
<1>4. WorkIsManaged' /\ ProgressIsRecorded'
  BY DEF WorkIsManaged, ProgressIsRecorded, UpgradePodFails, CarryingSteps, ManagerSteps,
         HoldingSteps, RollingSteps, UpgradePodSteps, Steps
<1>5. InvalidSpecIsNeverApplied'
  BY DEF InvalidSpecIsNeverApplied
<1> QED
  BY <1>1, <1>2, <1>3, <1>4, <1>5

\* Kubernetes writes to the StatefulSet or to the pods.
LEMMA KubernetesKeepsIInv ==
    ASSUME IInv, NotByTheOperator,
           sts' \in StatefulSets, sts'.image \in {sts.image, NoImage},
           pods' \in [Pods -> PodStates], faults' \in Nat
    PROVE  IInv'
<1>1. TypeOK'
  BY DEF TypeOK, NotByTheOperator, workerVars, crVars
<1>2. CurrentCopiesAreExact'
  BY DEF CurrentCopiesAreExact, NotByTheOperator, workerVars, crVars, OfSts
<1>3. LivesAgree'
  BY DEF LivesAgree, NotByTheOperator, workerVars, crVars
<1>4. WorkIsManaged' /\ ProgressIsRecorded'
  BY DEF WorkIsManaged, ProgressIsRecorded, NotByTheOperator, workerVars, crVars
<1>5. InvalidSpecIsNeverApplied'
  BY ImagesAssumption, ReconcilerAssumption DEF InvalidSpecIsNeverApplied
<1> QED
  BY <1>1, <1>2, <1>3, <1>4, <1>5

\* What a status write of the worker's copy that is accepted leaves behind.
LEMMA AcceptedStatus ==
    ASSUME IInv, pc \in CarryingSteps, NEW status \in Statuses,
           "crWork" \in current, cr' = [cr EXCEPT !.status = status]
    PROVE  /\ work = cr
           /\ cr' \in KeyDBClusters
           /\ cr'.status = status
           /\ cr'.life = "managed"
           /\ cr'.life = cr.life
           /\ IsValid(cr')
           /\ cr'.image = cr.image /\ cr'.strategy = cr.strategy /\ cr'.gen = cr.gen
BY StatusWritten DEF CurrentCopiesAreExact, WorkIsManaged, IsValid

\* A status write of the worker's copy, after which the worker goes on.
LEMMA StatusWriteKeepsIInv ==
    ASSUME IInv, pc \in CarryingSteps, NEW status \in Statuses, UpdateStatus(status),
           UNCHANGED <<clusterVars, found, doomed>>,
           pc' \in ManagerSteps, loop' \in Nat, status.upgrade # NoUpgrade,
           "stsWork" \in current => pc' \in HoldingSteps,
           work'.status = status => ProgressIsRecorded'
    PROVE  IInv'
<1>1. /\ cr' \in KeyDBClusters /\ work' = cr' /\ cr'.status = status
      /\ cr'.life = "managed" /\ cr'.life = cr.life /\ IsValid(cr')
  BY AcceptedStatus DEF UpdateStatus
<1>2. TypeOK'
  BY <1>1 DEF TypeOK, UpdateStatus, clusterVars, ManagerSteps, CarryingSteps
<1>3. CurrentCopiesAreExact'
  BY <1>1 DEF CurrentCopiesAreExact, UpdateStatus, clusterVars
<1>4. LivesAgree'
  BY <1>1 DEF LivesAgree, UpdateStatus, CarryingSteps
<1>5. WorkIsManaged'
  BY <1>1 DEF WorkIsManaged, IsValid, UpdateStatus, ManagerSteps
<1>6. ProgressIsRecorded'
  BY <1>1
<1>7. InvalidSpecIsNeverApplied'
  BY DEF InvalidSpecIsNeverApplied, clusterVars
<1> QED
  BY <1>2, <1>3, <1>4, <1>5, <1>6, <1>7

\* The last status write: the worker returns whether or not it is accepted.
LEMMA LastStatusWriteKeepsIInv ==
    ASSUME IInv, pc \in CarryingSteps, NEW status \in Statuses, ReturnWith(status),
           UNCHANGED clusterVars
    PROVE  IInv'
<1>1. /\ cr' \in KeyDBClusters \cup {NoCR} /\ cr'.life = cr.life
      /\ crCache' = crCache /\ pc' = "idle"
  BY AcceptedStatus DEF ReturnWith, TypeOK
<1>2. TypeOK'
  BY <1>1 DEF TypeOK, ReturnWith, clusterVars, Steps
<1>3. CurrentCopiesAreExact'
  BY DEF CurrentCopiesAreExact, ReturnWith, clusterVars
<1>4. LivesAgree'
  BY <1>1 DEF LivesAgree
<1>5. WorkIsManaged' /\ ProgressIsRecorded'
  BY <1>1 DEF ReturnWith, WorkIsManaged, ProgressIsRecorded, CarryingSteps,
              ManagerSteps, RollingSteps, UpgradePodSteps
<1>6. InvalidSpecIsNeverApplied'
  BY DEF InvalidSpecIsNeverApplied, clusterVars
<1> QED
  BY <1>2, <1>3, <1>4, <1>5, <1>6

\* The worker goes on to the step p with what it has; pods may be deleted.
LEMMA GoToKeepsIInv ==
    ASSUME IInv, pc \in CarryingSteps, NEW p \in CarryingSteps, GoTo(p),
           UNCHANGED <<sts, faults, storeVars>>, pods' \in [Pods -> PodStates],
           p \in ManagerSteps => pc \in ManagerSteps \/ work.status.upgrade # NoUpgrade,
           p = "initUpgradeStatus" => work.status.upgrade = NoUpgrade,
           p \in RollingSteps => pc \in RollingSteps,
           "stsWork" \in current => p \in HoldingSteps,
           p # "upgradeCompleted"
    PROVE  IInv'
<1>1. TypeOK'
  BY DEF TypeOK, GoTo, storeVars, CarryingSteps
<1>2. CurrentCopiesAreExact'
  BY DEF CurrentCopiesAreExact, GoTo, storeVars
<1>3. LivesAgree'
  BY DEF LivesAgree, GoTo, storeVars, CarryingSteps
<1>4. WorkIsManaged'
  BY DEF WorkIsManaged, GoTo, storeVars
<1>5. ProgressIsRecorded'
  BY DEF ProgressIsRecorded, GoTo
<1>6. InvalidSpecIsNeverApplied'
  BY DEF InvalidSpecIsNeverApplied
<1> QED
  BY <1>1, <1>2, <1>3, <1>4, <1>5, <1>6

\* The manager writes the template.
LEMMA TemplateWriteKeepsIInv ==
    ASSUME IInv, pc \in ManagerSteps, UpdateTemplate, found' = work.image,
           UNCHANGED <<work, loop>>, doomed' \subseteq Pods, pc' \in HoldingSteps,
           pc' \in RollingSteps => pc \in RollingSteps, pc' # "upgradeCompleted"
    PROVE  IInv'
<1>1. work \in KeyDBClusters /\ IsValid(work) /\ work.image \in Images
  BY LifeOf DEF WorkIsManaged, ManagerSteps
<1>2. sts' \in StatefulSets /\ sts'.image = work.image
  BY <1>1, ImageWritten DEF UpdateTemplate, TypeOK
<1>3. TypeOK'
  BY <1>1, <1>2 DEF TypeOK, UpdateTemplate, crVars, HoldingSteps, ManagerSteps, CarryingSteps
<1>4. CurrentCopiesAreExact'
  BY <1>2 DEF CurrentCopiesAreExact, UpdateTemplate, crVars
<1>5. LivesAgree'
  BY DEF LivesAgree, UpdateTemplate, crVars, HoldingSteps, ManagerSteps, CarryingSteps
<1>6. WorkIsManaged'
  BY DEF WorkIsManaged, HoldingSteps, ManagerSteps, UpdateTemplate
<1>7. ProgressIsRecorded'
  BY DEF ProgressIsRecorded
<1>8. InvalidSpecIsNeverApplied'
  BY <1>1, <1>2 DEF InvalidSpecIsNeverApplied, IsValid
<1> QED
  BY <1>3, <1>4, <1>5, <1>6, <1>7, <1>8

-----------------------------------------------------------------------------
\* The invariant, action by action.

LEMMA InitIInv == Init => IInv
<1> SUFFICES ASSUME Init PROVE IInv
  OBVIOUS
<1>1. PICK image \in Images, strategy \in Strategies : cr = NewCR(image, strategy)
  BY DEF Init
<1>2. cr \in KeyDBClusters /\ cr.life = "new"
  BY <1>1 DEF NewCR, KeyDBClusters, Statuses, NoStatus, UpgradeStatuses
<1>3. TypeOK
  BY <1>2 DEF Init, TypeOK, StatefulSets, PodStates, Copies, Steps
<1>4. CurrentCopiesAreExact
  BY DEF Init, CurrentCopiesAreExact
<1>5. LivesAgree
  BY <1>2 DEF Init, LivesAgree, NoCR
<1>6. WorkIsManaged /\ ProgressIsRecorded
  BY DEF Init, WorkIsManaged, ProgressIsRecorded, CarryingSteps, ManagerSteps,
         RollingSteps, UpgradePodSteps
<1>7. InvalidSpecIsNeverApplied
  BY ImagesAssumption, ReconcilerAssumption DEF Init, InvalidSpecIsNeverApplied, NoSts
<1> QED
  BY <1>3, <1>4, <1>5, <1>6, <1>7

\* A step of the idle worker that writes the KeyDBCluster or nothing.
LEMMA IdleWriteKeepsIInv ==
    ASSUME IInv, pc = "idle", "crCache" \in current,
           cr' \in KeyDBClusters \cup {NoCR},
           crCache.life = "managed" => cr'.life \in {"managed", "deleting"},
           crCache.life = "deleting" => cr'.life \in {"deleting", "gone"},
           current' = current \ OfCr \/ (cr' = cr /\ current' = current),
           UNCHANGED <<clusterVars, crCache, stsCache, podCache, workerVars>>
    PROVE  IInv'
<1>1. TypeOK'
  BY DEF TypeOK, clusterVars, workerVars
<1>2. CurrentCopiesAreExact'
  BY DEF CurrentCopiesAreExact, OfCr, clusterVars, workerVars
<1>3. LivesAgree'
  BY DEF LivesAgree, workerVars
<1>4. WorkIsManaged' /\ ProgressIsRecorded'
  BY DEF WorkIsManaged, ProgressIsRecorded, CarryingSteps, ManagerSteps,
         RollingSteps, UpgradePodSteps, workerVars
<1>5. InvalidSpecIsNeverApplied'
  BY DEF InvalidSpecIsNeverApplied, clusterVars
<1> QED
  BY <1>1, <1>2, <1>3, <1>4, <1>5

\* The cached KeyDBCluster, when it is there and current.
LEMMA CurrentCache ==
    ASSUME IInv, "crCache" \in current, crCache.life # "gone"
    PROVE  crCache = cr /\ cr \in KeyDBClusters /\ cr.status \in Statuses
BY LifeOf DEF CurrentCopiesAreExact, TypeOK

LEMMA ReconcileKeepsIInv ==
    ASSUME IInv,
           HandleDeletion \/ AddFinalizer \/ RejectSpec \/ ReconcileStatefulSet
    PROVE  IInv'
<1>1. CASE HandleDeletion
  BY <1>1, LifeOf, IdleWriteKeepsIInv DEF HandleDeletion, NoCR
<1>2. CASE AddFinalizer
  <2>1. crCache = cr /\ cr \in KeyDBClusters /\ cr.status \in Statuses
    BY <1>2, CurrentCache DEF AddFinalizer
  <2>2. cr' \in KeyDBClusters
    BY <1>2, <2>1 DEF AddFinalizer, KeyDBClusters
  <2> QED
    BY <1>2, <2>2, IdleWriteKeepsIInv DEF AddFinalizer
<1>3. CASE RejectSpec
  <2>1. crCache = cr /\ cr \in KeyDBClusters /\ cr.status \in Statuses
    BY <1>3, CurrentCache DEF RejectSpec
  <2>2. [crCache.status EXCEPT !.phase = "Failed"] \in Statuses
    BY <2>1, PhaseWritten
  <2>3. cr' \in KeyDBClusters /\ cr'.life = "managed"
    BY <1>3, <2>1, <2>2, StatusWritten DEF RejectSpec
  <2>4. current' = current \ OfCr \/ (cr' = cr /\ current' = current)
    BY <1>3 DEF RejectSpec
  <2> QED
    BY <1>3, <2>3, <2>4, IdleWriteKeepsIInv DEF RejectSpec
<1>4. CASE ReconcileStatefulSet
  <2>1. crCache \in KeyDBClusters /\ crCache.image \in Images /\ IsValid(crCache)
    BY <1>4, LifeOf DEF ReconcileStatefulSet, TypeOK
  <2>2. /\ sts' \in StatefulSets
        /\ sts' = sts \/ sts'.image = crCache.image
    BY <1>4, <2>1, ImageWritten DEF ReconcileStatefulSet, TypeOK, StatefulSets
  <2>3. TypeOK'
    BY <1>4, <2>1, <2>2 DEF ReconcileStatefulSet, TypeOK, Steps, Copies
  <2>4. CurrentCopiesAreExact'
    <3>1. "crWork" \notin current
      BY <1>4 DEF ReconcileStatefulSet, WorkIsManaged, CarryingSteps
    <3> QED
      BY <1>4, <3>1 DEF ReconcileStatefulSet, CurrentCopiesAreExact, OfSts
  <2>5. LivesAgree'
    BY <1>4 DEF ReconcileStatefulSet, LivesAgree
  <2>6. WorkIsManaged' /\ ProgressIsRecorded'
    BY <1>4, <2>1 DEF ReconcileStatefulSet, WorkIsManaged, ProgressIsRecorded, IsValid,
                      Steps, CarryingSteps, ManagerSteps, HoldingSteps, RollingSteps,
                      UpgradePodSteps
  <2>7. InvalidSpecIsNeverApplied'
    BY <2>1, <2>2 DEF InvalidSpecIsNeverApplied, IsValid
  <2> QED
    BY <2>3, <2>4, <2>5, <2>6, <2>7
<1> QED
  BY <1>1, <1>2, <1>3, <1>4

LEMMA StatusStepsKeepIInv ==
    ASSUME IInv,
           \/ UpgradeIsNeeded \/ NoUpgradeIsNeeded \/ InitUpgradeStatus
           \/ WriteStatus \/ RetryStatus \/ GiveUpStatus
    PROVE  IInv'
<1>1. CASE UpgradeIsNeeded
  <2> DEFINE p == IF work.status.upgrade = NoUpgrade THEN "initUpgradeStatus"
                                                     ELSE "PerformRollingUpgrade"
  <2>1. pc \in CarryingSteps /\ p \in CarryingSteps /\ p # "upgradeCompleted"
    BY <1>1 DEF UpgradeIsNeeded, CarryingSteps, Steps
  <2>2. p \in ManagerSteps => work.status.upgrade # NoUpgrade
    BY DEF ManagerSteps
  <2>3. p \notin RollingSteps
    BY DEF RollingSteps, UpgradePodSteps
  <2>4. pods' \in [Pods -> PodStates] /\ UNCHANGED <<sts, faults, storeVars>> /\ GoTo(p)
    BY <1>1 DEF UpgradeIsNeeded, TypeOK, clusterVars
  <2> QED
    BY <1>1, <2>1, <2>2, <2>3, <2>4, GoToKeepsIInv
       DEF UpgradeIsNeeded, WorkIsManaged, HoldingSteps, ManagerSteps
<1>2. CASE NoUpgradeIsNeeded
  <2>1. TypeOK'
    BY <1>2 DEF NoUpgradeIsNeeded, TypeOK, clusterVars, crVars, Steps
  <2>2. CurrentCopiesAreExact'
    BY <1>2 DEF NoUpgradeIsNeeded, CurrentCopiesAreExact, clusterVars, crVars
  <2>3. LivesAgree'
    BY <1>2 DEF NoUpgradeIsNeeded, LivesAgree, crVars
  <2>4. WorkIsManaged' /\ ProgressIsRecorded'
    BY <1>2 DEF NoUpgradeIsNeeded, WorkIsManaged, ProgressIsRecorded, CarryingSteps,
                ManagerSteps, HoldingSteps, RollingSteps, UpgradePodSteps
  <2>5. InvalidSpecIsNeverApplied'
    BY <1>2 DEF NoUpgradeIsNeeded, InvalidSpecIsNeverApplied, clusterVars
  <2> QED
    BY <2>1, <2>2, <2>3, <2>4, <2>5
<1>3. CASE InitUpgradeStatus
  <2> DEFINE u == [NoUpgrade EXCEPT !.phase = "Starting", !.target = work.image]
  <2>1. pc = "initUpgradeStatus" /\ pc \in CarryingSteps
    BY <1>3 DEF InitUpgradeStatus, CarryingSteps, Steps
  <2>2. work.status \in Statuses /\ work.image \in Images
    BY <2>1, LifeOf DEF WorkIsManaged
  <2>3. u \in UpgradeStatuses /\ u # NoUpgrade
    BY <2>2 DEF UpgradeStatuses, NoUpgrade
  <2>4. CASE UpdateStatus(WithUpgrade(u)) /\ pc' = "PerformRollingUpgrade"
                 /\ UNCHANGED <<found, loop, doomed>>
    <3>1. WithUpgrade(u) \in Statuses /\ WithUpgrade(u).upgrade # NoUpgrade
      BY <2>2, <2>3, UpgradeWritten DEF WithUpgrade
    <3>2. pc' \in ManagerSteps /\ loop' \in Nat /\ ProgressIsRecorded'
      BY <2>4 DEF ManagerSteps, CarryingSteps, Steps, TypeOK, ProgressIsRecorded,
                  RollingSteps, UpgradePodSteps
    <3>3. UNCHANGED <<clusterVars, found, doomed>>
      BY <1>3, <2>4 DEF InitUpgradeStatus
    <3>4. "stsWork" \notin current
      BY <2>1 DEF WorkIsManaged, HoldingSteps, ManagerSteps
    <3> QED
      BY <2>1, <2>4, <3>1, <3>2, <3>3, <3>4, StatusWriteKeepsIInv
  <2>5. CASE Conflict
    BY <1>3, <2>5, ReturnKeepsIInv DEF InitUpgradeStatus, Conflict, clusterVars, TypeOK
  <2> QED
    BY <1>3, <2>4, <2>5 DEF InitUpgradeStatus
<1>4. CASE WriteStatus
  <2> DEFINE s == [crCache.status EXCEPT !.phase = PhaseOf(stsCache)]
  <2>1. /\ crCache = cr /\ cr \in KeyDBClusters /\ cr.status \in Statuses
        /\ cr.life \in {"managed", "deleting"}
    BY <1>4, CurrentCache DEF WriteStatus, LivesAgree
  <2>2. s \in Statuses
    BY <2>1, PhaseWritten DEF PhaseOf
  <2>3. cr' \in KeyDBClusters /\ cr'.life = cr.life
    BY <1>4, <2>1, <2>2, StatusWritten DEF WriteStatus
  <2>4. TypeOK'
    BY <1>4, <2>3 DEF WriteStatus, TypeOK, clusterVars, Steps
  <2>5. CurrentCopiesAreExact'
    BY <1>4 DEF WriteStatus, CurrentCopiesAreExact, OfCr, clusterVars
  <2>6. LivesAgree'
    BY <1>4, <2>1, <2>3 DEF WriteStatus, LivesAgree
  <2>7. WorkIsManaged' /\ ProgressIsRecorded'
    BY <1>4 DEF WriteStatus, WorkIsManaged, ProgressIsRecorded, CarryingSteps,
                ManagerSteps, HoldingSteps, RollingSteps, UpgradePodSteps
  <2>8. InvalidSpecIsNeverApplied'
    BY <1>4 DEF WriteStatus, InvalidSpecIsNeverApplied, clusterVars
  <2> QED
    BY <2>4, <2>5, <2>6, <2>7, <2>8
<1>5. CASE RetryStatus
  <2>1. TypeOK'
    BY <1>5 DEF RetryStatus, TypeOK, clusterVars, storeVars
  <2>2. CurrentCopiesAreExact' /\ LivesAgree' /\ InvalidSpecIsNeverApplied'
    BY <1>5 DEF RetryStatus, CurrentCopiesAreExact, LivesAgree, InvalidSpecIsNeverApplied,
                clusterVars, storeVars
  <2>3. WorkIsManaged' /\ ProgressIsRecorded'
    BY <1>5 DEF RetryStatus, WorkIsManaged, ProgressIsRecorded, CarryingSteps,
                ManagerSteps, RollingSteps, UpgradePodSteps, storeVars
  <2> QED
    BY <2>1, <2>2, <2>3
<1>6. CASE GiveUpStatus
  BY <1>6, ReturnKeepsIInv DEF GiveUpStatus, clusterVars, TypeOK
<1> QED
  BY <1>1, <1>2, <1>3, <1>4, <1>5, <1>6

LEMMA RollingKeepsIInv ==
    ASSUME IInv,
           \/ PerformRollingUpgrade \/ StartRollingUpdate \/ RejectPodBeforeUpgrade
           \/ PreparePod \/ PreparePodAndTemplate
    PROVE  IInv'
<1>1. CASE PerformRollingUpgrade
  <2>1. stsCache.image \in Images
    BY <1>1, ImageOf DEF PerformRollingUpgrade, TypeOK
  <2>2. /\ pc \in ManagerSteps /\ pc' \in HoldingSteps
        /\ pc' \in {"performRecreateUpdate", "performRollingUpdate"}
        /\ pc \in CarryingSteps /\ pc' \in CarryingSteps /\ pc' \in Steps
    BY <1>1 DEF PerformRollingUpgrade, ManagerSteps, HoldingSteps, CarryingSteps, Steps
  <2>3. TypeOK'
    BY <1>1, <2>1, <2>2 DEF PerformRollingUpgrade, TypeOK, clusterVars, crVars, Copies
  <2>4. CurrentCopiesAreExact'
    <3>1. CASE "stsCache" \in current
      BY <1>1, <3>1 DEF PerformRollingUpgrade, CurrentCopiesAreExact, clusterVars, crVars
    <3>2. CASE "stsCache" \notin current
      BY <1>1, <3>2 DEF PerformRollingUpgrade, CurrentCopiesAreExact, WorkIsManaged,
                        HoldingSteps, clusterVars, crVars
    <3> QED
      BY <3>1, <3>2
  <2>5. LivesAgree'
    BY <1>1, <2>2 DEF PerformRollingUpgrade, LivesAgree, crVars
  <2>6. WorkIsManaged'
    BY <1>1, <2>2 DEF PerformRollingUpgrade, WorkIsManaged
  <2>7. ProgressIsRecorded' /\ InvalidSpecIsNeverApplied'
    BY <1>1, <2>2 DEF PerformRollingUpgrade, ProgressIsRecorded, RollingSteps,
                      UpgradePodSteps, InvalidSpecIsNeverApplied, clusterVars
  <2> QED
    BY <2>3, <2>4, <2>5, <2>6, <2>7
<1>2. CASE StartRollingUpdate
  <2>0. PICK u : u = [work.status.upgrade EXCEPT !.phase = "InProgress",
                                                 !.total = calculateReplicas]
    OBVIOUS
  <2>1. pc \in ManagerSteps /\ pc \in CarryingSteps
    BY <1>2 DEF StartRollingUpdate, ManagerSteps, CarryingSteps, Steps
  <2>2. /\ work.status \in Statuses
        /\ work.status.upgrade \in
               [phase : {"Starting", "InProgress", "Completed", "Failed"},
                target : Images, upgraded : Nat, total : Nat]
    BY <2>1, LifeOf, UpgradeOf DEF WorkIsManaged
  <2>3. /\ u \in UpgradeStatuses /\ u # NoUpgrade
        /\ u.phase = "InProgress" /\ u.total = calculateReplicas /\ u.upgraded >= 0
    <3>1. calculateReplicas \in Nat
      BY Sizes
    <3>2. /\ u.phase = "InProgress" /\ u.total = calculateReplicas
          /\ u.upgraded >= 0
      BY <2>0, <2>2
    <3>3. u \in UpgradeStatuses
      BY <2>0, <2>2, <3>1 DEF UpgradeStatuses
    <3> QED
      BY <3>2, <3>3 DEF NoUpgrade
  <2>4. CASE /\ UpdateStatus(WithUpgrade(u))
             /\ pc' = "validatePodBeforeUpgrade"
             /\ loop' = 1
             /\ UNCHANGED <<found, doomed>>
    <3>1. WithUpgrade(u) \in Statuses /\ WithUpgrade(u).upgrade = u
      BY <2>2, <2>3, UpgradeWritten DEF WithUpgrade
    <3>2. pc' \in ManagerSteps /\ pc' \in HoldingSteps /\ loop' \in Nat
      BY <2>4 DEF CarryingSteps, HoldingSteps, ManagerSteps, Steps, UpgradePodSteps
    <3>3. 1 \in 1 .. Len(Order) /\ 1 - 1 = 0
      BY OrderLength, Sizes
    <3>4. work'.status = WithUpgrade(u) => ProgressIsRecorded'
      BY <2>3, <2>4, <3>1, <3>3 DEF ProgressIsRecorded
    <3>5. UNCHANGED <<clusterVars, found, doomed>>
      BY <1>2, <2>4 DEF StartRollingUpdate
    <3> QED
      BY <2>1, <2>3, <2>4, <3>1, <3>2, <3>4, <3>5, StatusWriteKeepsIInv
  <2>5. CASE Conflict
    BY <1>2, <2>5, ReturnKeepsIInv DEF StartRollingUpdate, Conflict, clusterVars, TypeOK
  <2> QED
    BY <1>2, <2>0, <2>4, <2>5 DEF StartRollingUpdate
<1>3. CASE RejectPodBeforeUpgrade
  BY <1>3, FailureKeepsIInv DEF RejectPodBeforeUpgrade, UpgradePodSteps, clusterVars, TypeOK
<1>4. CASE PreparePod
  <2>1. pc \in CarryingSteps /\ pc \in ManagerSteps /\ pc \in RollingSteps
    BY <1>4 DEF PreparePod, CarryingSteps, ManagerSteps, RollingSteps, UpgradePodSteps, Steps
  <2>2. "deletePod" \in CarryingSteps /\ "deletePod" \in HoldingSteps
    BY DEF CarryingSteps, HoldingSteps, ManagerSteps, UpgradePodSteps, Steps
  <2> QED
    BY <1>4, <2>1, <2>2, GoToKeepsIInv DEF PreparePod, clusterVars, storeVars, crVars, TypeOK
<1>5. CASE PreparePodAndTemplate
  <2>1. /\ pc \in ManagerSteps /\ pc \in RollingSteps /\ pc \in UpgradePodSteps
        /\ "deletePod" \in HoldingSteps
    BY <1>5 DEF PreparePodAndTemplate, CarryingSteps, ManagerSteps, HoldingSteps,
                RollingSteps, UpgradePodSteps, Steps
  <2>2. CASE /\ UpdateTemplate /\ pc' = "deletePod" /\ found' = work.image
             /\ UNCHANGED <<work, loop, doomed>>
    BY <2>1, <2>2, TemplateWriteKeepsIInv DEF TypeOK
  <2>3. CASE UpgradePodFails /\ UNCHANGED clusterVars
    BY <2>1, <2>3, FailureKeepsIInv DEF clusterVars, TypeOK
  <2> QED
    BY <1>5, <2>2, <2>3 DEF PreparePodAndTemplate
<1> QED
  BY <1>1, <1>2, <1>3, <1>4, <1>5

LEMMA UpgradePodKeepsIInv ==
    ASSUME IInv,
           \/ DeletePod \/ PodToDeleteNotFound \/ PodIsReady \/ WaitForPodTimesOut
           \/ validatePodAfterUpgrade
    PROVE  IInv'
<1>1. \A p \in {"waitForPodReady", "validatePodAfterUpgrade", "upgradedPod"} :
          p \in CarryingSteps /\ p \in HoldingSteps
  BY DEF CarryingSteps, HoldingSteps, ManagerSteps, UpgradePodSteps, Steps
<1>2. pc \in UpgradePodSteps => pc \in CarryingSteps /\ pc \in ManagerSteps /\ pc \in RollingSteps
  BY DEF CarryingSteps, ManagerSteps, RollingSteps, UpgradePodSteps, Steps
<1>3. pc \in UpgradePodSteps
  BY DEF DeletePod, PodToDeleteNotFound, PodIsReady, WaitForPodTimesOut,
         validatePodAfterUpgrade, UpgradePodSteps
<1>4. pods \in [Pods -> PodStates] /\ faults \in Nat
  BY DEF TypeOK
<1>5. CASE DeletePod
  <2>1. pods' \in [Pods -> PodStates]
    BY <1>4, <1>5, PodTerminated DEF DeletePod
  <2> QED
    BY <1>1, <1>2, <1>3, <1>5, <2>1, GoToKeepsIInv DEF DeletePod, storeVars, crVars
<1>6. CASE PodToDeleteNotFound
  BY <1>3, <1>4, <1>6, FailureKeepsIInv DEF PodToDeleteNotFound, clusterVars
<1>7. CASE PodIsReady
  BY <1>1, <1>2, <1>3, <1>4, <1>7, GoToKeepsIInv
     DEF PodIsReady, clusterVars, storeVars, crVars
<1>8. CASE WaitForPodTimesOut
  BY <1>3, <1>4, <1>8, FailureKeepsIInv DEF WaitForPodTimesOut, clusterVars
<1>9. CASE validatePodAfterUpgrade
  <2>1. CASE GoTo("upgradedPod") /\ UNCHANGED <<crVars, stsCache, podCache, current>>
    BY <1>1, <1>2, <1>3, <1>4, <1>9, <2>1, GoToKeepsIInv
       DEF validatePodAfterUpgrade, clusterVars, storeVars, crVars
  <2>2. CASE UpgradePodFails
    BY <1>3, <1>4, <1>9, <2>2, FailureKeepsIInv DEF validatePodAfterUpgrade, clusterVars
  <2> QED
    BY <1>9, <2>1, <2>2 DEF validatePodAfterUpgrade
<1> QED
  BY <1>5, <1>6, <1>7, <1>8, <1>9

\* What the manager carries at its status writes.
LEMMA CarriedUpgrade ==
    ASSUME IInv, pc \in RollingSteps
    PROVE  /\ pc \in CarryingSteps
           /\ work.image \in Images
           /\ work.status \in Statuses
           /\ work.status.upgrade \in
                  [phase : {"Starting", "InProgress", "Completed", "Failed"},
                   target : Images, upgraded : Nat, total : Nat]
<1>1. pc \in CarryingSteps /\ pc \in ManagerSteps
  BY DEF CarryingSteps, ManagerSteps, RollingSteps, UpgradePodSteps, Steps
<1> QED
  BY <1>1, LifeOf, UpgradeOf DEF WorkIsManaged

LEMMA ProgressKeepsIInv ==
    ASSUME IInv, RecordProgress \/ CompleteUpgrade \/ FailUpgrade
    PROVE  IInv'
<1>1. pc \in RollingSteps
  BY DEF RecordProgress, CompleteUpgrade, FailUpgrade, RollingSteps
<1>2. CASE RecordProgress
  <2>1. PICK u : u = [work.status.upgrade EXCEPT !.upgraded = @ + 1]
    OBVIOUS
  <2>2. /\ u.phase = "InProgress" /\ u.total = calculateReplicas
        /\ u.upgraded >= loop
        /\ loop \in 1 .. Len(Order)
    BY <1>1, <2>1, CarriedUpgrade DEF ProgressIsRecorded
  <2>3. u \in UpgradeStatuses /\ u # NoUpgrade
    <3>1. u \in UpgradeStatuses
      BY <1>1, <2>1, CarriedUpgrade DEF UpgradeStatuses
    <3> QED
      BY <2>2, <3>1 DEF NoUpgrade
  <2>4. CASE /\ UpdateStatus(WithUpgrade(u))
             /\ pc' = IF loop < Len(Order) THEN "validatePodBeforeUpgrade"
                                           ELSE "upgradeCompleted"
             /\ loop' = IF loop < Len(Order) THEN loop + 1 ELSE loop
             /\ UNCHANGED <<found, doomed>>
    <3>1. WithUpgrade(u) \in Statuses /\ WithUpgrade(u).upgrade = u
      BY <1>1, <2>3, CarriedUpgrade, UpgradeWritten DEF WithUpgrade
    <3>2. pc' \in ManagerSteps /\ pc' \in HoldingSteps
      BY <2>4 DEF CarryingSteps, HoldingSteps, ManagerSteps, Steps, UpgradePodSteps
    <3>3. Len(Order) \in Nat
      BY OrderLength, Sizes
    <3>4. /\ loop' \in 1 .. Len(Order)
          /\ u.upgraded >= loop' - 1
          /\ pc' = "upgradeCompleted" => u.upgraded >= Len(Order)
      <4>1. u.upgraded \in Nat
        BY <1>1, <2>1, CarriedUpgrade
      <4> QED
        BY <2>2, <2>4, <3>3, <4>1
    <3>5. work'.status = WithUpgrade(u) => ProgressIsRecorded'
      BY <2>2, <3>1, <3>4 DEF ProgressIsRecorded
    <3>6. UNCHANGED <<clusterVars, found, doomed>> /\ loop' \in Nat
      BY <1>2, <2>4, <3>4, <3>3 DEF RecordProgress
    <3> QED
      BY <1>1, <2>3, <2>4, <3>1, <3>2, <3>5, <3>6, CarriedUpgrade, StatusWriteKeepsIInv
  <2>5. CASE Conflict
    BY <1>2, <2>5, ReturnKeepsIInv DEF RecordProgress, Conflict, clusterVars, TypeOK
  <2> QED
    BY <1>2, <2>1, <2>4, <2>5 DEF RecordProgress
<1>3. CASE CompleteUpgrade
  <2>1. PICK u : u = [work.status.upgrade EXCEPT !.phase = "Completed"]
    OBVIOUS
  <2>2. u \in UpgradeStatuses
    BY <1>1, <2>1, CarriedUpgrade DEF UpgradeStatuses
  <2>3. [WithUpgrade(u) EXCEPT !.currentImage = work.image] \in Statuses
    BY <1>1, <2>2, CarriedUpgrade, UpgradeWritten DEF WithUpgrade
  <2> QED
    BY <1>1, <1>3, <2>1, <2>3, CarriedUpgrade, LastStatusWriteKeepsIInv DEF CompleteUpgrade
<1>4. CASE FailUpgrade
  <2>1. PICK u : u = [work.status.upgrade EXCEPT !.phase = "Failed"]
    OBVIOUS
  <2>2. u \in UpgradeStatuses
    BY <1>1, <2>1, CarriedUpgrade DEF UpgradeStatuses
  <2>3. WithUpgrade(u) \in Statuses
    BY <1>1, <2>2, CarriedUpgrade, UpgradeWritten DEF WithUpgrade
  <2> QED
    BY <1>1, <1>4, <2>1, <2>3, CarriedUpgrade, LastStatusWriteKeepsIInv DEF FailUpgrade
<1> QED
  BY <1>2, <1>3, <1>4

LEMMA RecreateKeepsIInv ==
    ASSUME IInv,
           \/ StartRecreateUpdate \/ getClusterPods \/ DeleteNextPod
           \/ AllPodsDeleted \/ WaitForPodsReady
    PROVE  IInv'
<1>1. pods \in [Pods -> PodStates] /\ faults \in Nat /\ doomed \subseteq Pods
  BY DEF TypeOK
<1>2. CASE StartRecreateUpdate
  <2>1. pc \in ManagerSteps /\ pc \notin RollingSteps
    BY <1>2 DEF StartRecreateUpdate, CarryingSteps, ManagerSteps, RollingSteps,
                UpgradePodSteps, Steps
  <2>2. CASE /\ UpdateTemplate /\ pc' = "getClusterPods" /\ found' = work.image
             /\ UNCHANGED <<work, loop, doomed>>
    <3>1. pc' \in HoldingSteps /\ pc' \notin RollingSteps
      BY <2>2 DEF HoldingSteps, CarryingSteps, ManagerSteps, RollingSteps,
                  UpgradePodSteps, Steps
    <3> QED
      BY <1>1, <2>1, <2>2, <3>1, TemplateWriteKeepsIInv
  <2>3. CASE Return /\ UNCHANGED clusterVars
    BY <1>1, <2>3, ReturnKeepsIInv DEF clusterVars
  <2> QED
    BY <1>2, <2>2, <2>3 DEF StartRecreateUpdate
<1>6. CASE getClusterPods
  <2>1. TypeOK'
    BY <1>1, <1>6 DEF getClusterPods, TypeOK, clusterVars, crVars, Steps
  <2>2. CurrentCopiesAreExact' /\ LivesAgree' /\ InvalidSpecIsNeverApplied'
    BY <1>6 DEF getClusterPods, CurrentCopiesAreExact, LivesAgree, InvalidSpecIsNeverApplied,
       clusterVars, crVars
  <2>3. WorkIsManaged' /\ ProgressIsRecorded'
    <3>1. /\ pc \in HoldingSteps /\ pc \in ManagerSteps /\ pc \in CarryingSteps
          /\ pc' \in HoldingSteps /\ pc' \in CarryingSteps
          /\ pc' \notin RollingSteps \cup {"initUpgradeStatus", "upgradeCompleted"}
      BY <1>6 DEF getClusterPods, HoldingSteps, ManagerSteps, CarryingSteps, RollingSteps,
         UpgradePodSteps, Steps
    <3>2. work' = work /\ current' = current
      BY <1>6 DEF getClusterPods
    <3>3. WorkIsManaged'
      BY <3>1, <3>2 DEF WorkIsManaged, IsValid
    <3>4. ProgressIsRecorded'
      BY <3>1 DEF ProgressIsRecorded
    <3> QED
      BY <3>3, <3>4
  <2> QED
    BY <2>1, <2>2, <2>3
<1>3. CASE DeleteNextPod
  <2>1. PICK i \in doomed :
            \/ /\ pods' = [pods EXCEPT ![i] = Terminated(@)]
               /\ doomed' = doomed \ {i}
               /\ UNCHANGED <<sts, faults, crVars, stsCache, podCache, current,
                              pc, work, found, loop>>
            \/ /\ Return
               /\ UNCHANGED clusterVars
    BY <1>3 DEF DeleteNextPod
  <2>2. CASE /\ pods' = [pods EXCEPT ![i] = Terminated(@)]
             /\ doomed' = doomed \ {i}
             /\ UNCHANGED <<sts, faults, crVars, stsCache, podCache, current,
                            pc, work, found, loop>>
    <3>1. pods' \in [Pods -> PodStates]
      BY <1>1, <2>2, PodTerminated
    <3>2. TypeOK'
      BY <2>2, <3>1 DEF TypeOK, crVars
    <3>3. CurrentCopiesAreExact' /\ LivesAgree' /\ InvalidSpecIsNeverApplied'
      BY <2>2 DEF CurrentCopiesAreExact, LivesAgree, InvalidSpecIsNeverApplied, crVars
    <3>4. WorkIsManaged' /\ ProgressIsRecorded'
      BY <2>2 DEF WorkIsManaged, ProgressIsRecorded, crVars
    <3> QED
      BY <3>2, <3>3, <3>4
  <2>3. CASE Return /\ UNCHANGED clusterVars
    BY <1>1, <2>3, ReturnKeepsIInv DEF clusterVars
  <2> QED
    BY <2>1, <2>2, <2>3
<1>4. CASE AllPodsDeleted
  <2>1. /\ pc \in ManagerSteps /\ pc \in CarryingSteps
        /\ "waitForPodsReady" \in HoldingSteps /\ "waitForPodsReady" \in CarryingSteps
        /\ "waitForPodsReady" \notin RollingSteps
    BY <1>4 DEF AllPodsDeleted, HoldingSteps, CarryingSteps, ManagerSteps, RollingSteps,
                UpgradePodSteps, Steps
  <2> QED
    BY <1>1, <1>4, <2>1, GoToKeepsIInv DEF AllPodsDeleted, clusterVars, storeVars, crVars
<1>5. CASE WaitForPodsReady
  BY <1>1, <1>5, ReturnKeepsIInv DEF WaitForPodsReady, clusterVars
<1> QED
  BY <1>2, <1>3, <1>4, <1>5, <1>6

\* API errors and crashes.
LEMMA FaultsKeepIInv ==
    ASSUME IInv, ApiErrorInUpgradePod \/ ApiError \/ Crash
    PROVE  IInv'
<1>1. faults' \in Nat
  BY DEF ApiErrorInUpgradePod, ApiError, Crash, Fault, TypeOK
<1>2. CASE ApiErrorInUpgradePod
  BY <1>1, <1>2, FailureKeepsIInv DEF ApiErrorInUpgradePod
<1>3. CASE ApiError
  BY <1>1, <1>3, ReturnKeepsIInv DEF ApiError
<1>4. CASE Crash
  <2>1. TypeOK'
    BY <1>1, <1>4 DEF Crash, TypeOK, Copies, Steps
  <2>2. CurrentCopiesAreExact'
    BY <1>4 DEF Crash, CurrentCopiesAreExact
  <2>3. LivesAgree'
    BY <1>4 DEF Crash, LivesAgree
  <2>4. WorkIsManaged' /\ ProgressIsRecorded'
    BY <1>4 DEF Crash, WorkIsManaged, ProgressIsRecorded, CarryingSteps, ManagerSteps,
                HoldingSteps, RollingSteps, UpgradePodSteps
  <2>5. InvalidSpecIsNeverApplied'
    BY <1>4 DEF Crash, InvalidSpecIsNeverApplied
  <2> QED
    BY <2>1, <2>2, <2>3, <2>4, <2>5
<1> QED
  BY <1>2, <1>3, <1>4

\* The user writes the KeyDBCluster.
LEMMA UserKeepsIInv ==
    ASSUME IInv, UserEdits \/ UserDeletes
    PROVE  IInv'
<1>1. /\ current' = current \ OfCr
      /\ UNCHANGED <<clusterVars, workerVars, crCache, stsCache, podCache>>
  BY DEF UserEdits, UserDeletes, EditSpec, DeleteCR
<1>2. /\ cr' \in KeyDBClusters \cup {NoCR}
      /\ cr.life \in {"managed", "deleting"} => cr'.life \in {cr.life, "deleting"}
      /\ cr.life = "gone" => cr'.life = "gone"
  <2>1. CASE UserEdits
    <3>1. PICK image \in Images, strategy \in Strategies : EditSpec(image, strategy)
      BY <2>1 DEF UserEdits
    <3>2. cr \in KeyDBClusters
      BY <3>1, LifeOf DEF EditSpec, TypeOK
    <3>3. cr' \in KeyDBClusters /\ cr'.life = cr.life
      <4>1. PICK gen \in Nat : gen = cr.gen + 1
        BY <3>2 DEF KeyDBClusters
      <4>2. cr' = [cr EXCEPT !.gen = gen, !.image = image, !.strategy = strategy]
        BY <3>1, <4>1 DEF EditSpec
      <4> QED
        BY <3>2, <4>2 DEF KeyDBClusters
    <3> QED
      BY <3>3
  <2>2. CASE UserDeletes
    <3>1. cr \in KeyDBClusters
      BY <2>2, LifeOf DEF UserDeletes, DeleteCR, TypeOK
    <3>2. cr.life # "new" =>
              cr' \in KeyDBClusters /\ cr'.life = "deleting"
      BY <2>2, <3>1 DEF UserDeletes, DeleteCR, KeyDBClusters
    <3>3. cr.life = "new" => cr' = NoCR
      BY <2>2 DEF UserDeletes, DeleteCR
    <3>4. cr.life \in {"new", "managed"}
      BY <2>2 DEF UserDeletes, DeleteCR
    <3> QED
      BY <3>2, <3>3, <3>4
  <2> QED
    BY <2>1, <2>2
<1>3. TypeOK'
  BY <1>1, <1>2 DEF TypeOK, clusterVars, workerVars
<1>4. CurrentCopiesAreExact'
  BY <1>1 DEF CurrentCopiesAreExact, OfCr, clusterVars, workerVars
<1>5. LivesAgree'
  BY <1>1, <1>2 DEF LivesAgree, workerVars
<1>6. WorkIsManaged' /\ ProgressIsRecorded' /\ InvalidSpecIsNeverApplied'
  BY <1>1 DEF WorkIsManaged, ProgressIsRecorded, InvalidSpecIsNeverApplied,
              clusterVars, workerVars
<1> QED
  BY <1>3, <1>4, <1>5, <1>6

\* An informer catches up.
LEMMA InformersKeepIInv ==
    ASSUME IInv, InformerOfCr \/ InformerOfSts \/ InformerOfPods
    PROVE  IInv'
<1>1. UNCHANGED <<clusterVars, workerVars, cr>>
  BY DEF InformerOfCr, InformerOfSts, InformerOfPods, SyncCr, SyncSts, SyncPods
<1>2. TypeOK'
  BY <1>1 DEF InformerOfCr, InformerOfSts, InformerOfPods, SyncCr, SyncSts, SyncPods,
              TypeOK, Copies, clusterVars, workerVars
<1>3. CurrentCopiesAreExact'
  BY <1>1 DEF InformerOfCr, InformerOfSts, InformerOfPods, SyncCr, SyncSts, SyncPods,
              CurrentCopiesAreExact, clusterVars, workerVars
<1>4. LivesAgree'
  BY <1>1 DEF InformerOfCr, InformerOfSts, InformerOfPods, SyncCr, SyncSts, SyncPods,
              LivesAgree, workerVars
<1>5. WorkIsManaged'
  BY <1>1 DEF InformerOfCr, InformerOfSts, InformerOfPods, SyncCr, SyncSts, SyncPods,
              WorkIsManaged, workerVars
<1>6. ProgressIsRecorded' /\ InvalidSpecIsNeverApplied'
  BY <1>1 DEF ProgressIsRecorded, InvalidSpecIsNeverApplied, clusterVars, workerVars
<1> QED
  BY <1>2, <1>3, <1>4, <1>5, <1>6

\* What the StatefulSet controller counts are numbers.
LEMMA CountsOfPods ==
    ASSUME NEW S \in SUBSET Pods
    PROVE  Cardinality(S) \in Nat
<1>1. IsFiniteSet(Pods)
  BY FS_Interval, Sizes DEF Pods
<1>2. IsFiniteSet(S)
  BY <1>1, FS_Subset
<1> QED
  BY <1>2, FS_CardinalityType

\* The StatefulSet controller, the kubelet and the garbage collector.
LEMMA EnvironmentKeepsIInv ==
    ASSUME IInv,
           \/ \E i \in Pods : \/ PodCreation(i) \/ PodRoll(i) \/ PodReadiness(i)
                              \/ PodStart(i) \/ PodRemoval(i) \/ PodFailure(i)
           \/ StatusReport
           \/ GarbageCollection
    PROVE  IInv'
<1>1. /\ NotByTheOperator
      /\ pods \in [Pods -> PodStates] /\ sts \in StatefulSets /\ faults \in Nat
  BY DEF TypeOK, PodCreation, PodRoll, PodReadiness, PodStart, PodRemoval, PodFailure,
         StatusReport, GarbageCollection
<1>2. ASSUME NEW i \in Pods,
             \/ PodCreation(i) \/ PodRoll(i) \/ PodReadiness(i)
             \/ PodStart(i) \/ PodRemoval(i) \/ PodFailure(i)
      PROVE  IInv'
  <2>1. sts' = sts /\ faults' \in Nat
    BY <1>1, <1>2 DEF PodCreation, PodRoll, PodReadiness, PodStart, PodRemoval, PodFailure,
         CreatePod, RollPod, PodBecomesReady, PodStartsUnready, PodIsGone, PodFails, Fault
  <2>2. pods' \in [Pods -> PodStates]
    <3>1. CASE PodCreation(i)
      <4>1. sts.image \in Images
        BY <1>1, <3>1, ImageOf DEF PodCreation, CreatePod
      <4>2. NewPod(sts.image) \in PodStates
        BY <4>1 DEF NewPod, PodStates
      <4> QED
        BY <1>1, <3>1, <4>2 DEF PodCreation, CreatePod
    <3>2. CASE PodRoll(i)
      BY <1>1, <3>2, PodTerminated DEF PodRoll, RollPod
    <3>3. CASE PodReadiness(i) \/ PodStart(i) \/ PodFailure(i)
      <4>1. pods[i] \in PodStates /\ pods[i].ready # "none"
        BY <1>1, <3>3 DEF PodReadiness, PodStart, PodFailure, PodBecomesReady,
                          PodStartsUnready, PodFails, IsHealthy
      <4>2. \A r \in {"True", "False", "init"} : [pods[i] EXCEPT !.ready = r] \in PodStates
        BY <4>1 DEF PodStates, NoPod
      <4>3. PICK r \in {"True", "False", "init"} : pods' = [pods EXCEPT ![i].ready = r]
        BY <3>3 DEF PodReadiness, PodStart, PodFailure, PodBecomesReady,
                    PodStartsUnready, PodFails
      <4>4. pods' = [pods EXCEPT ![i] = [pods[i] EXCEPT !.ready = r]]
        BY <4>3
      <4> QED
        BY <1>1, <4>2, <4>4
    <3>4. CASE PodRemoval(i)
      BY <1>1, <3>4 DEF PodRemoval, PodIsGone, PodStates
    <3> QED
      BY <1>2, <3>1, <3>2, <3>3, <3>4
  <2> QED
    BY <1>1, <2>1, <2>2, KubernetesKeepsIInv
<1>3. CASE StatusReport
  <2>1. sts \in [image : Images, replicas : Nat, ready : Nat]
    BY <1>1, <1>3, ImageOf DEF StatusReport, ReportStatus
  <2>2. /\ Cardinality({i \in Pods : Exists(pods[i])}) \in Nat
        /\ Cardinality({i \in Pods : pods[i].ready = "True"}) \in Nat
    <3> DEFINE A == {i \in Pods : Exists(pods[i])}
               B == {i \in Pods : pods[i].ready = "True"}
    <3>1. A \in SUBSET Pods /\ B \in SUBSET Pods
      OBVIOUS
    <3> HIDE DEF A, B
    <3>2. Cardinality(A) \in Nat /\ Cardinality(B) \in Nat
      BY <3>1, CountsOfPods
    <3> QED
      BY <3>2 DEF A, B
  <2>3. ObservedStatus \in StatefulSets /\ ObservedStatus.image = sts.image
    BY <2>1, <2>2 DEF ObservedStatus, StatefulSets
  <2> QED
    BY <1>1, <1>3, <2>3, KubernetesKeepsIInv DEF StatusReport, ReportStatus
<1>4. CASE GarbageCollection
  <2>1. sts' = NoSts /\ NoSts.image = NoImage
    BY <1>4 DEF GarbageCollection, CollectGarbage, NoSts
  <2>2. \A pod \in PodStates : Terminated(pod) \in PodStates
    BY DEF PodStates, Terminated, Exists, NoPod
  <2>3. pods' \in [Pods -> PodStates]
    BY <1>1, <1>4, <2>2 DEF GarbageCollection, CollectGarbage
  <2> QED
    BY <1>1, <1>4, <2>1, <2>3, KubernetesKeepsIInv
       DEF GarbageCollection, CollectGarbage, StatefulSets
<1> QED
  BY <1>2, <1>3, <1>4

LEMMA NextKeepsIInv == IInv /\ [Next]_vars => IInv'
<1> SUFFICES ASSUME IInv, [Next]_vars PROVE IInv'
  OBVIOUS
<1>1. CASE ReconcileStep
  BY <1>1, ReconcileKeepsIInv, StatusStepsKeepIInv, RollingKeepsIInv, UpgradePodKeepsIInv,
     ProgressKeepsIInv, RecreateKeepsIInv DEF ReconcileStep, UpgradeManagerStep
<1>2. CASE ApiErrorInUpgradePod \/ ApiError \/ Crash
  BY <1>2, FaultsKeepIInv
<1>3. CASE UserEdits \/ UserDeletes
  BY <1>3, UserKeepsIInv
<1>4. CASE InformerOfCr \/ InformerOfSts \/ InformerOfPods
  BY <1>4, InformersKeepIInv
<1>5. CASE \/ \E i \in Pods : \/ PodCreation(i) \/ PodRoll(i) \/ PodReadiness(i)
                              \/ PodStart(i) \/ PodRemoval(i) \/ PodFailure(i)
           \/ StatusReport
           \/ GarbageCollection
  BY <1>5, EnvironmentKeepsIInv
<1>6. CASE UNCHANGED vars
  <2>1. TypeOK' /\ CurrentCopiesAreExact'
    BY <1>6 DEF TypeOK, CurrentCopiesAreExact, vars, clusterVars, storeVars, workerVars
  <2>2. LivesAgree' /\ WorkIsManaged' /\ ProgressIsRecorded' /\ InvalidSpecIsNeverApplied'
    BY <1>6 DEF LivesAgree, WorkIsManaged, ProgressIsRecorded, InvalidSpecIsNeverApplied,
                vars, clusterVars, storeVars, workerVars
  <2> QED
    BY <2>1, <2>2
<1> QED
  BY <1>1, <1>2, <1>3, <1>4, <1>5, <1>6 DEF Next

-----------------------------------------------------------------------------
\* The theorems.

\* In every state that Reconcile, the upgrade manager, the user, Kubernetes and
\* the faults can reach, the inductive invariant holds: optimistic locking, the
\* finalizer and validation together keep the worker's picture of the
\* KeyDBCluster usable.
THEOREM InvariantHolds == Spec => []IInv
<1>1. Init => IInv
  BY InitIInv
<1>2. IInv /\ [Next]_vars => IInv'
  BY NextKeepsIInv
<1> QED
  BY <1>1, <1>2, PTL DEF Spec

\* Every variable keeps its type: no step of Reconcile or of the upgrade
\* manager builds an object from a KeyDBCluster, a StatefulSet or an
\* upgradeStatus that is not there.
THEOREM TypeCorrect == Spec => []TypeOK
<1>1. IInv => TypeOK
  OBVIOUS
<1> QED
  BY <1>1, InvariantHolds, PTL

\* No StatefulSet ever runs an image that ValidateKeyDBCluster rejects, however
\* the spec is edited while Reconcile or the upgrade manager is at work.
THEOREM OnlyValidSpecsAreApplied == Spec => []InvalidSpecIsNeverApplied
<1>1. IInv => InvalidSpecIsNeverApplied
  OBVIOUS
<1> QED
  BY <1>1, InvariantHolds, PTL

\* The worker and its surroundings, apart from the finalizer and the status
\* writes, leave the KeyDBCluster alone.
LEMMA OthersLeaveTheKeyDBCluster ==
    ASSUME [Next]_vars,
           ~HandleDeletion, ~AddFinalizer, ~UserEdits, ~UserDeletes,
           ~RejectSpec, ~WriteStatus, ~InitUpgradeStatus, ~StartRollingUpdate,
           ~RecordProgress, ~CompleteUpgrade, ~FailUpgrade
    PROVE  cr' = cr
<1>1. CASE \/ ReconcileStatefulSet \/ UpgradeIsNeeded \/ NoUpgradeIsNeeded
           \/ RetryStatus \/ GiveUpStatus
  BY <1>1 DEF ReconcileStatefulSet, UpgradeIsNeeded, NoUpgradeIsNeeded, RetryStatus,
              GiveUpStatus, Return, storeVars, crVars
<1>2. CASE UpgradeManagerStep
  BY <1>2 DEF UpgradeManagerStep, PerformRollingUpgrade, RejectPodBeforeUpgrade,
     PreparePod, PreparePodAndTemplate, DeletePod, PodToDeleteNotFound, PodIsReady,
     WaitForPodTimesOut, validatePodAfterUpgrade, StartRecreateUpdate, getClusterPods,
     DeleteNextPod, AllPodsDeleted, WaitForPodsReady, UpgradePodFails, UpdateTemplate, Return, crVars
<1>3. CASE \/ ApiErrorInUpgradePod \/ ApiError \/ Crash
           \/ InformerOfCr \/ InformerOfSts \/ InformerOfPods
  BY <1>3 DEF ApiErrorInUpgradePod, ApiError, Crash, UpgradePodFails, Return,
     InformerOfCr, InformerOfSts, InformerOfPods, SyncCr, SyncSts, SyncPods
<1>4. CASE \/ \E i \in Pods : \/ PodCreation(i) \/ PodRoll(i) \/ PodReadiness(i)
                              \/ PodStart(i) \/ PodRemoval(i) \/ PodFailure(i)
           \/ StatusReport
           \/ GarbageCollection
  BY <1>4 DEF PodCreation, PodRoll, PodReadiness, PodStart, PodRemoval, PodFailure,
     StatusReport, GarbageCollection, NotByTheOperator, crVars
<1>5. CASE UNCHANGED vars
  BY <1>5 DEF vars, storeVars
<1> QED
  BY <1>1, <1>2, <1>3, <1>4, <1>5 DEF Next, ReconcileStep

\* A status write that is accepted was made from the live object, and changes
\* nothing but the status.
LEMMA StatusWritesKeepTheRest ==
    ASSUME IInv,
           \/ RejectSpec \/ WriteStatus \/ InitUpgradeStatus \/ StartRollingUpdate
           \/ RecordProgress \/ CompleteUpgrade \/ FailUpgrade
    PROVE  \/ cr' = cr
           \/ /\ cr \in KeyDBClusters
              /\ cr'.gen = cr.gen /\ cr'.life = cr.life
              /\ cr'.image = cr.image /\ cr'.strategy = cr.strategy
<1>1. \/ cr' = cr
      \/ /\ cr \in KeyDBClusters
         /\ \E status : cr' = [cr EXCEPT !.status = status]
  <2>1. CASE RejectSpec \/ WriteStatus
    <3>1. "crCache" \in current /\ crCache.life # "gone"
      BY <2>1 DEF RejectSpec, WriteStatus, LivesAgree
    <3>2. cr \in KeyDBClusters
      BY <3>1, CurrentCache
    <3> QED
      BY <2>1, <3>2 DEF RejectSpec, WriteStatus
  <2>2. CASE InitUpgradeStatus \/ StartRollingUpdate \/ RecordProgress
    <3>1. pc \in CarryingSteps
      BY <2>2 DEF InitUpgradeStatus, StartRollingUpdate, RecordProgress, CarryingSteps, Steps
    <3>2. "crWork" \in current => cr \in KeyDBClusters
      BY <3>1 DEF WorkIsManaged, CurrentCopiesAreExact
    <3> QED
      BY <2>2, <3>2 DEF InitUpgradeStatus, StartRollingUpdate, RecordProgress,
                        UpdateStatus, Conflict, Return
  <2>3. CASE CompleteUpgrade \/ FailUpgrade
    <3>1. pc \in CarryingSteps
      BY <2>3 DEF CompleteUpgrade, FailUpgrade, CarryingSteps, Steps
    <3>2. "crWork" \in current => cr \in KeyDBClusters
      BY <3>1 DEF WorkIsManaged, CurrentCopiesAreExact
    <3> QED
      BY <2>3, <3>2 DEF CompleteUpgrade, FailUpgrade, ReturnWith
  <2> QED
    BY <2>1, <2>2, <2>3
<1> QED
  BY <1>1 DEF KeyDBClusters

\* A step does what UserIntentIsKept asks of it.
IntentIsKept ==
    /\ <<cr'.image, cr'.strategy>> # <<cr.image, cr.strategy>> /\ cr' # NoCR
           => cr'.gen = cr.gen + 1
    /\ cr.life = "deleting" => cr'.life \in {"deleting", "gone"}

LEMMA StepsKeepIntent ==
    ASSUME IInv, [Next]_vars
    PROVE  IntentIsKept
<1> USE DEF IntentIsKept
<1>1. CASE HandleDeletion
  BY <1>1 DEF HandleDeletion, NoCR
<1>2. CASE AddFinalizer
  <2>1. crCache = cr /\ cr \in KeyDBClusters
    BY <1>2, CurrentCache DEF AddFinalizer
  <2> QED
    BY <1>2, <2>1 DEF AddFinalizer, KeyDBClusters
<1>3. CASE UserEdits
  <2>1. cr \in KeyDBClusters
    BY <1>3, LifeOf DEF UserEdits, EditSpec, TypeOK
  <2>2. cr'.gen = cr.gen + 1 /\ cr'.life = cr.life
    BY <1>3, <2>1 DEF UserEdits, EditSpec, KeyDBClusters
  <2> QED
    BY <2>2
<1>4. CASE UserDeletes
  <2>1. cr \in KeyDBClusters /\ cr.life # "deleting"
    BY <1>4, LifeOf DEF UserDeletes, DeleteCR, TypeOK
  <2> QED
    BY <1>4, <2>1 DEF UserDeletes, DeleteCR, KeyDBClusters
<1>5. CASE \/ RejectSpec \/ WriteStatus \/ InitUpgradeStatus \/ StartRollingUpdate
           \/ RecordProgress \/ CompleteUpgrade \/ FailUpgrade
  <2>1. \/ cr' = cr
        \/ /\ cr'.gen = cr.gen /\ cr'.life = cr.life
           /\ cr'.image = cr.image /\ cr'.strategy = cr.strategy
    BY <1>5, StatusWritesKeepTheRest
  <2> QED
    BY <2>1
<1>6. CASE cr' = cr
  BY <1>6
<1> QED
  BY <1>1, <1>2, <1>3, <1>4, <1>5, <1>6, OthersLeaveTheKeyDBCluster

\* The operator never undoes what the user has asked for: a finalizer update,
\* which writes the whole object back, goes through only from the live object,
\* so that neither an edit of the spec nor a deletion is lost.
THEOREM UserIntent == Spec => UserIntentIsKept
<1>1. IInv /\ [Next]_vars => IntentIsKept
  BY StepsKeepIntent
<1> QED
  BY <1>1, InvariantHolds, PTL DEF Spec, UserIntentIsKept, IntentIsKept

\* When the KeyDBCluster is gone, no step of the operator creates its
\* StatefulSet anew or changes it, even with caches that still show both:
\* the finalizer holds the object until the cache has seen the deletion.
THEOREM NothingIsBuilt == Spec => NothingIsBuiltForAGoneCluster
<1>1. IInv /\ [Next]_vars => (cr.life = "gone" => sts'.image \in {sts.image, NoImage})
  <2> SUFFICES ASSUME IInv, [Next]_vars, cr.life = "gone"
               PROVE  sts'.image \in {sts.image, NoImage}
    OBVIOUS
  <2>1. pc = "idle" /\ crCache.life # "managed"
    BY DEF LivesAgree
  <2>2. CASE ReconcileStep
    <3>1. HandleDeletion \/ AddFinalizer
      BY <2>1, <2>2 DEF ReconcileStep, UpgradeManagerStep, RejectSpec, ReconcileStatefulSet,
         UpgradeIsNeeded, NoUpgradeIsNeeded, InitUpgradeStatus, WriteStatus, RetryStatus,
         GiveUpStatus, PerformRollingUpgrade, StartRollingUpdate, RejectPodBeforeUpgrade,
         PreparePod, PreparePodAndTemplate, DeletePod, PodToDeleteNotFound, PodIsReady,
         WaitForPodTimesOut, validatePodAfterUpgrade, RecordProgress, CompleteUpgrade,
         FailUpgrade, StartRecreateUpdate, getClusterPods, DeleteNextPod, AllPodsDeleted,
         WaitForPodsReady
    <3> QED
      BY <3>1 DEF HandleDeletion, AddFinalizer, clusterVars
  <2>3. CASE \/ ApiErrorInUpgradePod \/ ApiError \/ Crash \/ UserEdits \/ UserDeletes
             \/ InformerOfCr \/ InformerOfSts \/ InformerOfPods
    BY <2>3 DEF ApiErrorInUpgradePod, ApiError, Crash, UserEdits, UserDeletes,
       InformerOfCr, InformerOfSts, InformerOfPods, clusterVars
  <2>4. CASE \E i \in Pods : \/ PodCreation(i) \/ PodRoll(i) \/ PodReadiness(i)
                             \/ PodStart(i) \/ PodRemoval(i) \/ PodFailure(i)
    BY <2>4 DEF PodCreation, PodRoll, PodReadiness, PodStart, PodRemoval, PodFailure,
       CreatePod, RollPod, PodBecomesReady, PodStartsUnready, PodIsGone, PodFails
  <2>5. CASE StatusReport
    <3>1. sts \in [image : Images, replicas : Nat, ready : Nat]
      BY <2>5, ImageOf DEF StatusReport, ReportStatus, TypeOK
    <3> QED
      BY <2>5, <3>1 DEF StatusReport, ReportStatus, ObservedStatus
  <2>6. CASE GarbageCollection
    BY <2>6 DEF GarbageCollection, CollectGarbage, NoSts
  <2>7. CASE UNCHANGED vars
    BY <2>7 DEF vars, clusterVars
  <2> QED
    BY <2>2, <2>3, <2>4, <2>5, <2>6, <2>7 DEF Next
<1> QED
  BY <1>1, InvariantHolds, PTL DEF Spec, NothingIsBuiltForAGoneCluster
=============================================================================
