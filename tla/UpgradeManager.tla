---------------------------- MODULE UpgradeManager ----------------------------
(***************************************************************************)
(* The upgrade manager (internal/upgrade/manager.go), called by the one    *)
(* worker of the operator from inside Reconcile.  It holds the worker for  *)
(* as long as the upgrade takes, while the user, the StatefulSet           *)
(* controller, the kubelet and the informers go on.                        *)
(*                                                                         *)
(* One action per call that the API server sees.  A read of a cache is in  *)
(* the action of the write that follows it, when nothing else reads that   *)
(* cache in between: an informer that catches up between the two might as  *)
(* well do so after the write.                                             *)
(***************************************************************************)
EXTENDS ApiServer

VARIABLES
    pc,         \* what the worker does next
    work,       \* keydbCluster, the object that Reconcile passes down
    found,      \* the image in statefulSet, the object that the manager passes down
    loop,       \* position in upgradeOrder; attempt in updateStatusWithRetry
    doomed      \* the pods that performRecreateUpdate has still to delete

workerVars == <<pc, work, found, loop, doomed>>

\* The steps of upgradePod, which end in a status write when they fail.
UpgradePodSteps ==
    {"validatePodBeforeUpgrade", "deletePod", "waitForPodReady", "validatePodAfterUpgrade"}

Steps ==
    UpgradePodSteps \cup
    {"idle", "checkUpgradeNeeded", "initUpgradeStatus", "PerformRollingUpgrade",
     "performRollingUpdate", "performRecreateUpdate", "upgradedPod", "upgradeCompleted",
     "upgradeFailed", "getClusterPods", "deletePods", "waitForPodsReady", "updateStatusWithRetry"}

\* Reconcile returns, with or without an error; the locals go.
Return ==
    /\ pc' = "idle"
    /\ work' = NoCR
    /\ found' = NoImage
    /\ loop' = 0
    /\ doomed' = {}
    /\ current' = current \ {"crWork", "stsWork"}
    /\ UNCHANGED <<cr, crCache, stsCache, podCache>>

\* Mutant: the whole object is written, whatever its resourceVersion.
OverwriteWithStatus(status) ==
    /\ cr' = [work EXCEPT !.status = status]
    /\ work' = cr'
    /\ current' = (current \ {"crCache"}) \cup {"crWork"}
    /\ UNCHANGED <<crCache, stsCache, podCache>>

\* r.Status().Update(ctx, keydbCluster): the object carries its
\* resourceVersion, and on success the server's answer overwrites it.  A write
\* that changes nothing leaves the resourceVersion alone.
UpdateStatus(status) ==
    /\ "crWork" \in current
    /\ cr' = [cr EXCEPT !.status = status]
    /\ work' = cr'
    /\ current' = IF cr' = cr THEN current ELSE current \ {"crCache"}
    /\ UNCHANGED <<crCache, stsCache, podCache>>

\* The write is refused: Reconcile returns the error.
Conflict ==
    /\ "crWork" \notin current
    /\ Return

WithUpgrade(upgrade) == [work.status EXCEPT !.upgrade = upgrade]

-----------------------------------------------------------------------------
\* The manager reads the StatefulSet and takes the strategy's path.
PerformRollingUpgrade ==
    /\ pc = "PerformRollingUpgrade"
    /\ stsCache # NoSts
    /\ found' = stsCache.image
    /\ current' = IF "stsCache" \in current THEN current \cup {"stsWork"} ELSE current
    /\ pc' = IF work.strategy = "Recreate" THEN "performRecreateUpdate"
                                           ELSE "performRollingUpdate"
    /\ UNCHANGED <<clusterVars, crVars, stsCache, podCache, work, loop, doomed>>

StartRollingUpdate ==
    /\ pc = "performRollingUpdate"
    /\ \/ /\ UpdateStatus(WithUpgrade([work.status.upgrade EXCEPT
                             !.phase = "InProgress", !.total = calculateReplicas]))
          /\ pc' = "validatePodBeforeUpgrade"
          /\ loop' = 1
          /\ UNCHANGED <<found, doomed>>
       \/ Conflict
    /\ UNCHANGED clusterVars

\* The loop "for _, podIndex := range upgradeOrder".
podIndex == Order[loop]

\* Mutant: the error of upgradePod is dropped.
UpgradePodGoesOn ==
    /\ pc' = "upgradedPod"
    /\ UNCHANGED <<cr, crCache, stsCache, podCache, current, work, found, loop, doomed>>

\* upgradePod returns an error.
UpgradePodFails ==
    /\ pc' = "upgradeFailed"
    /\ UNCHANGED <<cr, crCache, stsCache, podCache, current, work, found, loop, doomed>>

GoTo(step) ==
    /\ pc' = step
    /\ UNCHANGED <<work, found, loop, doomed>>

\* A pod without a Ready condition passes.
IsUpgradable(pod) == Exists(pod) /\ pod.ready \in {"new", "True"}

RejectPodBeforeUpgrade ==
    /\ pc = "validatePodBeforeUpgrade"
    /\ ~IsUpgradable(podCache[podIndex])
    /\ UpgradePodFails
    /\ UNCHANGED clusterVars

\* The template is written only when the manager's copy has another image.
PreparePod ==
    /\ pc = "validatePodBeforeUpgrade"
    /\ IsUpgradable(podCache[podIndex])
    /\ found = work.image
    /\ GoTo("deletePod")
    /\ UNCHANGED <<clusterVars, crVars, stsCache, podCache, current>>

\* r.Update of the StatefulSet with the manager's copy.
UpdateTemplate ==
    /\ "stsWork" \in current
    /\ sts' = [sts EXCEPT !.image = work.image]
    /\ current' = IF sts' = sts THEN current ELSE current \ {"stsCache"}
    /\ UNCHANGED <<pods, faults, crVars, stsCache, podCache>>

PreparePodAndTemplate ==
    /\ pc = "validatePodBeforeUpgrade"
    /\ IsUpgradable(podCache[podIndex])
    /\ found # work.image
    /\ \/ /\ UpdateTemplate
          /\ pc' = "deletePod"
          /\ found' = work.image
          /\ UNCHANGED <<work, loop, doomed>>
       \/ /\ "stsWork" \notin current
          /\ UpgradePodFails
          /\ UNCHANGED clusterVars

\* DELETE names the pod the cache knows, and takes whichever pod has the name.
DeletePod ==
    /\ pc = "deletePod"
    /\ Exists(podCache[podIndex])
    /\ Exists(pods[podIndex])
    /\ pods' = [pods EXCEPT ![podIndex] = Terminated(@)]
    /\ GoTo("waitForPodReady")
    /\ UNCHANGED <<sts, faults, crVars, stsCache, podCache, current>>

PodToDeleteNotFound ==
    /\ pc = "deletePod"
    /\ ~Exists(podCache[podIndex]) \/ ~Exists(pods[podIndex])
    /\ UpgradePodFails
    /\ UNCHANGED clusterVars

\* The poll of the cache sees a Ready pod of that name: it may be the one that
\* was just deleted.
PodIsReady ==
    /\ pc = "waitForPodReady"
    /\ podCache[podIndex].ready = "True"
    /\ GoTo("validatePodAfterUpgrade")
    /\ UNCHANGED <<clusterVars, crVars, stsCache, podCache, current>>

\* validationTimeoutSeconds go by.
WaitForPodTimesOut ==
    /\ pc = "waitForPodReady"
    /\ podCache[podIndex].ready # "True"
    /\ UpgradePodFails
    /\ UNCHANGED clusterVars

IsUpgraded(pod) == IsUpgradable(pod) /\ pod.image = work.image

validatePodAfterUpgrade ==
    /\ pc = "validatePodAfterUpgrade"
    /\ \/ /\ IsUpgraded(podCache[podIndex])
          /\ GoTo("upgradedPod")
          /\ UNCHANGED <<crVars, stsCache, podCache, current>>
       \/ /\ ~IsUpgraded(podCache[podIndex])
          /\ UpgradePodFails
    /\ UNCHANGED clusterVars

\* Mutant: the upgrade is complete one pod early.
RecordProgressAndStopShort ==
    /\ pc = "upgradedPod"
    /\ \/ /\ UpdateStatus(WithUpgrade([work.status.upgrade EXCEPT !.upgraded = @ + 1]))
          /\ pc' = IF loop < Len(Order) - 1 THEN "validatePodBeforeUpgrade"
                                            ELSE "upgradeCompleted"
          /\ loop' = loop + 1
          /\ UNCHANGED <<found, doomed>>
       \/ Conflict
    /\ UNCHANGED clusterVars

\* UpgradedPods++, and on to the next pod.
RecordProgress ==
    /\ pc = "upgradedPod"
    /\ \/ /\ UpdateStatus(WithUpgrade([work.status.upgrade EXCEPT !.upgraded = @ + 1]))
          /\ pc' = IF loop < Len(Order) THEN "validatePodBeforeUpgrade"
                                        ELSE "upgradeCompleted"
          /\ loop' = IF loop < Len(Order) THEN loop + 1 ELSE loop
          /\ UNCHANGED <<found, doomed>>
       \/ Conflict
    /\ UNCHANGED clusterVars

\* The last or the failing status write: Reconcile returns whatever comes of it.
ReturnWith(status) ==
    /\ cr' = IF "crWork" \in current THEN [cr EXCEPT !.status = status] ELSE cr
    /\ current' = (IF cr' = cr THEN current ELSE current \ {"crCache"})
                      \ {"crWork", "stsWork"}
    /\ pc' = "idle"
    /\ work' = NoCR
    /\ found' = NoImage
    /\ loop' = 0
    /\ doomed' = {}
    /\ UNCHANGED <<crCache, stsCache, podCache>>

CompleteUpgrade ==
    /\ pc = "upgradeCompleted"
    /\ ReturnWith([WithUpgrade([work.status.upgrade EXCEPT !.phase = "Completed"])
                       EXCEPT !.currentImage = work.image])
    /\ UNCHANGED clusterVars

FailUpgrade ==
    /\ pc = "upgradeFailed"
    /\ ReturnWith(WithUpgrade([work.status.upgrade EXCEPT !.phase = "Failed"]))
    /\ UNCHANGED clusterVars

-----------------------------------------------------------------------------
\* Mutant: the template is left to reconcileStatefulSet.
StartRecreateUpdateWithoutTemplate ==
    /\ pc = "performRecreateUpdate"
    /\ GoTo("getClusterPods")
    /\ UNCHANGED <<clusterVars, crVars, stsCache, podCache, current>>

\* performRecreateUpdate writes the template ...
StartRecreateUpdate ==
    /\ pc = "performRecreateUpdate"
    /\ \/ /\ UpdateTemplate
          /\ pc' = "getClusterPods"
          /\ found' = work.image
          /\ UNCHANGED <<work, loop, doomed>>
       \/ /\ "stsWork" \notin current
          /\ Return
          /\ UNCHANGED clusterVars

\* ... and then deletes every pod in the cached list.
getClusterPods ==
    /\ pc = "getClusterPods"
    /\ pc' = "deletePods"
    /\ doomed' = {i \in Pods : Exists(podCache[i])}
    /\ UNCHANGED <<clusterVars, crVars, stsCache, podCache, current, work, found, loop>>

\* The list has no order; a pod that is not found ends the loop with an error.
DeleteNextPod ==
    /\ pc = "deletePods"
    /\ \E i \in doomed :
           \/ /\ Exists(pods[i])
              /\ pods' = [pods EXCEPT ![i] = Terminated(@)]
              /\ doomed' = doomed \ {i}
              /\ UNCHANGED <<sts, faults, crVars, stsCache, podCache, current,
                             pc, work, found, loop>>
           \/ /\ ~Exists(pods[i])
              /\ Return
              /\ UNCHANGED clusterVars

AllPodsDeleted ==
    /\ pc = "deletePods"
    /\ doomed = {}
    /\ GoTo("waitForPodsReady")
    /\ UNCHANGED <<clusterVars, crVars, stsCache, podCache, current>>

\* All the pods in the cached list are ready (of which an empty list has
\* many), or ten minutes are over: Reconcile returns, and writes no status.
WaitForPodsReady ==
    /\ pc = "waitForPodsReady"
    /\ Return
    /\ UNCHANGED clusterVars

UpgradeManagerStep ==
    \/ PerformRollingUpgrade
    \/ StartRollingUpdate
    \/ RejectPodBeforeUpgrade
    \/ PreparePod
    \/ PreparePodAndTemplate
    \/ DeletePod
    \/ PodToDeleteNotFound
    \/ PodIsReady
    \/ WaitForPodTimesOut
    \/ validatePodAfterUpgrade
    \/ RecordProgress
    \/ CompleteUpgrade
    \/ FailUpgrade
    \/ StartRecreateUpdate
    \/ getClusterPods
    \/ DeleteNextPod
    \/ AllPodsDeleted
    \/ WaitForPodsReady
=============================================================================
