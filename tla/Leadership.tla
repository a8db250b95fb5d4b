------------------------------ MODULE Leadership ------------------------------
(***************************************************************************)
(* A change of leader while a call of the old one is under way.  main.go   *)
(* has the operator elect a leader; when the lease is lost, mgr.Start      *)
(* cancels the context of every later call and the process exits, but the  *)
(* call that has been sent may reach the API server after the next leader  *)
(* has listed everything and gone to work.  Nothing fences it, except the  *)
(* resourceVersion that updates carry: a create and a delete carry none.   *)
(*                                                                         *)
(* The variables of Reconciler are the new leader's.                       *)
(***************************************************************************)
EXTENDS Reconciler

VARIABLE late \* the call of the old leader

leadershipVars == <<vars, late>>

\* Of a call: what it does, its resourceVersion, and what it writes.
NoCall ==
    [op |-> "none", isCurrent |-> FALSE, life |-> "gone", status |-> NoStatus,
     image |-> NoImage, pod |-> 0]

\* The model ends with one change of leader.
NoMoreCalls == [NoCall EXCEPT !.op = "over"]

LeadershipInit == Init /\ late = NoCall

-----------------------------------------------------------------------------
\* The writes that the worker may be in, by what it does next.

FinalizerCall ==
    /\ pc = "idle"
    /\ crCache.life \in {"new", "deleting"}
    /\ late' = [NoCall EXCEPT
                    !.op = "finalizer",
                    !.isCurrent = "crCache" \in current,
                    !.life = IF crCache.life = "new" THEN "managed" ELSE "gone"]

StatusUnderWay ==
    LET upgrade == work.status.upgrade IN
    CASE pc = "idle" -> [crCache.status EXCEPT !.phase = "Failed"]
      [] pc = "initUpgradeStatus" ->
             WithUpgrade([NoUpgrade EXCEPT !.phase = "Starting", !.target = work.image])
      [] pc = "performRollingUpdate" ->
             WithUpgrade([upgrade EXCEPT !.phase = "InProgress", !.total = calculateReplicas])
      [] pc = "upgradedPod" -> WithUpgrade([upgrade EXCEPT !.upgraded = @ + 1])
      [] pc = "upgradeFailed" -> WithUpgrade([upgrade EXCEPT !.phase = "Failed"])
      [] pc = "upgradeCompleted" ->
             [WithUpgrade([upgrade EXCEPT !.phase = "Completed"])
                 EXCEPT !.currentImage = work.image]
      [] pc = "updateStatusWithRetry" -> [crCache.status EXCEPT !.phase = PhaseOf(stsCache)]

StatusCall ==
    /\ \/ pc \in {"initUpgradeStatus", "performRollingUpdate", "upgradedPod",
                  "upgradeFailed", "upgradeCompleted"}
       \/ pc = "updateStatusWithRetry" /\ stsCache # NoSts
       \/ pc = "idle" /\ crCache.life = "managed" /\ ~IsValid(crCache)
    /\ late' = [NoCall EXCEPT
                    !.op = "status",
                    !.isCurrent = (IF pc \in {"idle", "updateStatusWithRetry"}
                                   THEN "crCache" ELSE "crWork") \in current,
                    !.status = StatusUnderWay]

CreateCall ==
    /\ pc = "idle"
    /\ crCache.life = "managed" /\ IsValid(crCache)
    /\ stsCache = NoSts
    /\ late' = [NoCall EXCEPT !.op = "create", !.image = crCache.image]

TemplateCall ==
    \/ /\ pc = "idle"
       /\ crCache.life = "managed" /\ IsValid(crCache)
       /\ stsCache # NoSts /\ stsCache.image # crCache.image
       /\ late' = [NoCall EXCEPT !.op = "template", !.image = crCache.image,
                                 !.isCurrent = "stsCache" \in current]
    \/ /\ \/ pc = "performRecreateUpdate"
          \/ /\ pc = "validatePodBeforeUpgrade"
             /\ IsUpgradable(podCache[podIndex])
             /\ found # work.image
       /\ late' = [NoCall EXCEPT !.op = "template", !.image = work.image,
                                 !.isCurrent = "stsWork" \in current]

\* performRecreateUpdate goes by the list that it has read.
DeleteCall ==
    \E i \in (IF pc = "deletePod" THEN {podIndex} ELSE doomed) :
        /\ pc = "deletePod" => Exists(podCache[i])
        /\ late' = [NoCall EXCEPT !.op = "delete", !.pod = i]

\* The lease is lost, and the next operator lists everything anew.
LeaseIsLost ==
    /\ late = NoCall
    /\ FinalizerCall \/ StatusCall \/ CreateCall \/ TemplateCall \/ DeleteCall
    /\ pc' = "idle"
    /\ work' = NoCR
    /\ found' = NoImage
    /\ loop' = 0
    /\ doomed' = {}
    /\ crCache' = cr
    /\ stsCache' = sts
    /\ podCache' = pods
    /\ current' = {"crCache", "stsCache"}
    /\ UNCHANGED <<clusterVars, cr>>

-----------------------------------------------------------------------------
\* The call reaches the API server.

NotTheNewLeader == UNCHANGED <<faults, crCache, stsCache, podCache, workerVars>>

\* Mutant: the update carries no resourceVersion.
LateFinalizerUnconditionally ==
    /\ late.op = "finalizer"
    /\ cr # NoCR
    /\ cr' = IF late.life = "gone" THEN NoCR ELSE [cr EXCEPT !.life = late.life]
    /\ current' = current \ OfCr
    /\ UNCHANGED <<sts, pods>>
    /\ NotTheNewLeader

LateFinalizer ==
    /\ late.op = "finalizer"
    /\ late.isCurrent
    /\ cr' = IF late.life = "gone" THEN NoCR ELSE [cr EXCEPT !.life = late.life]
    /\ current' = current \ OfCr
    /\ UNCHANGED <<sts, pods>>
    /\ NotTheNewLeader

\* Mutant: the status is written whatever the resourceVersion.
LateStatusUnconditionally ==
    /\ late.op = "status"
    /\ cr # NoCR
    /\ cr' = [cr EXCEPT !.status = late.status]
    /\ current' = current \ OfCr
    /\ UNCHANGED <<sts, pods>>
    /\ NotTheNewLeader

LateStatus ==
    /\ late.op = "status"
    /\ late.isCurrent
    /\ cr' = [cr EXCEPT !.status = late.status]
    /\ current' = current \ OfCr
    /\ UNCHANGED <<sts, pods>>
    /\ NotTheNewLeader

LateCreate ==
    /\ late.op = "create"
    /\ sts = NoSts
    /\ sts' = [NoSts EXCEPT !.image = late.image]
    /\ current' = current \ OfSts
    /\ UNCHANGED <<cr, pods>>
    /\ NotTheNewLeader

LateTemplate ==
    /\ late.op = "template"
    /\ late.isCurrent
    /\ sts' = [sts EXCEPT !.image = late.image]
    /\ current' = current \ OfSts
    /\ UNCHANGED <<cr, pods>>
    /\ NotTheNewLeader

LateDelete ==
    /\ late.op = "delete"
    /\ pods' = [pods EXCEPT ![late.pod] = Terminated(@)]
    /\ UNCHANGED <<sts, cr, current>>
    /\ NotTheNewLeader

\* It is refused, or never gets there.
LateCallIsLost == late \notin {NoCall, NoMoreCalls} /\ UNCHANGED vars

CallArrives ==
    /\ LateFinalizer \/ LateStatus \/ LateCreate \/ LateTemplate \/ LateDelete \/ LateCallIsLost
    /\ late' = NoMoreCalls

\* A write of the object takes the resourceVersion of the call out of date.
CallIsStillCurrent ==
    /\ late.isCurrent
    /\ late.op \in {"finalizer", "status"} =>
           cr' = cr /\ ("crCache" \in current => "crCache" \in current')
    /\ late.op = "template" =>
           sts' = sts /\ ("stsCache" \in current => "stsCache" \in current')

LeadershipNext ==
    \/ Next /\ late' = [late EXCEPT !.isCurrent = CallIsStillCurrent]
    \/ LeaseIsLost
    \/ CallArrives

LeadershipSpec == LeadershipInit /\ [][LeadershipNext]_leadershipVars
=============================================================================
