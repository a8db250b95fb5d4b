-------------------------- MODULE DocumentedUpgrades --------------------------
(***************************************************************************)
(* What comments of the code say of an upgrade and of the status, stated   *)
(* over Reconciler.  The code does otherwise: TLC finds a counterexample   *)
(* to each.                                                                *)
(***************************************************************************)
EXTENDS Reconciler

\* "For multi-master mode, upgrade one at a time" (performRollingUpdate): in a
\* cluster whose pods do not fail by themselves, at most one pod is away or not
\* ready.  The StatefulSet controller rolls the same pods at the same time,
\* from the other end.
OneAtATime ==
    cr.life = "managed" => Cardinality({i \in Pods : ~IsHealthy(pods[i])}) <= 1

\* "Wait for all pods to be ready" (getClusterInitScript), and then all pods
\* start: unless the user deletes it, every KeyDBCluster comes up.  In cluster
\* mode the first pod waits for the second one, which the StatefulSet controller
\* creates when the first one is ready.
EveryClusterComesUp ==
    <>(\/ cr.life \in {"deleting", "gone"}
       \/ \A i \in Pods : IsHealthy(pods[i]))

\* "RunningPhase indicates the cluster is running normally": at that time the
\* StatefulSet has as many ready pods as the spec asks for.  updateStatus
\* compares with the number of pods there are.
RunningMeansAllPodsAreReady ==
    [][cr'.status.phase = "Running" /\ cr.status.phase # "Running"
           => stsCache.ready = calculateReplicas]_vars

\* UpgradeStatus "represents the status of an ongoing upgrade", and TargetImage
\* is the "Target image for upgrade": while pods are being upgraded it is the
\* image they are upgraded to.  The second upgrade keeps the status of the first.
TargetImageIsOfThisUpgrade ==
    pc \in UpgradePodSteps /\ "crWork" \in current
        => cr.status.upgrade.target = work.image
=============================================================================
