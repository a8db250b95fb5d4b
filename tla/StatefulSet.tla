----------------------------- MODULE StatefulSet -----------------------------
(***************************************************************************)
(* The Kubernetes side of a KeyDBCluster: its StatefulSet, the pods, and   *)
(* what the StatefulSet controller, the kubelet and the garbage collector  *)
(* do to them.  None of this is code of the operator: it is the            *)
(* environment that NewStatefulSet (internal/resources/statefulset.go)     *)
(* asks for by leaving podManagementPolicy and updateStrategy at their     *)
(* defaults, OrderedReady and RollingUpdate without a partition:           *)
(*   - a missing pod is created only when every lower ordinal is ready;    *)
(*   - with all pods ready, the highest ordinal that does not run the      *)
(*     template's image is deleted, one at a time.                         *)
(* In cluster mode NewStatefulSet gives the pods an init container, which  *)
(* asks the DNS for every pod before KeyDB is started.                     *)
(*                                                                         *)
(* Simplifications: the StatefulSet controller acts on the live template   *)
(* and the live pods (its own caches do not lag); of the template only the *)
(* image is kept; the StatefulSet's name never belongs to someone else.    *)
(***************************************************************************)
EXTENDS UpgradeOrder, FiniteSets

CONSTANTS
    Images,     \* the container images a spec may name
    Broken,     \* images whose pods never become ready
    NoImage,    \* the image of an object that does not exist
    MaxFaults   \* bound on failing pods, failed API calls and crashes

ASSUME ImagesAssumption ==
    Broken \subseteq Images /\ NoImage \notin Images /\ MaxFaults \in Nat

VARIABLES
    sts,        \* the StatefulSet at the API server
    pods,       \* the pods at the API server, by ordinal
    faults      \* how many things have gone wrong

clusterVars == <<sts, pods, faults>>

Fault == faults < MaxFaults /\ faults' = faults + 1

NoSts == [image |-> NoImage, replicas |-> 0, ready |-> 0]

\* spec.template's image; status.replicas; status.readyReplicas.
StatefulSets == [image : Images, replicas : Nat, ready : Nat] \cup {NoSts}

\* A pod's Ready condition is not there yet ("new"), False or True; with "init"
\* it is False because the init container is still at work.
NoPod == [ready |-> "none", terminating |-> FALSE, image |-> NoImage]

PodStates ==
    [ready : {"new", "init", "False", "True"}, terminating : BOOLEAN, image : Images]
        \cup {NoPod}

NewPod(image) == [ready |-> "new", terminating |-> FALSE, image |-> image]

Exists(pod) == pod # NoPod

\* isRunningAndReady and not terminating: what the StatefulSet controller
\* waits for before it goes on to the next ordinal.
IsHealthy(pod) == pod.ready = "True" /\ ~pod.terminating

\* DELETE of an object that exists sets its deletion timestamp.
Terminated(pod) == IF Exists(pod) THEN [pod EXCEPT !.terminating = TRUE] ELSE NoPod

-----------------------------------------------------------------------------
\* The StatefulSet controller.

CreatePod(i) ==
    /\ sts # NoSts
    /\ ~Exists(pods[i])
    /\ \A j \in Pods : j < i => IsHealthy(pods[j])
    /\ pods' = [pods EXCEPT ![i] = NewPod(sts.image)]
    /\ UNCHANGED <<sts, faults>>

RollPod(i) ==
    /\ sts # NoSts
    /\ \A j \in Pods : IsHealthy(pods[j])
    /\ pods[i].image # sts.image
    /\ \A j \in Pods : j > i => pods[j].image = sts.image
    /\ pods' = [pods EXCEPT ![i] = Terminated(@)]
    /\ UNCHANGED <<sts, faults>>

ObservedStatus ==
    [sts EXCEPT !.replicas = Cardinality({i \in Pods : Exists(pods[i])}),
                !.ready = Cardinality({i \in Pods : pods[i].ready = "True"})]

ReportStatus ==
    /\ sts # NoSts
    /\ sts' = ObservedStatus
    /\ sts' # sts
    /\ UNCHANGED <<pods, faults>>

-----------------------------------------------------------------------------
\* The kubelet.

\* getClusterInitScript: a pod has its name in the DNS as soon as it is there,
\* since the headless Service publishes addresses that are not ready.
InitIsDone == Mode = "cluster" => \A i \in Pods : Exists(pods[i])

PodBecomesReady(i) ==
    /\ pods[i].ready \in {"new", "init", "False"}
    /\ pods[i].ready = "False" \/ InitIsDone
    /\ ~pods[i].terminating
    /\ pods[i].image \notin Broken
    /\ pods' = [pods EXCEPT ![i].ready = "True"]
    /\ UNCHANGED <<sts, faults>>

\* The first probe of a new pod comes too early, or its init container waits.
PodStartsUnready(i) ==
    /\ pods[i].ready = "new"
    /\ ~pods[i].terminating
    /\ pods' = [pods EXCEPT ![i].ready = IF Mode = "cluster" THEN "init" ELSE "False"]
    /\ UNCHANGED <<sts, faults>>

\* A running pod fails its readiness probe.
PodFails(i) ==
    /\ Fault
    /\ IsHealthy(pods[i])
    /\ pods' = [pods EXCEPT ![i].ready = "False"]
    /\ UNCHANGED sts

PodIsGone(i) ==
    /\ pods[i].terminating
    /\ pods' = [pods EXCEPT ![i] = NoPod]
    /\ UNCHANGED <<sts, faults>>

-----------------------------------------------------------------------------
\* The garbage collector deletes the StatefulSet of an owner that is gone, and
\* the pods with it.
CollectGarbage ==
    /\ sts # NoSts
    /\ sts' = NoSts
    /\ pods' = [i \in Pods |-> Terminated(pods[i])]
    /\ UNCHANGED faults
=============================================================================
