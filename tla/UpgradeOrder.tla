---------------------------- MODULE UpgradeOrder ----------------------------
(***************************************************************************)
(* How many pods a KeyDBCluster has, and the order in which the upgrade    *)
(* manager takes them (internal/resources/statefulset.go, calculateReplicas*)
(* and internal/upgrade/manager.go, get...UpgradeOrder).                   *)
(*                                                                         *)
(* A pod is its StatefulSet ordinal.  In cluster mode shard s (from 0)     *)
(* owns the ordinals s*(1+ReplicasPerShard) (its master) up to             *)
(* s*(1+ReplicasPerShard) + ReplicasPerShard (its replicas).               *)
(*                                                                         *)
(* The branches of the code for a cluster-mode spec without a cluster      *)
(* section are left out: validateClusterMode rejects such a spec before    *)
(* either function runs.                                                   *)
(***************************************************************************)
EXTENDS Integers, Sequences

CONSTANTS
    Mode,               \* spec.mode: "multi-master" or "cluster"
    Replicas,           \* spec.replicas, used in multi-master mode
    Shards,             \* spec.cluster.shards, used in cluster mode
    ReplicasPerShard    \* spec.cluster.replicasPerShard, used in cluster mode

\* What validateMultiMasterMode, validateReplicas and validateClusterMode let
\* through, without their upper limits (and without the minimum of 3 shards).
ASSUME TopologyAssumption ==
    /\ Mode \in {"multi-master", "cluster"}
    /\ Replicas \in Nat \ {0}
    /\ Shards \in Nat \ {0}
    /\ ReplicasPerShard \in Nat

ShardSize == 1 + ReplicasPerShard

calculateReplicas == IF Mode = "cluster" THEN Shards * ShardSize ELSE Replicas

Pods == 0 .. calculateReplicas - 1

IsMaster(pod) == Mode = "cluster" => pod % ShardSize = 0

\* The first loop of getClusterModeUpgradeOrder: the replicas, shard by shard.
ReplicaOrder ==
    [k \in 1 .. Shards * ReplicasPerShard |->
        ((k - 1) \div ReplicasPerShard) * ShardSize
            + ((k - 1) % ReplicasPerShard) + 1]

\* Its second loop: the masters.
MasterOrder == [s \in 1 .. Shards |-> (s - 1) * ShardSize]

getClusterModeUpgradeOrder == ReplicaOrder \o MasterOrder

\* Mutant: the loop ends one pod early.
UpgradeOrderWithoutTheLastPod == [k \in 1 .. Replicas - 1 |-> k - 1]

getMultiMasterUpgradeOrder == [k \in 1 .. Replicas |-> k - 1]

Order == IF Mode = "cluster" THEN getClusterModeUpgradeOrder
                             ELSE getMultiMasterUpgradeOrder
=============================================================================
