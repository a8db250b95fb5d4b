------------------------------ MODULE ApiServer ------------------------------
(***************************************************************************)
(* The KeyDBCluster at the API server, what its user does to it, and the   *)
(* operator's caches.                                                      *)
(*                                                                         *)
(* The operator reads through the manager's cached client (main.go hands   *)
(* mgr.GetClient() to the reconciler, which hands it to the upgrade        *)
(* manager): every Get and List returns the informer's last copy, and      *)
(* every write goes to the API server, which refuses an update whose       *)
(* resourceVersion is not the live one.  Instead of numbering the          *)
(* versions, the model keeps the set of the copies that carry the live     *)
(* one: a write of an object takes every other copy of it out of the set.  *)
(*                                                                         *)
(* An informer catches up with the live object in one step, whenever it    *)
(* likes: intermediate versions that it would pass through are copies it   *)
(* could have caught up with before the next write.                        *)
(***************************************************************************)
EXTENDS StatefulSet

CONSTANTS
    Strategies, \* the values of spec.upgrade.strategy in play
    MaxEdits,   \* bound on the number of times the user edits the spec
    MaxDeletes  \* bound on the deletions of the KeyDBCluster: 0 or 1

ASSUME ApiServerAssumption ==
    /\ Strategies \subseteq {"RollingUpdate", "Recreate"}
    /\ MaxEdits \in Nat
    /\ MaxDeletes \in {0, 1}

VARIABLES
    cr,         \* the KeyDBCluster at the API server
    crCache,    \* the operator's cached copy of it
    stsCache,   \* the cached copy of the StatefulSet
    podCache,   \* the cached copies of the pods
    current     \* the copies that carry the live resourceVersion

\* The cached copies, and those the worker has in its hands.
Copies == {"crCache", "crWork", "stsCache", "stsWork"}

NoUpgrade == [phase |-> "nil", target |-> NoImage, upgraded |-> 0, total |-> 0]

\* status.upgradeStatus: phase, targetImage, upgradedPods, totalPods.
UpgradeStatuses ==
    [phase : {"Starting", "InProgress", "Completed", "Failed"},
     target : Images, upgraded : Nat, total : Nat] \cup {NoUpgrade}

NoStatus == [phase |-> "", currentImage |-> NoImage, upgrade |-> NoUpgrade]

\* status.replicas, readyReplicas and conditions follow status.phase, and no
\* code reads them: they are left out.
Statuses ==
    [phase : {"", "Pending", "Running", "Failed"},
     currentImage : Images \cup {NoImage},
     upgrade : UpgradeStatuses]

\* metadata.generation; spec.image; spec.upgrade.strategy; whether the
\* finalizer is set and the deletion timestamp is (see below); the status.
KeyDBClusters ==
    [gen : Nat, image : Images, strategy : Strategies,
     life : {"new", "managed", "deleting"}, status : Statuses]

\* An object that does not exist is in the life "gone".
NoCR == [gen |-> 0, image |-> NoImage, strategy |-> "none", life |-> "gone",
         status |-> NoStatus]

\*   new       no finalizer, no deletion timestamp
\*   managed   the operator's finalizer, no deletion timestamp
\*   deleting  the finalizer and a deletion timestamp
NewCR(image, strategy) ==
    [gen |-> 1, image |-> image, strategy |-> strategy, life |-> "new",
     status |-> NoStatus]

crVars == <<cr, crCache>>

\* The copies that a write of the object takes out of the current ones.
OfCr == {"crCache", "crWork"}
OfSts == {"stsCache", "stsWork"}

-----------------------------------------------------------------------------
\* The user.

EditSpec(image, strategy) ==
    /\ cr.life # "gone"
    /\ cr.gen <= MaxEdits
    /\ <<image, strategy>> # <<cr.image, cr.strategy>>
    /\ cr' = [cr EXCEPT !.gen = @ + 1, !.image = image, !.strategy = strategy]
    /\ current' = current \ OfCr
    /\ UNCHANGED <<crCache, stsCache, podCache>>

\* Without a finalizer the object is gone at once.
DeleteCR ==
    /\ MaxDeletes = 1
    /\ cr.life \in {"new", "managed"}
    /\ cr' = IF cr.life = "new" THEN NoCR ELSE [cr EXCEPT !.life = "deleting"]
    /\ current' = current \ OfCr
    /\ UNCHANGED <<crCache, stsCache, podCache>>

-----------------------------------------------------------------------------
\* The operator's informers.

SyncCr ==
    /\ "crCache" \notin current
    /\ crCache' = cr
    /\ current' = current \cup {"crCache"}
    /\ UNCHANGED <<cr, stsCache, podCache>>

SyncSts ==
    /\ "stsCache" \notin current
    /\ stsCache' = sts
    /\ current' = current \cup {"stsCache"}
    /\ UNCHANGED <<cr, crCache, podCache>>

\* One watch delivers the pods' events in the order of the writes.
SyncPods ==
    /\ podCache # pods
    /\ podCache' = pods
    /\ UNCHANGED <<cr, crCache, stsCache, current>>
=============================================================================
