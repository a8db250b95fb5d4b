--------------------------- MODULE UpgradeLifecycle ---------------------------
(***************************************************************************)
(* What status.upgradeStatus promises its reader (UpgradeStatus in         *)
(* api/v1alpha1/keydbcluster_types.go), whoever writes it and however      *)
(* often those writes are refused and repeated: an upgrade is announced,   *)
(* is in progress, and ends Completed or Failed; the count of upgraded     *)
(* pods goes up one by one and only while the upgrade is in progress; it   *)
(* is Completed only with all its pods counted.  A later upgrade starts    *)
(* from where the last one ended; only with the KeyDBCluster itself does   *)
(* all this go away.                                                       *)
(***************************************************************************)
EXTENDS Naturals

VARIABLES exists, phase, upgraded, total

vars == <<exists, phase, upgraded, total>>

Init == exists = TRUE /\ phase = "nil" /\ upgraded = 0 /\ total = 0

Announce ==
    /\ phase = "nil"
    /\ phase' = "Starting"
    /\ UNCHANGED <<exists, upgraded, total>>

Start ==
    /\ phase # "nil"
    /\ phase' = "InProgress"
    /\ total' \in Nat
    /\ UNCHANGED <<exists, upgraded>>

Progress ==
    /\ phase = "InProgress"
    /\ upgraded' = upgraded + 1
    /\ UNCHANGED <<exists, phase, total>>

Complete ==
    /\ phase = "InProgress"
    /\ upgraded >= total
    /\ phase' = "Completed"
    /\ UNCHANGED <<exists, upgraded, total>>

Fail ==
    /\ phase = "InProgress"
    /\ phase' = "Failed"
    /\ UNCHANGED <<exists, upgraded, total>>

Forget ==
    /\ exists' = FALSE
    /\ phase' = "nil"
    /\ upgraded' = 0
    /\ total' = 0

\* The KeyDBCluster is there, until it is forgotten.
Next ==
    /\ exists
    /\ Announce \/ Start \/ Progress \/ Complete \/ Fail \/ Forget

Spec == Init /\ [][Next]_vars
=============================================================================
