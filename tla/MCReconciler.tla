---------------------------- MODULE MCReconciler ----------------------------
(***************************************************************************)
(* Instances of Reconciler for TLC.                                        *)
(***************************************************************************)
EXTENDS DocumentedUpgrades, TLC

CONSTANTS a, b, c   \* images

\* Images that no constant tells apart are interchangeable.
ImageSymmetry == Permutations(Images \ (Broken \cup Invalid))

\* A cluster that has come up, and of which the operator knows everything: the
\* states from which upgrades start, without the ways that lead there.
RunningInit ==
    \E image \in Images \ (Broken \cup Invalid), strategy \in Strategies :
        /\ cr = [NewCR(image, strategy) EXCEPT !.life = "managed", !.status.phase = "Running"]
        /\ sts = [image |-> image,
                  replicas |-> calculateReplicas, ready |-> calculateReplicas]
        /\ pods = [i \in Pods |-> [NewPod(image) EXCEPT !.ready = "True"]]
        /\ crCache = cr
        /\ stsCache = sts
        /\ podCache = pods
        /\ current = {"crCache", "stsCache"}
        /\ pc = "idle"
        /\ work = NoCR
        /\ found = NoImage
        /\ loop = 0
        /\ doomed = {}
        /\ faults = 0

RunningSpec == RunningInit /\ [][Next]_vars

\* Checking liveness excludes SYMMETRY.  Images a and b are interchangeable all
\* the same, and a behaviour that starts with b needs no look.
RunningOrInvalid ==
    \/ RunningInit /\ cr.image = a
    \/ Init /\ cr.image \in Invalid

FairRunningOrInvalidSpec == RunningOrInvalid /\ [][Next]_vars /\ Fairness
=============================================================================
