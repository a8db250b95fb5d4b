----------------------------- MODULE MCLeadership -----------------------------
(***************************************************************************)
(* Instances of Leadership for TLC.                                        *)
(***************************************************************************)
EXTENDS Leadership

CONSTANTS a, b \* two images

\* A cluster that runs image a and whose spec has been changed to b while there
\* was no operator.
UpgradePending ==
    \E strategy \in Strategies :
        /\ cr = [NewCR(b, strategy) EXCEPT
                    !.gen = 2, !.life = "managed", !.status.phase = "Running"]
        /\ sts = [image |-> a,
                  replicas |-> calculateReplicas, ready |-> calculateReplicas]
        /\ pods = [i \in Pods |-> [NewPod(a) EXCEPT !.ready = "True"]]
        /\ crCache = cr
        /\ stsCache = sts
        /\ podCache = pods
        /\ current = {"crCache", "stsCache"}
        /\ pc = "idle"
        /\ work = NoCR
        /\ found = NoImage
        /\ loop = 0
        /\ doomed = {}
        /\ faults = 0

\* Or a cluster that is new.
NewOrUpgradePending ==
    /\ (Init /\ cr.image = a) \/ UpgradePending
    /\ late = NoCall

OneTakeoverSpec == NewOrUpgradePending /\ [][LeadershipNext]_leadershipVars
=============================================================================
