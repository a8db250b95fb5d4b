------------------------------- MODULE Ownership -------------------------------
(***************************************************************************)
(* What the operator promises of the objects that KeyDBClusters of one     *)
(* name are made of (its ConfigMap, its StatefulSet, ...): whose they are. *)
(* An object belongs to the KeyDBCluster that is there, to one that is     *)
(* gone, to another controller, or to nobody, which is also what is said   *)
(* of an object that is not there.                                         *)
(*                                                                         *)
(* A KeyDBCluster takes what is nobody's and what an earlier one has left, *)
(* never what another controller has; and as long as it is there, nobody   *)
(* takes from it what it has.                                              *)
(***************************************************************************)
EXTENDS Integers

CONSTANT Kinds

VARIABLES
    born,   \* how many KeyDBClusters there have been: they are numbered
    live,   \* the one that is there, or 0
    owner   \* by kind: the number of a KeyDBCluster, or one of

Nobody == 0
Stranger == -1

vars == <<born, live, owner>>

\* The user has just created the first one.
Init ==
    /\ born = 1
    /\ live = 1
    /\ owner = [kind \in Kinds |-> Nobody]

\* Another one of the same name.
Appear ==
    /\ live = 0
    /\ born' = born + 1
    /\ live' = born'
    /\ UNCHANGED owner

Disappear ==
    /\ live # 0
    /\ live' = 0
    /\ UNCHANGED <<born, owner>>

Goes(kind, to) ==
    /\ owner' = [owner EXCEPT ![kind] = to]
    /\ UNCHANGED <<born, live>>

\* The operator makes the object, or adopts it.
Acquire(kind) == live # 0 /\ owner[kind] \notin {Stranger, live} /\ Goes(kind, live)

\* Another controller adopts it.
Take(kind) == owner[kind] = Nobody /\ Goes(kind, Stranger)

\* It is deleted by the controller that owns it, or with the KeyDBCluster.
Delete(kind) == owner[kind] \notin {Nobody, live} /\ Goes(kind, Nobody)

Next ==
    \/ Appear
    \/ Disappear
    \/ \E kind \in Kinds : Acquire(kind) \/ Take(kind) \/ Delete(kind)

Spec == Init /\ [][Next]_vars
=============================================================================
