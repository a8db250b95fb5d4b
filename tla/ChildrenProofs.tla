---------------------------- MODULE ChildrenProofs ----------------------------
(***************************************************************************)
(* Proofs about Children, for every set of specs, of leftovers, and every  *)
(* number of edits, KeyDBClusters of one name, and faults.                 *)
(*                                                                         *)
(* The inductive invariant says, besides the types: copies with the live   *)
(* resourceVersion are exact; a KeyDBCluster that the cache has with its   *)
(* finalizer is still there, since nobody but the worker takes the         *)
(* finalizer away; the one that Reconcile works for is still there; and    *)
(* the StatefulSet it has adopted is its own.                              *)
(***************************************************************************)
EXTENDS Children, TLAPS

\* The fields of a KeyDBCluster and of a child.
IsCluster(object) ==
    object = [uid |-> object.uid, spec |-> object.spec, life |-> object.life]

IsChild(child) == child = [owner |-> child.owner, content |-> child.content]

Shapes ==
    /\ IsCluster(cr) /\ IsCluster(crCache) /\ IsCluster(work)
    /\ children = [kind \in Kinds |-> children[kind]]
    /\ cache = [kind \in Kinds |-> cache[kind]]
    /\ \A kind \in Kinds : IsChild(children[kind]) /\ IsChild(cache[kind])
    /\ IsChild(found)

IsLive(object) == cr.uid = object.uid /\ cr.life \in {"managed", "deleting"}

\* A copy that carries the live resourceVersion has the live content: how the API
\* server keeps its versions, which every argument about an r.Update goes back to.
CurrentCopiesAreExact ==
    /\ "cr" \in current => crCache = cr
    /\ \A kind \in Kinds \cap current : cache[kind] = children[kind]
    /\ "found" \in current => found = children["StatefulSet"]

ClustersAreLive ==
    /\ crCache.life = "managed" => IsLive(crCache)
    /\ pc # "idle" => IsLive(work)

AdoptedIsOurs == pc = "updateStatefulSet" => found.owner = work.uid

IInv ==
    /\ TypeOK
    /\ Shapes
    /\ CurrentCopiesAreExact
    /\ ClustersAreLive
    /\ AdoptedIsOurs

-----------------------------------------------------------------------------
\* The initial states.

LEMMA InitialChildrenAreNobodys ==
    ASSUME InitChildren
    PROVE  /\ children = [kind \in Kinds |-> children[kind]]
           /\ \A kind \in Kinds : children[kind].owner = Nobody /\ IsChild(children[kind])
<1>1. CASE children = [kind \in Kinds |-> NoChild]
  BY <1>1 DEF NoChild, IsChild
<1>2. CASE \E left \in Leftovers : \E content \in Generated(left.kind, left.spec) :
               children = [[kind \in Kinds |-> NoChild] EXCEPT
                              ![left.kind] = [owner |-> Nobody,
                                              content |-> AsStored(left.kind, content)]]
  <2>0. PICK left \in Leftovers : \E content \in Generated(left.kind, left.spec) :
            children = [[kind \in Kinds |-> NoChild] EXCEPT
                           ![left.kind] = [owner |-> Nobody,
                                           content |-> AsStored(left.kind, content)]]
    BY <1>2
  <2>1. PICK content \in Generated(left.kind, left.spec) :
            children = [[kind \in Kinds |-> NoChild] EXCEPT
                           ![left.kind] = [owner |-> Nobody,
                                           content |-> AsStored(left.kind, content)]]
    BY <2>0
  <2>2. left.kind \in Kinds
    BY ChildrenAssumption
  <2>3. children = [kind \in Kinds |-> IF kind = left.kind
                                       THEN [owner |-> Nobody,
                                             content |-> AsStored(left.kind, content)]
                                       ELSE NoChild]
    BY <2>1, <2>2
  <2> QED BY <2>3 DEF NoChild, IsChild
<1> QED BY <1>1, <1>2 DEF InitChildren

LEMMA InitIInv == Init => IInv
<1> SUFFICES ASSUME Init PROVE IInv
    OBVIOUS
<1>1. PICK spec \in Specs : cr = [uid |-> 1, spec |-> spec, life |-> "new"]
    BY DEF Init
<1>2. /\ children = [kind \in Kinds |-> children[kind]]
      /\ \A kind \in Kinds : children[kind].owner = 0 /\ IsChild(children[kind])
  BY InitialChildrenAreNobodys DEF Init, Nobody
<1> faults \in Nat
  <2>1. faults = 0 \/ faults = 1
    BY Zenon DEF Init, InitChildren
  <2> QED BY <2>1
<1>3. TypeOK
    BY <1>1, <1>2, ChildrenAssumption, 0 = 0
    DEF Init, TypeOK, NoCluster, Nobody, Copies, NoChild
<1>4. Shapes
    BY <1>1, <1>2 DEF Init, Shapes, NoCluster, NoChild, IsCluster, IsChild
<1>5. CurrentCopiesAreExact /\ ClustersAreLive /\ AdoptedIsOurs
    BY DEF Init, CurrentCopiesAreExact, ClustersAreLive, AdoptedIsOurs, NoCluster, Kinds
<1> QED BY <1>3, <1>4, <1>5 DEF IInv

-----------------------------------------------------------------------------
\* The user.

LEMMA UserKeepsIInv ==
    ASSUME IInv, EditSpec \/ DeleteCluster \/ CreateCluster PROVE IInv'
<1> USE DEF IInv
<1>1. CASE EditSpec
  <2>1. PICK spec \in EditedSpecs : cr' = [cr EXCEPT !.spec = spec]
    BY <1>1 DEF EditSpec
  <2>2. cr' = [uid |-> cr.uid, spec |-> spec, life |-> cr.life] /\ cr # NoCluster
    BY <1>1, <2>1 DEF EditSpec, Shapes, IsCluster, NoCluster
  <2>3. TypeOK'
    BY <1>1, <2>2 DEF EditSpec, TypeOK, NoCluster, workerVars
  <2> QED
    BY <1>1, <2>2, <2>3 DEF EditSpec, Shapes, CurrentCopiesAreExact, ClustersAreLive,
        AdoptedIsOurs, IsLive, IsCluster, IsChild, workerVars
<1>2. CASE DeleteCluster
  <2>1. \/ cr.life = "new" /\ cr' = NoCluster
        \/ cr.life = "managed" /\ cr' = [uid |-> cr.uid, spec |-> cr.spec, life |-> "deleting"]
    BY <1>2 DEF DeleteCluster, Shapes, IsCluster
  <2>2. TypeOK'
    BY <1>2, <2>1 DEF DeleteCluster, TypeOK, NoCluster, workerVars, budgetVars
  <2> QED
    BY <1>2, <2>1, <2>2 DEF DeleteCluster, Shapes, CurrentCopiesAreExact, ClustersAreLive,
        AdoptedIsOurs, IsLive, IsCluster, IsChild, NoCluster, workerVars, budgetVars
<1>3. CASE CreateCluster
  <2>1. PICK spec \in Specs : cr' = [uid |-> born', spec |-> spec, life |-> "new"]
    BY <1>3 DEF CreateCluster
  <2>2. TypeOK'
    BY <1>3, <2>1 DEF CreateCluster, TypeOK, NoCluster, workerVars
  <2> QED
    BY <1>3, <2>1, <2>2 DEF CreateCluster, Shapes, CurrentCopiesAreExact, ClustersAreLive,
        AdoptedIsOurs, IsLive, IsCluster, IsChild, NoCluster, workerVars
<1> QED BY <1>1, <1>2, <1>3

-----------------------------------------------------------------------------
\* Writes of the children.

StoreIsSound ==
    /\ CurrentCopiesAreExact
    /\ current \subseteq Copies
    /\ children = [kind \in Kinds |-> children[kind]]
    /\ \A kind \in Kinds : IsChild(children[kind]) /\ children[kind].owner \in -1 .. born

OthersStay == UNCHANGED <<cr, crCache, cache, budgetVars>>

LEMMA ChildWritten ==
    ASSUME Shapes, NEW kind \in Kinds, NEW child, children' = [children EXCEPT ![kind] = child]
    PROVE  /\ children' = [other \in Kinds |-> children'[other]]
           /\ children'[kind] = child
           /\ \A other \in Kinds \ {kind} : children'[other] = children[other]
BY DEF Shapes

\* A write of a child leaves no inexact copy current.
LEMMA WriteIsSound ==
    ASSUME IInv, OthersStay,
           NEW kind \in Kinds, NEW child, IsChild(child), child.owner \in -1 .. born,
           Write(kind, child),
           found' = found \/ kind = "StatefulSet"
    PROVE  StoreIsSound'
<1> USE DEF IInv
<1>1. /\ children' = [other \in Kinds |-> children'[other]]
      /\ children'[kind] = child
      /\ \A other \in Kinds \ {kind} : children'[other] = children[other]
  BY ChildWritten DEF Write
<1>2. /\ child # children[kind] => current' \subseteq current \ {kind}
      /\ kind = "StatefulSet" => "found" \notin current'
      /\ current' \subseteq current
  BY DEF Write
<1>3. CurrentCopiesAreExact'
  BY <1>1, <1>2 DEF CurrentCopiesAreExact, OthersStay, Kinds
<1>4. current' \subseteq Copies
  BY <1>2 DEF TypeOK
<1>5. \A other \in Kinds : IsChild(children'[other]) /\ children'[other].owner \in -1 .. born'
  BY <1>1 DEF Shapes, TypeOK, OthersStay, budgetVars
<1> QED BY <1>1, <1>3, <1>4, <1>5 DEF StoreIsSound, IsChild

LEMMA NoWriteIsSound ==
    ASSUME IInv, OthersStay, UNCHANGED children,
           \/ UNCHANGED <<current, found>>
           \/ current' = current \ {"found"}
    PROVE  StoreIsSound'
<1> USE DEF IInv
<1>1. CurrentCopiesAreExact'
  BY DEF CurrentCopiesAreExact, OthersStay, Kinds
<1>2. current' \subseteq Copies
  BY DEF TypeOK
<1> QED BY <1>1, <1>2 DEF StoreIsSound, OthersStay, budgetVars, Shapes, TypeOK, IsChild

LEMMA ReturnKeepsIInv ==
    ASSUME IInv, Return, StoreIsSound' PROVE IInv'
<1> USE DEF IInv, Return
<1>1. TypeOK'
  BY DEF TypeOK, StoreIsSound, budgetVars
<1>2. Shapes'
  BY DEF Shapes, StoreIsSound, IsCluster, IsChild, NoCluster, NoChild
<1> QED
  BY <1>1, <1>2 DEF StoreIsSound, ClustersAreLive, AdoptedIsOurs, IsLive

LEMMA ProceedKeepsIInv ==
    ASSUME IInv, pc \in Kinds, Proceed, StoreIsSound' PROVE IInv'
<1> USE DEF IInv, Proceed
<1>1. /\ pc' \in Kinds \cup {"idle"}
      /\ pc' = "idle" <=> pc = "StatefulSet"
      /\ pc' # "updateStatefulSet"
  BY DEF After, Kinds
<1>2. /\ pc # "idle" /\ pc # "updateStatefulSet"
      /\ found = NoChild
      /\ work' = IF pc' = "idle" THEN NoCluster ELSE work
  BY <1>1 DEF Kinds, TypeOK
<1>3. TypeOK'
  BY <1>1, <1>2 DEF TypeOK, StoreIsSound, budgetVars
<1>4. Shapes'
  BY <1>1, <1>2 DEF Shapes, StoreIsSound, IsCluster, IsChild, NoCluster
<1> QED
  BY <1>1, <1>2, <1>3, <1>4 DEF StoreIsSound, ClustersAreLive, AdoptedIsOurs, IsLive

LEMMA FailKeepsIInv ==
    ASSUME IInv, Fail PROVE IInv'
BY NoWriteIsSound, ReturnKeepsIInv DEF Fail, Return, OthersStay

-----------------------------------------------------------------------------
\* The other controllers, the garbage collector and the informers.

LEMMA OthersKeepIInv ==
    ASSUME IInv, NEW kind \in Kinds, NEW child, IsChild(child), child.owner \in -1 .. born,
           Write(kind, child), NotByTheOperator
    PROVE  IInv'
<1> USE DEF IInv
<1>1. OthersStay /\ UNCHANGED <<found, pc, work>>
  BY DEF NotByTheOperator, OthersStay, workerVars
<1>2. StoreIsSound'
  BY <1>1, WriteIsSound
<1>3. TypeOK'
  BY <1>1, <1>2 DEF TypeOK, StoreIsSound, OthersStay, budgetVars
<1>4. Shapes'
  BY <1>1, <1>2 DEF Shapes, StoreIsSound, OthersStay, IsCluster, IsChild
<1> QED
  BY <1>1, <1>2, <1>3, <1>4
  DEF StoreIsSound, ClustersAreLive, AdoptedIsOurs, IsLive, OthersStay

LEMMA SurroundingsKeepIInv ==
    ASSUME IInv, NEW kind \in Kinds,
           StrangerTakes(kind) \/ StrangerDeletes(kind) \/ CollectGarbage(kind)
               \/ SyncChild(kind) \/ SyncCr
    PROVE  IInv'
<1> USE DEF IInv
<1>1. IsChild(children[kind]) /\ children[kind].owner \in -1 .. born /\ born \in Nat
  BY DEF Shapes, TypeOK
<1>2. IsChild(NoChild) /\ NoChild.owner \in -1 .. born
  BY <1>1 DEF IsChild, NoChild, Nobody
<1>3. CASE StrangerTakes(kind)
  <2>1. [children[kind] EXCEPT !.owner = Stranger]
            = [owner |-> -1, content |-> children[kind].content]
    BY <1>1 DEF IsChild, Stranger
  <2>2. -1 \in -1 .. born
    BY <1>1
  <2> DEFINE child == [owner |-> -1, content |-> children[kind].content]
  <2>3. IsChild(child) /\ child.owner \in -1 .. born /\ Write(kind, child)
    BY <1>3, <2>1, <2>2 DEF StrangerTakes, IsChild
  <2> QED BY <1>3, <2>3, OthersKeepIInv DEF StrangerTakes
<1>4. CASE StrangerDeletes(kind) \/ CollectGarbage(kind)
  BY <1>2, <1>4, OthersKeepIInv DEF StrangerDeletes, CollectGarbage
<1>5. CASE SyncChild(kind)
  <2>1. /\ cache' = [other \in Kinds |-> cache'[other]]
        /\ cache'[kind] = children[kind]
        /\ \A other \in Kinds \ {kind} : cache'[other] = cache[other]
    BY <1>5 DEF SyncChild, Shapes
  <2>2. current' = current \cup {kind} /\ kind \notin {"cr", "found"}
    BY <1>5 DEF SyncChild, Kinds
  <2>3. TypeOK'
    BY <1>1, <1>5, <2>1, <2>2 DEF SyncChild, TypeOK, Copies, workerVars, budgetVars
  <2>4. Shapes'
    BY <1>1, <1>5, <2>1 DEF SyncChild, Shapes, IsCluster, IsChild, workerVars
  <2> QED
    BY <1>5, <2>1, <2>2, <2>3, <2>4 DEF SyncChild, CurrentCopiesAreExact, ClustersAreLive,
        AdoptedIsOurs, IsLive, workerVars
<1>6. CASE SyncCr
  <2>1. TypeOK'
    BY <1>6 DEF SyncCr, TypeOK, Copies, workerVars, budgetVars
  <2> QED
    BY <1>6, <2>1 DEF SyncCr, Shapes, IsCluster, IsChild, CurrentCopiesAreExact,
        ClustersAreLive, AdoptedIsOurs, IsLive, Kinds, workerVars
<1> QED BY <1>3, <1>4, <1>5, <1>6

-----------------------------------------------------------------------------
\* Reconcile.

LEMMA ClusterStepsKeepIInv ==
    ASSUME IInv, HandleDeletion \/ AddFinalizer \/ StartReconcile PROVE IInv'
<1> USE DEF IInv
<1>1. CASE HandleDeletion
  <2>1. TypeOK'
    BY <1>1 DEF HandleDeletion, TypeOK, workerVars, budgetVars
  <2> QED
    BY <1>1, <2>1 DEF HandleDeletion, Shapes, IsCluster, IsChild, CurrentCopiesAreExact,
        ClustersAreLive, AdoptedIsOurs, IsLive, NoCluster, workerVars
<1>2. CASE AddFinalizer
  <2>1. /\ cr' = [uid |-> crCache.uid, spec |-> crCache.spec, life |-> "managed"]
        /\ crCache # NoCluster
    BY <1>2 DEF AddFinalizer, Shapes, IsCluster, NoCluster
  <2>2. TypeOK'
    BY <1>2, <2>1 DEF AddFinalizer, TypeOK, workerVars, budgetVars
  <2> QED
    BY <1>2, <2>1, <2>2 DEF AddFinalizer, Shapes, IsCluster, IsChild, CurrentCopiesAreExact,
        ClustersAreLive, AdoptedIsOurs, IsLive, workerVars
<1>3. CASE StartReconcile
  <2>1. /\ work' = [uid |-> crCache.uid, spec |-> setDefaults(crCache.spec), life |-> "managed"]
        /\ crCache # NoCluster
    BY <1>3 DEF StartReconcile, Shapes, IsCluster, NoCluster
  <2>2. pc' # "idle" /\ pc' # "updateStatefulSet" /\ pc' \in Kinds /\ found = NoChild
    BY <1>3 DEF StartReconcile, Kinds, TypeOK
  <2>3. TypeOK'
    BY <1>3, <2>1, <2>2 DEF StartReconcile, TypeOK, budgetVars
  <2> QED
    BY <1>3, <2>1, <2>2, <2>3 DEF StartReconcile, Shapes, IsCluster, IsChild,
        CurrentCopiesAreExact, ClustersAreLive, AdoptedIsOurs, IsLive
<1> QED BY <1>1, <1>2, <1>3

\* What Reconcile writes is the child of the KeyDBCluster it works for.
LEMMA OurChild ==
    ASSUME IInv, pc # "idle", NEW content
    PROVE  /\ IsChild([owner |-> work.uid, content |-> content])
           /\ [owner |-> work.uid, content |-> content].owner \in -1 .. born
BY DEF IInv, TypeOK, IsChild

LEMMA CreationsKeepIInv ==
    ASSUME IInv, Create \/ PassBy \/ NewStatefulSetPanics \/ IsAlreadyOwned PROVE IInv'
<1>1. CASE Create
  <2>1. pc \in Kinds /\ pc # "idle"
    BY <1>1 DEF Create, Kinds
  <2>2. PICK content :
            \/ Write(pc, [owner |-> work.uid, content |-> content]) /\ Proceed
            \/ Fail
    BY <1>1 DEF Create
  <2>3. CASE Write(pc, [owner |-> work.uid, content |-> content]) /\ Proceed
    <3>1. StoreIsSound'
      BY <2>1, <2>3, OurChild, WriteIsSound DEF Proceed, OthersStay
    <3> QED BY <2>1, <2>3, <3>1, ProceedKeepsIInv
  <2> QED BY <2>2, <2>3, FailKeepsIInv
<1>2. CASE PassBy
  <2>1. pc \in Kinds /\ Proceed /\ UNCHANGED <<children, current>>
    BY <1>2 DEF PassBy, Kinds
  <2>2. StoreIsSound'
    BY <2>1, NoWriteIsSound DEF Proceed, OthersStay
  <2> QED BY <2>1, <2>2, ProceedKeepsIInv
<1>3. CASE NewStatefulSetPanics \/ IsAlreadyOwned
  BY <1>3, FailKeepsIInv DEF NewStatefulSetPanics, IsAlreadyOwned
<1> QED BY <1>1, <1>2, <1>3

LEMMA ConfigMapKeepsIInv ==
    ASSUME IInv, ReconcileConfigMap PROVE IInv'
<1>1. pc = "ConfigMap" /\ pc \in Kinds /\ pc # "idle"
  BY DEF ReconcileConfigMap, Kinds
<1>2. PICK content :
          \/ Proceed /\ UNCHANGED <<children, current>>
          \/ Write(pc, [owner |-> work.uid, content |-> content]) /\ Proceed
          \/ Fail
  BY DEF ReconcileConfigMap
<1>3. CASE Proceed /\ UNCHANGED <<children, current>>
  <2>1. StoreIsSound'
    BY <1>3, NoWriteIsSound DEF Proceed, OthersStay
  <2> QED BY <1>1, <1>3, <2>1, ProceedKeepsIInv
<1>4. CASE Write(pc, [owner |-> work.uid, content |-> content]) /\ Proceed
  <2>1. StoreIsSound'
    BY <1>1, <1>4, OurChild, WriteIsSound DEF Proceed, OthersStay
  <2> QED BY <1>1, <1>4, <2>1, ProceedKeepsIInv
<1> QED BY <1>2, <1>3, <1>4, FailKeepsIInv

LEMMA AdoptionKeepsIInv ==
    ASSUME IInv, AdoptStatefulSet PROVE IInv'
<1> USE DEF IInv
<1>1. CASE Fail
  BY <1>1, FailKeepsIInv
<1>2. CASE ~Fail
  <2>1. /\ pc = "StatefulSet" /\ pc \in Kinds /\ pc # "idle"
        /\ found' = [owner |-> work.uid, content |-> cache[pc].content]
        /\ children' = [children EXCEPT ![pc] = found']
        /\ current' = (current \ {pc}) \cup {"found"}
        /\ pc' = "updateStatefulSet"
        /\ UNCHANGED <<cr, crCache, cache, work, budgetVars>>
    BY <1>2 DEF AdoptStatefulSet, Shapes, IsChild, Kinds
  <2>2. /\ children' = [other \in Kinds |-> children'[other]]
        /\ children'["StatefulSet"] = found'
        /\ \A other \in Kinds \ {"StatefulSet"} : children'[other] = children[other]
    BY <2>1, ChildWritten
  <2>3. IsChild(found') /\ found'.owner \in -1 .. born
    BY <2>1, OurChild
  <2>4. TypeOK'
    BY <2>1, <2>2, <2>3 DEF TypeOK, Copies, budgetVars
  <2>5. Shapes'
    BY <2>1, <2>2, <2>3 DEF Shapes, IsCluster, IsChild
  <2>6. CurrentCopiesAreExact'
    BY <2>1, <2>2 DEF CurrentCopiesAreExact, Kinds
  <2> QED
    BY <2>1, <2>4, <2>5, <2>6 DEF ClustersAreLive, AdoptedIsOurs, IsLive
<1> QED BY <1>1, <1>2

\* The copy that is updated is the worker's own KeyDBCluster's.
LEMMA UpdateWrites ==
    ASSUME IInv, pc # "idle", NEW copy, IsChild(copy), copy.owner = work.uid,
           NEW isCurrent \in BOOLEAN, UpdateStatefulSet(copy, isCurrent), ~Fail
    PROVE  /\ isCurrent
           /\ Return
           /\ \E content : Write("StatefulSet", [owner |-> work.uid, content |-> content])
<1> DEFINE NewContent(desired) == AsStored("StatefulSet", Updated(copy.content, desired))
<1>1. PICK desired \in Generated("StatefulSet", work.spec) :
          /\ isCurrent /\ Return
          /\ Write("StatefulSet", [copy EXCEPT !.content = NewContent(desired)])
  BY DEF UpdateStatefulSet
<1>2. [copy EXCEPT !.content = NewContent(desired)]
          = [owner |-> work.uid, content |-> NewContent(desired)]
  BY DEF IsChild
<1> QED BY <1>1, <1>2

LEMMA StatefulSetUpdate ==
    ASSUME IInv, ReconcileStatefulSet, ~Fail
    PROVE  /\ pc # "idle"
           /\ \/ "StatefulSet" \in current /\ cache["StatefulSet"].owner = work.uid
              \/ "found" \in current /\ found.owner = work.uid
           /\ Return
           /\ \E content : Write("StatefulSet", [owner |-> work.uid, content |-> content])
<1> USE DEF IInv
<1>1. CASE pc = "StatefulSet"
  <2>1. /\ cache[pc].owner = work.uid /\ IsChild(cache[pc])
        /\ UpdateStatefulSet(cache[pc], pc \in current)
    BY <1>1 DEF ReconcileStatefulSet, Shapes, Kinds
  <2>2. (pc \in current) \in BOOLEAN /\ pc # "idle"
    BY <1>1
  <2>3. /\ pc \in current
        /\ Return
        /\ \E content : Write("StatefulSet", [owner |-> work.uid, content |-> content])
    BY ONLY IInv, <2>1, <2>2, UpdateWrites, ~Fail
  <2> QED BY <1>1, <2>1, <2>2, <2>3
<1>2. CASE pc = "updateStatefulSet"
  <2>1. /\ found.owner = work.uid /\ IsChild(found)
        /\ UpdateStatefulSet(found, "found" \in current)
    BY <1>2 DEF ReconcileStatefulSet, Shapes, AdoptedIsOurs
  <2>2. ("found" \in current) \in BOOLEAN /\ pc # "idle"
    BY <1>2
  <2>3. /\ "found" \in current
        /\ Return
        /\ \E content : Write("StatefulSet", [owner |-> work.uid, content |-> content])
    BY ONLY IInv, <2>1, <2>2, UpdateWrites, ~Fail
  <2> QED BY <2>1, <2>2, <2>3
<1> QED BY <1>1, <1>2 DEF ReconcileStatefulSet

LEMMA StatefulSetKeepsIInv ==
    ASSUME IInv, ReconcileStatefulSet PROVE IInv'
<1>1. CASE Fail
  BY <1>1, FailKeepsIInv
<1>2. CASE ~Fail
  <2>1. PICK content : Write("StatefulSet", [owner |-> work.uid, content |-> content])
    BY <1>2, StatefulSetUpdate
  <2>2. pc # "idle" /\ Return /\ "StatefulSet" \in Kinds
    BY <1>2, StatefulSetUpdate DEF Kinds
  <2>3. StoreIsSound'
    BY <2>1, <2>2, OurChild, WriteIsSound DEF Return, OthersStay
  <2> QED BY <2>2, <2>3, ReturnKeepsIInv
<1> QED BY <1>1, <1>2

LEMMA FaultsKeepIInv ==
    ASSUME IInv, ApiError \/ Crash \/ StatusWrite PROVE IInv'
<1> USE DEF IInv
<1>1. CASE ApiError
  <2>1. TypeOK'
    BY <1>1 DEF ApiError, Fault, TypeOK
  <2> QED
    BY <1>1, <2>1 DEF ApiError, Shapes, IsCluster, IsChild, NoCluster, NoChild,
        CurrentCopiesAreExact, ClustersAreLive, AdoptedIsOurs, IsLive, Kinds
<1>2. CASE Crash
  <2>1. TypeOK'
    BY <1>2 DEF Crash, Fault, TypeOK, Copies
  <2> QED
    BY <1>2, <2>1 DEF Crash, Shapes, IsCluster, IsChild, NoCluster, NoChild,
        CurrentCopiesAreExact, ClustersAreLive, AdoptedIsOurs, IsLive, Kinds
<1>3. CASE StatusWrite
  <2>1. TypeOK'
    BY <1>3 DEF StatusWrite, Fault, TypeOK, workerVars
  <2> QED
    BY <1>3, <2>1 DEF StatusWrite, Shapes, IsCluster, IsChild,
        CurrentCopiesAreExact, ClustersAreLive, AdoptedIsOurs, IsLive, workerVars
<1> QED BY <1>1, <1>2, <1>3

LEMMA NextKeepsIInv == IInv /\ [Next]_vars => IInv'
<1> SUFFICES ASSUME IInv, [Next]_vars PROVE IInv'
  OBVIOUS
<1>1. CASE EditSpec \/ DeleteCluster \/ CreateCluster
  BY <1>1, UserKeepsIInv
<1>2. CASE SyncCr \/ \E kind \in Kinds : StrangerTakes(kind) \/ StrangerDeletes(kind)
                            \/ CollectGarbage(kind) \/ SyncChild(kind)
  <2>1. "ConfigMap" \in Kinds
    BY DEF Kinds
  <2> QED BY <1>2, <2>1, SurroundingsKeepIInv
<1>3. CASE ReconcileStep
  BY <1>3, ClusterStepsKeepIInv, CreationsKeepIInv, ConfigMapKeepsIInv, AdoptionKeepsIInv,
     StatefulSetKeepsIInv DEF ReconcileStep
<1>4. CASE ApiError \/ Crash \/ StatusWrite
  BY <1>4, FaultsKeepIInv
<1>5. CASE UNCHANGED vars
  BY <1>5 DEF IInv, TypeOK, Shapes, IsCluster, IsChild, CurrentCopiesAreExact,
     ClustersAreLive, AdoptedIsOurs, IsLive, vars, workerVars, budgetVars
<1> QED BY <1>1, <1>2, <1>3, <1>4, <1>5 DEF Next

\* The inductive invariant, from which everything below follows.
THEOREM ChildrenInvariant == Spec => []IInv
BY InitIInv, NextKeepsIInv, PTL DEF Spec

-----------------------------------------------------------------------------
\* Every variable has its type: the worker holds a KeyDBCluster, and a copy of the
\* StatefulSet, between two calls of Reconcile and never after.
THEOREM ChildrenTypes == Spec => []TypeOK
<1>1. IInv => TypeOK
  BY DEF IInv
<1> QED BY <1>1, ChildrenInvariant, PTL

\* What becomes of a child in a step of Reconcile: nothing, or it is written for
\* work, and was nobody else's as long as its writer was up to date.
LEMMA ReconcileWritesItsOwn ==
    ASSUME IInv, ReconcileStep, NEW kind \in Kinds, children'[kind] # children[kind]
    PROVE  /\ children'[kind].owner = work.uid
           /\ IsLive(work)
           /\ Exists(children[kind]) => children[kind].owner # Stranger
<1> USE DEF IInv
<1>1. CASE HandleDeletion \/ AddFinalizer \/ StartReconcile \/ NewStatefulSetPanics
           \/ PassBy \/ IsAlreadyOwned \/ Fail
  BY <1>1 DEF HandleDeletion, AddFinalizer, StartReconcile, NewStatefulSetPanics, PassBy,
     IsAlreadyOwned, Fail
<1>2. CASE Create /\ ~Fail
  <2>1. PICK content : Write(pc, [owner |-> work.uid, content |-> content])
    BY <1>2 DEF Create
  <2>2. pc \in Kinds /\ pc # "idle" /\ ~Exists(children[pc])
    BY <1>2 DEF Create, Kinds
  <2>3. kind = pc /\ children'[kind].owner = work.uid
    BY <2>1, <2>2, ChildWritten DEF Write
  <2> QED BY <2>2, <2>3 DEF ClustersAreLive
<1>3. CASE ReconcileConfigMap /\ ~Fail
  <2>1. pc = "ConfigMap" /\ pc \in Kinds /\ pc # "idle" /\ cache[pc].owner # Stranger
    BY <1>3 DEF ReconcileConfigMap, Kinds
  <2>2. PICK content : Write(pc, [owner |-> work.uid, content |-> content]) /\ pc \in current
    BY <1>3 DEF ReconcileConfigMap
  <2>3. kind = pc /\ children'[kind].owner = work.uid
    BY <2>1, <2>2, ChildWritten DEF Write
  <2> QED BY <2>1, <2>2, <2>3 DEF ClustersAreLive, CurrentCopiesAreExact
<1>4. CASE AdoptStatefulSet /\ ~Fail
  <2>1. /\ pc = "StatefulSet" /\ pc \in Kinds /\ pc # "idle" /\ pc \in current
        /\ cache[pc].owner # Stranger
        /\ found' = [owner |-> work.uid, content |-> cache[pc].content]
        /\ children' = [children EXCEPT ![pc] = found']
    BY <1>4 DEF AdoptStatefulSet, Shapes, IsChild, Kinds
  <2>2. kind = pc /\ children'[kind].owner = work.uid
    BY <2>1, ChildWritten
  <2> QED BY <2>1, <2>2 DEF ClustersAreLive, CurrentCopiesAreExact
<1>5. CASE ReconcileStatefulSet /\ ~Fail
  <2>1. PICK content : Write("StatefulSet", [owner |-> work.uid, content |-> content])
    BY <1>5, StatefulSetUpdate
  <2>2. kind = "StatefulSet" /\ children'[kind].owner = work.uid
    BY <2>1, ChildWritten DEF Write, Kinds
  <2>3. pc # "idle" /\ children[kind].owner = work.uid
    BY <1>5, <2>2, StatefulSetUpdate DEF CurrentCopiesAreExact, Kinds
  <2>4. work.uid # Stranger
    BY <2>3 DEF TypeOK, Stranger
  <2> QED BY <2>2, <2>3, <2>4 DEF ClustersAreLive
<1> QED BY <1>1, <1>2, <1>3, <1>4, <1>5 DEF ReconcileStep

\* The children that a step of anybody but Reconcile changes.
LEMMA OthersWrite ==
    ASSUME IInv, Next, ~ReconcileStep, NEW kind \in Kinds, children'[kind] # children[kind]
    PROVE  StrangerTakes(kind) \/ StrangerDeletes(kind) \/ CollectGarbage(kind)
<1> USE DEF IInv
<1>1. PICK writer \in Kinds :
          StrangerTakes(writer) \/ StrangerDeletes(writer) \/ CollectGarbage(writer)
  BY DEF Next, EditSpec, DeleteCluster, CreateCluster, SyncCr, SyncChild,
     ApiError, Crash, StatusWrite
<1>2. PICK child : Write(writer, child)
  BY <1>1 DEF StrangerTakes, StrangerDeletes, CollectGarbage
<1>3. writer = kind
  BY <1>2, ChildWritten DEF Write
<1> QED BY <1>1, <1>3

\* What another controller owns stays as it is until its owner deletes it.
THEOREM ForeignChildren == Spec => ForeignChildrenAreLeftAlone
<1> DEFINE LeftAlone ==
        \A kind \in Kinds :
            Exists(children[kind]) /\ children[kind].owner = Stranger
                => children'[kind] \in {children[kind], NoChild}
<1>1. IInv /\ [Next]_vars => LeftAlone
  <2> SUFFICES ASSUME IInv, [Next]_vars, NEW kind \in Kinds,
                      Exists(children[kind]), children[kind].owner = Stranger,
                      children'[kind] # children[kind]
               PROVE  children'[kind] = NoChild
    OBVIOUS
  <2>1. Next
    BY DEF vars
  <2>2. ~ReconcileStep
    BY ReconcileWritesItsOwn
  <2>3. StrangerTakes(kind) \/ StrangerDeletes(kind) \/ CollectGarbage(kind)
    BY <2>1, <2>2, OthersWrite
  <2>4. StrangerDeletes(kind)
    BY <2>3 DEF StrangerTakes, CollectGarbage, Stranger, Nobody
  <2> QED
    BY <2>4, ChildWritten DEF StrangerDeletes, Write, IInv
<1> QED
  BY <1>1, ChildrenInvariant, PTL DEF Spec, ForeignChildrenAreLeftAlone

\* Reconcile writes children for no other KeyDBCluster than the one that is there.
THEOREM ChildrenOfTheLiveCluster == Spec => ChildrenAreBuiltForTheLiveCluster
<1> DEFINE Live ==
        \A kind \in Kinds :
            children'[kind] # children[kind] /\ children'[kind].owner > 0
                => children'[kind].owner = cr.uid
<1>1. IInv /\ [Next]_vars => Live
  <2> SUFFICES ASSUME IInv, [Next]_vars, NEW kind \in Kinds,
                      children'[kind] # children[kind], children'[kind].owner > 0
               PROVE  children'[kind].owner = cr.uid
    OBVIOUS
  <2>1. Next
    BY DEF vars
  <2>2. CASE ReconcileStep
    BY <2>2, ReconcileWritesItsOwn DEF IsLive
  <2>3. CASE ~ReconcileStep
    <3>1. StrangerTakes(kind) \/ StrangerDeletes(kind) \/ CollectGarbage(kind)
      BY <2>1, <2>3, OthersWrite
    <3>2. children'[kind].owner \in {Stranger, Nobody}
      BY <3>1, ChildWritten
      DEF StrangerTakes, StrangerDeletes, CollectGarbage, Write, IInv, Shapes, IsChild, NoChild
    <3> QED
      BY <3>2 DEF Stranger, Nobody
  <2> QED
    BY <2>2, <2>3
<1> QED
  BY <1>1, ChildrenInvariant, PTL DEF Spec, ChildrenAreBuiltForTheLiveCluster

-----------------------------------------------------------------------------
\* The operator implements Ownership.

\* What another controller owns is there: only then does it take it.
WhatStrangersOwnExists ==
    \A kind \in Kinds : children[kind].owner = Stranger => Exists(children[kind])

LEMMA StrangersTakeWhatExists ==
    ASSUME IInv, WhatStrangersOwnExists, [Next]_vars PROVE WhatStrangersOwnExists'
<1> SUFFICES ASSUME NEW kind \in Kinds, children'[kind] # children[kind],
                    children'[kind].owner = Stranger
             PROVE  Exists(children'[kind])
  BY DEF WhatStrangersOwnExists
<1>1. Next
  BY DEF vars
<1>2. ~ReconcileStep
  <2> SUFFICES ASSUME ReconcileStep PROVE FALSE
    OBVIOUS
  <2>1. work.uid = Stranger
    BY ReconcileWritesItsOwn
  <2> QED BY <2>1 DEF IInv, TypeOK, NoCluster, Stranger
<1>3. StrangerTakes(kind) \/ StrangerDeletes(kind) \/ CollectGarbage(kind)
  BY <1>1, <1>2, OthersWrite
<1>4. StrangerTakes(kind)
  BY <1>3, ChildWritten
  DEF StrangerDeletes, CollectGarbage, Write, IInv, NoChild, Nobody, Stranger
<1>5. children'[kind] = [children[kind] EXCEPT !.owner = Stranger] /\ IsChild(children[kind])
  BY <1>4, ChildWritten DEF StrangerTakes, Write, IInv, Shapes
<1> QED BY <1>4, <1>5 DEF StrangerTakes, Exists, IsChild

\* Reconcile writes one child at a time, and with it neither creates nor deletes a
\* KeyDBCluster.
LEMMA ReconcileWritesOneChild ==
    ASSUME IInv, ReconcileStep, children' # children
    PROVE  /\ UNCHANGED <<cr, born>>
           /\ \E kind \in Kinds : \E child : children' = [children EXCEPT ![kind] = child]
<1> USE DEF IInv
<1>1. ~Fail
  BY DEF Fail
<1>2. CASE Create \/ ReconcileConfigMap
  <2>1. pc \in Kinds
    BY <1>2 DEF Create, ReconcileConfigMap, Kinds
  <2>2. PICK content : Write(pc, [owner |-> work.uid, content |-> content]) /\ Proceed
    BY <1>1, <1>2 DEF Create, ReconcileConfigMap
  <2> QED BY <2>1, <2>2 DEF Write, Proceed, budgetVars
<1>3. CASE AdoptStatefulSet
  BY <1>1, <1>3 DEF AdoptStatefulSet, Kinds, budgetVars
<1>4. CASE ReconcileStatefulSet
  <2>1. PICK content : Write("StatefulSet", [owner |-> work.uid, content |-> content])
    BY <1>1, <1>4, StatefulSetUpdate
  <2>2. Return
    BY <1>1, <1>4, StatefulSetUpdate
  <2> QED BY <2>1, <2>2 DEF Write, Return, Kinds, budgetVars
<1> QED
  BY <1>1, <1>2, <1>3, <1>4
  DEF ReconcileStep, HandleDeletion, AddFinalizer, StartReconcile, NewStatefulSetPanics,
      PassBy, IsAlreadyOwned

Owners == [kind \in Kinds |-> children[kind].owner]

LEMMA OwnerWritten ==
    ASSUME Shapes, NEW kind \in Kinds, NEW child, children' = [children EXCEPT ![kind] = child]
    PROVE  Owners' = [Owners EXCEPT ![kind] = child.owner]
<1>1. /\ children'[kind] = child
      /\ \A other \in Kinds \ {kind} : children'[other] = children[other]
  BY ChildWritten
<1>2. Owners' = [other \in Kinds |-> IF other = kind THEN child.owner ELSE children[other].owner]
  BY <1>1 DEF Owners
<1> QED BY <1>2 DEF Owners

LEMMA InitialOwnership == Init => Ownership!Init
<1> SUFFICES ASSUME Init PROVE Ownership!Init
  OBVIOUS
<1>1. \A kind \in Kinds : children[kind].owner = Nobody
  BY InitialChildrenAreNobodys DEF Init
<1> QED BY <1>1 DEF Init, Ownership!Init, Nobody, Ownership!Nobody

\* Steps that take no child and leave the KeyDBCluster its uid.
LEMMA NothingOfOwnershipChanges ==
    ASSUME UNCHANGED <<children, cr.uid, born>> PROVE UNCHANGED Ownership!vars
BY DEF Ownership!vars

\* The KeyDBCluster comes and goes.
LEMMA ClustersComeAndGo ==
    ASSUME IInv, UNCHANGED children,
           \/ EditSpec \/ DeleteCluster \/ CreateCluster
           \/ ReconcileStep
    PROVE  [Ownership!Next]_Ownership!vars
<1> USE DEF IInv
<1>1. CASE CreateCluster
  BY <1>1 DEF CreateCluster, NoCluster, Ownership!Next, Ownership!Appear
<1>2. CASE (DeleteCluster \/ HandleDeletion) /\ cr' = NoCluster
  <2>1. cr # NoCluster
    BY <1>2 DEF DeleteCluster, HandleDeletion, CurrentCopiesAreExact, NoCluster
  <2>2. cr.uid # 0 /\ cr'.uid = 0
    BY <1>2, <2>1 DEF TypeOK, NoCluster
  <2> QED
    BY <1>2, <2>2 DEF DeleteCluster, HandleDeletion, budgetVars, Ownership!Next,
        Ownership!Disappear
<1>3. CASE ~CreateCluster /\ ~((DeleteCluster \/ HandleDeletion) /\ cr' = NoCluster)
  <2>1. UNCHANGED <<cr.uid, born>>
    BY <1>3
    DEF EditSpec, DeleteCluster, ReconcileStep, HandleDeletion, AddFinalizer, StartReconcile,
        NewStatefulSetPanics, Create, PassBy, IsAlreadyOwned, ReconcileConfigMap,
        AdoptStatefulSet, ReconcileStatefulSet, UpdateStatefulSet, Fail, Proceed, Return,
        CurrentCopiesAreExact, Shapes, IsCluster, budgetVars
  <2> QED BY <2>1, NothingOfOwnershipChanges
<1> QED BY <1>1, <1>2, <1>3

\* Reconcile takes what is nobody's, or an earlier KeyDBCluster's.
LEMMA ReconcileAcquires ==
    ASSUME IInv, WhatStrangersOwnExists, ReconcileStep, children' # children
    PROVE  [Ownership!Next]_Ownership!vars
<1> USE DEF IInv
<1>1. PICK kind \in Kinds : \E child : children' = [children EXCEPT ![kind] = child]
  BY ReconcileWritesOneChild
<1>2. PICK child : children' = [children EXCEPT ![kind] = child]
  BY <1>1
<1>3. UNCHANGED <<cr, born>>
  BY ReconcileWritesOneChild
<1>4. /\ children'[kind] = child
      /\ children'[kind] # children[kind]
  BY <1>2, ChildWritten DEF Shapes
<1>5. child.owner = cr.uid /\ cr.uid # 0 /\ children[kind].owner # Stranger
  BY <1>4, ReconcileWritesItsOwn DEF IsLive, WhatStrangersOwnExists, TypeOK, NoCluster
<1>6. Owners' = [Owners EXCEPT ![kind] = cr.uid]
  BY <1>2, <1>5, OwnerWritten
<1>7. CASE children[kind].owner = cr.uid
  <2>1. Owners' = Owners
    BY <1>6, <1>7 DEF Owners
  <2> QED BY <1>3, <2>1 DEF Ownership!vars, Owners
<1>8. CASE children[kind].owner # cr.uid
  BY <1>3, <1>5, <1>6, <1>8
  DEF Ownership!Next, Ownership!Acquire, Ownership!Goes, Owners, Stranger, Ownership!Stranger
<1> QED BY <1>7, <1>8

LEMMA OthersTakeAndDelete ==
    ASSUME IInv, NEW kind \in Kinds,
           StrangerTakes(kind) \/ StrangerDeletes(kind) \/ CollectGarbage(kind)
    PROVE  Ownership!Next
<1> USE DEF IInv
<1>1. UNCHANGED <<cr, born>>
  BY DEF StrangerTakes, StrangerDeletes, CollectGarbage, NotByTheOperator, budgetVars
<1>2. cr.uid # Stranger
  BY DEF TypeOK, NoCluster, Stranger
<1>3. CASE StrangerTakes(kind)
  <2>1. Owners' = [Owners EXCEPT ![kind] = Stranger]
    BY <1>3, OwnerWritten DEF StrangerTakes, Write, Shapes, IsChild
  <2> QED
    BY <1>1, <1>3, <2>1
    DEF StrangerTakes, Ownership!Next, Ownership!Take, Ownership!Goes, Owners,
        Stranger, Ownership!Stranger, Nobody, Ownership!Nobody
<1>4. CASE StrangerDeletes(kind) \/ CollectGarbage(kind)
  <2>0. NoChild.owner = Nobody
    BY DEF NoChild
  <2>1. Owners' = [Owners EXCEPT ![kind] = Nobody]
    BY <1>4, <2>0, OwnerWritten DEF StrangerDeletes, CollectGarbage, Write
  <2>2. children[kind].owner \notin {Nobody, cr.uid}
    BY <1>2, <1>4 DEF StrangerDeletes, CollectGarbage, Stranger, Nobody
  <2> QED
    BY <1>1, <2>1, <2>2
    DEF Ownership!Next, Ownership!Delete, Ownership!Goes, Owners, Nobody, Ownership!Nobody
<1> QED BY <1>3, <1>4

LEMMA StepsAreOwnership ==
    IInv /\ WhatStrangersOwnExists /\ [Next]_vars => [Ownership!Next]_Ownership!vars
<1> SUFFICES ASSUME IInv, WhatStrangersOwnExists, [Next]_vars
             PROVE  [Ownership!Next]_Ownership!vars
  OBVIOUS
<1>1. CASE EditSpec \/ DeleteCluster \/ CreateCluster
  BY <1>1, ClustersComeAndGo DEF EditSpec, DeleteCluster, CreateCluster
<1>2. CASE ReconcileStep
  BY <1>2, ClustersComeAndGo, ReconcileAcquires
<1>3. CASE \E kind \in Kinds :
               StrangerTakes(kind) \/ StrangerDeletes(kind) \/ CollectGarbage(kind)
  BY <1>3, OthersTakeAndDelete
<1>4. CASE \/ SyncCr \/ \E kind \in Kinds : SyncChild(kind)
           \/ ApiError \/ Crash \/ StatusWrite \/ UNCHANGED vars
  <2>1. UNCHANGED <<children, cr.uid, born>>
    BY <1>4 DEF SyncCr, SyncChild, ApiError, Crash, StatusWrite, vars, budgetVars
  <2> QED BY <2>1, NothingOfOwnershipChanges
<1> QED BY <1>1, <1>2, <1>3, <1>4 DEF Next

\* Whose each child is goes by Ownership: Reconcile takes for its KeyDBCluster what
\* is nobody's or an earlier one's and, across caches that lag, deletions,
\* incarnations and crashes, nobody takes from the KeyDBCluster what it has.
THEOREM OwnershipIsImplemented == Spec => ImplementsOwnership
<1>1. Init => WhatStrangersOwnExists
  BY InitialChildrenAreNobodys DEF Init, WhatStrangersOwnExists, Nobody, Stranger
<1>2. IInv /\ WhatStrangersOwnExists /\ [Next]_vars => WhatStrangersOwnExists'
  BY StrangersTakeWhatExists
<1> QED
  BY <1>1, <1>2, InitialOwnership, StepsAreOwnership, ChildrenInvariant, PTL
  DEF Spec, ImplementsOwnership, Ownership!Spec
=============================================================================
