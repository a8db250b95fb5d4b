------------------------------- MODULE Children -------------------------------
(***************************************************************************)
(* The children of a KeyDBCluster: how Reconcile creates, adopts and       *)
(* updates its ConfigMap, Services, PodDisruptionBudget and StatefulSet    *)
(* (controllers/keydbcluster_controller.go), against a user who edits,     *)
(* deletes and re-creates the KeyDBCluster under the same name, objects    *)
(* that are already there, other controllers, lagging caches, the garbage  *)
(* collector, failing calls and crashes.                                   *)
(*                                                                         *)
(* As in ApiServer, the copies that carry the live resourceVersion are     *)
(* kept as a set.  A read of the cache is in the action of the write that  *)
(* follows it.  What comes after the StatefulSet, the upgrade and the      *)
(* status, is in Reconciler.                                               *)
(***************************************************************************)
EXTENDS Resources

CONSTANTS
    Specs,          \* the specs that the user may create a KeyDBCluster with
    EditedSpecs,    \* those he may change it to
    Leftovers,      \* the children that may be there from the start
    MaxEdits,       \* bound on the edits of the spec
    MaxIncarnations,\* bound on the KeyDBClusters created under the one name
    MaxFaults       \* bound on failed calls, crashes, status writes and leftovers

ASSUME ChildrenAssumption ==
    /\ Specs \cup EditedSpecs \subseteq KeyDBClusterSpecs
    /\ Leftovers \subseteq [kind : Kinds, spec : KeyDBClusterSpecs]
    /\ {MaxEdits, MaxIncarnations, MaxFaults} \subseteq Nat

\* A child with nothing in it is a child.
ASSUME ContentAssumption ==
    \A spec \in {setDefaults(s) : s \in Specs \cup EditedSpecs} :
        ValidateKeyDBCluster(spec) =>
            \A kind \in Kinds : \A content \in Generated(kind, spec) :
                AsStored(kind, content) # Nil

VARIABLES
    cr,         \* the KeyDBCluster at the API server
    children,   \* the child of each kind at the API server
    crCache,    \* the operator's cached copies of them
    cache,
    current,    \* the copies that carry the live resourceVersion
    pc,         \* what Reconcile does next: the kind it has got to
    work,       \* keydbCluster, the object that Reconcile passes around
    found,      \* the StatefulSet that reconcileStatefulSet has just adopted
    born,       \* how many KeyDBClusters there have been
    edits,
    faults

workerVars == <<pc, work, found>>
budgetVars == <<born, edits, faults>>
vars == <<cr, children, crCache, cache, current, workerVars, budgetVars>>

\* metadata.uid (KeyDBClusters are numbered), spec, and the finalizer and the
\* deletion timestamp as in ApiServer.
NoCluster == [uid |-> 0, spec |-> Nil, life |-> "gone"]

\* The controller reference of a child: the uid of a KeyDBCluster, or one of
Nobody == 0
Stranger == -1

NoChild == [owner |-> Nobody, content |-> Nil]

Exists(child) == child.content # Nil

Copies == Kinds \cup {"cr", "found"}

\* A child that is there from the start, one at most, was made by hand or
\* belonged to a cluster that was deleted with --cascade=orphan.  It counts as one
\* of the faults.
InitChildren ==
    \/ /\ children = [kind \in Kinds |-> NoChild]
       /\ faults = 0
    \/ \E left \in Leftovers :
           \E content \in Generated(left.kind, left.spec) :
               /\ children = [[kind \in Kinds |-> NoChild] EXCEPT
                                 ![left.kind] = [owner |-> Nobody,
                                                 content |-> AsStored(left.kind, content)]]
               /\ faults = 1

Init ==
    /\ \E spec \in Specs : cr = [uid |-> 1, spec |-> spec, life |-> "new"]
    /\ InitChildren
    /\ crCache = NoCluster
    /\ cache = children
    /\ current = Kinds
    /\ pc = "idle"
    /\ work = NoCluster
    /\ found = NoChild
    /\ born = 1
    /\ edits = 0

-----------------------------------------------------------------------------
\* The user, the other controllers, the garbage collector and the informers.

EditSpec ==
    /\ cr.life # "gone"
    /\ edits < MaxEdits
    /\ \E spec \in EditedSpecs \ {cr.spec} : cr' = [cr EXCEPT !.spec = spec]
    /\ edits' = edits + 1
    /\ current' = current \ {"cr"}
    /\ UNCHANGED <<children, crCache, cache, workerVars, born, faults>>

DeleteCluster ==
    /\ cr.life \in {"new", "managed"}
    /\ cr' = IF cr.life = "new" THEN NoCluster ELSE [cr EXCEPT !.life = "deleting"]
    /\ current' = current \ {"cr"}
    /\ UNCHANGED <<children, crCache, cache, workerVars, budgetVars>>

CreateCluster ==
    /\ cr = NoCluster
    /\ born < MaxIncarnations
    /\ born' = born + 1
    /\ \E spec \in Specs : cr' = [uid |-> born', spec |-> spec, life |-> "new"]
    /\ current' = current \ {"cr"}
    /\ UNCHANGED <<children, crCache, cache, workerVars, edits, faults>>

\* A write of a child, whose other copies are then no longer current.  A write that
\* changes nothing leaves the resourceVersion alone; the adopted copy goes anyway.
Write(kind, child) ==
    /\ children' = [children EXCEPT ![kind] = child]
    /\ current' = current \ ((IF child = children[kind] THEN {} ELSE {kind})
                                 \cup (IF kind = "StatefulSet" THEN {"found"} ELSE {}))

NotByTheOperator == UNCHANGED <<cr, crCache, cache, workerVars, budgetVars>>

\* Another controller adopts a child that is nobody's, and may delete it.
StrangerTakes(kind) ==
    /\ Exists(children[kind]) /\ children[kind].owner = Nobody
    /\ Write(kind, [children[kind] EXCEPT !.owner = Stranger])
    /\ NotByTheOperator

StrangerDeletes(kind) ==
    /\ Exists(children[kind]) /\ children[kind].owner = Stranger
    /\ Write(kind, NoChild)
    /\ NotByTheOperator

\* The owner reference names an uid that is not there any more.
CollectGarbage(kind) ==
    /\ children[kind].owner > 0
    /\ children[kind].owner # cr.uid
    /\ Write(kind, NoChild)
    /\ NotByTheOperator

SyncCr ==
    /\ "cr" \notin current
    /\ crCache' = cr
    /\ current' = current \cup {"cr"}
    /\ UNCHANGED <<cr, children, cache, workerVars, budgetVars>>

SyncChild(kind) ==
    /\ kind \notin current
    /\ cache' = [cache EXCEPT ![kind] = children[kind]]
    /\ current' = current \cup {kind}
    /\ UNCHANGED <<cr, children, crCache, workerVars, budgetVars>>

-----------------------------------------------------------------------------
\* Reconcile, up to the children.  A refused update changes nothing.

HandleDeletion ==
    /\ pc = "idle"
    /\ crCache.life = "deleting"
    /\ "cr" \in current
    /\ cr' = NoCluster
    /\ current' = current \ {"cr"}
    /\ UNCHANGED <<children, crCache, cache, workerVars, budgetVars>>

AddFinalizer ==
    /\ pc = "idle"
    /\ crCache.life = "new"
    /\ "cr" \in current
    /\ cr' = [crCache EXCEPT !.life = "managed"]
    /\ current' = current \ {"cr"}
    /\ UNCHANGED <<children, crCache, cache, workerVars, budgetVars>>

\* Mutant: the children are made before the finalizer is there.
StartReconcileWithoutFinalizer ==
    /\ pc = "idle"
    /\ crCache.life \in {"new", "managed"}
    /\ ValidateKeyDBCluster(setDefaults(crCache.spec))
    /\ work' = [crCache EXCEPT !.spec = setDefaults(@)]
    /\ pc' = "ConfigMap"
    /\ UNCHANGED <<cr, children, crCache, cache, current, found, budgetVars>>

\* With an invalid spec Reconcile ends here.
StartReconcile ==
    /\ pc = "idle"
    /\ crCache.life = "managed"
    /\ ValidateKeyDBCluster(setDefaults(crCache.spec))
    /\ work' = [crCache EXCEPT !.spec = setDefaults(@)]
    /\ pc' = "ConfigMap"
    /\ UNCHANGED <<cr, children, crCache, cache, current, found, budgetVars>>

-----------------------------------------------------------------------------
\* The children, in the order in which Reconcile takes them.

\* Mutant: the adopted StatefulSet is kept for the next time.
ReturnWithTheCopy ==
    /\ pc' = "idle"
    /\ work' = NoCluster
    /\ UNCHANGED <<cr, crCache, cache, found, budgetVars>>

\* Reconcile returns, with or without an error.
Return ==
    /\ pc' = "idle"
    /\ work' = NoCluster
    /\ found' = NoChild
    /\ UNCHANGED <<cr, crCache, cache, budgetVars>>

\* Reconcile returns before it has written anything more.
Fail == Return /\ current' = current \ {"found"} /\ UNCHANGED children

\* Mutant: the Services come last.
AfterWithServicesLast(kind) ==
    CASE kind = "ConfigMap" -> "PodDisruptionBudget"
      [] kind = "PodDisruptionBudget" -> "StatefulSet"
      [] kind = "StatefulSet" -> "HeadlessService"
      [] kind = "HeadlessService" -> "ClientService"
      [] kind = "ClientService" -> "idle"

After(kind) ==
    CASE kind = "ConfigMap" -> "HeadlessService"
      [] kind = "HeadlessService" -> "ClientService"
      [] kind = "ClientService" -> "PodDisruptionBudget"
      [] kind = "PodDisruptionBudget" -> "StatefulSet"
      [] kind = "StatefulSet" -> "idle"

\* On to the next kind, or to the end.
Proceed ==
    /\ pc' = After(pc)
    /\ work' = IF pc = "StatefulSet" THEN NoCluster ELSE work
    /\ UNCHANGED <<cr, crCache, cache, found, budgetVars>>

\* NewStatefulSet panics on a size that is no quantity; the panic is recovered,
\* and Reconcile returns an error.
CanGenerate == pc = "StatefulSet" => work.spec.storage.size \in Quantities

NewStatefulSetPanics ==
    /\ pc = "StatefulSet"
    /\ ~CanGenerate
    /\ Fail

\* The cache does not have the child.
Create ==
    /\ pc \in Kinds
    /\ CanGenerate
    /\ ~Exists(cache[pc])
    /\ \E content \in Generated(pc, work.spec) :
        \/ /\ ~Exists(children[pc])
           /\ IsAdmitted(pc, content)
           /\ Write(pc, [owner |-> work.uid, content |-> AsStored(pc, content)])
           /\ Proceed
        \/ /\ Exists(children[pc]) \/ ~IsAdmitted(pc, content)
           /\ Fail

\* Services and budgets that exist are left as they are; no budget is made when
\* the spec has none.
PassBy ==
    /\ pc \in {"HeadlessService", "ClientService", "PodDisruptionBudget"}
    /\ Exists(cache[pc]) \/ Generated(pc, work.spec) = {}
    /\ Proceed
    /\ UNCHANGED <<children, current>>

\* SetControllerReference refuses an object that another controller owns.  It
\* compares group, kind and name: an earlier KeyDBCluster is no other.
IsAlreadyOwned ==
    /\ pc \in {"ConfigMap", "StatefulSet"}
    /\ CanGenerate
    /\ cache[pc].owner = Stranger
    /\ Fail

\* Mutant: the update carries no resourceVersion.
ReconcileConfigMapUnconditionally ==
    /\ pc = "ConfigMap"
    /\ Exists(cache[pc]) /\ cache[pc].owner # Stranger
    /\ \E content \in NewConfigMap(work.spec) :
        \/ /\ cache[pc].content = content
           /\ Proceed
           /\ UNCHANGED <<children, current>>
        \/ /\ cache[pc].content # content
           /\ Exists(children[pc])
           /\ Write(pc, [owner |-> work.uid, content |-> content])
           /\ Proceed
        \/ /\ cache[pc].content # content
           /\ ~Exists(children[pc])
           /\ Fail

\* A ConfigMap that is nobody's, or an earlier KeyDBCluster's, is adopted by the
\* update of its data only.
ReconcileConfigMap ==
    /\ pc = "ConfigMap"
    /\ Exists(cache[pc]) /\ cache[pc].owner # Stranger
    /\ \E content \in NewConfigMap(work.spec) :
        \/ /\ cache[pc].content = content
           /\ Proceed
           /\ UNCHANGED <<children, current>>
        \/ /\ cache[pc].content # content
           /\ pc \in current
           /\ Write(pc, [owner |-> work.uid, content |-> content])
           /\ Proceed
        \/ /\ cache[pc].content # content
           /\ pc \notin current
           /\ Fail

\* Mutant: the owner reference is set without a look at who is there.
AdoptAnyStatefulSet ==
    /\ pc = "StatefulSet"
    /\ CanGenerate
    /\ Exists(cache[pc])
    /\ cache[pc].owner # work.uid
    /\ \/ /\ pc \in current
          /\ found' = [cache[pc] EXCEPT !.owner = work.uid]
          /\ children' = [children EXCEPT ![pc] = found']
          /\ current' = (current \ {pc}) \cup {"found"}
          /\ pc' = "updateStatefulSet"
          /\ UNCHANGED <<cr, crCache, cache, work, budgetVars>>
       \/ pc \notin current /\ Fail

\* An update of the owner reference alone.
AdoptStatefulSet ==
    /\ pc = "StatefulSet"
    /\ CanGenerate
    /\ Exists(cache[pc])
    /\ cache[pc].owner \notin {Stranger, work.uid}
    /\ \/ /\ pc \in current
          /\ found' = [cache[pc] EXCEPT !.owner = work.uid]
          /\ children' = [children EXCEPT ![pc] = found']
          /\ current' = (current \ {pc}) \cup {"found"}
          /\ pc' = "updateStatefulSet"
          /\ UNCHANGED <<cr, crCache, cache, work, budgetVars>>
       \/ pc \notin current /\ Fail

resourcesEqual(a, b) == a.cpu = b.cpu /\ a.memory = b.memory

\* The five numbers and the command (the generated probes have no other handler).
probesEqual(a, b) ==
    IF Nil \in {a, b} THEN a = b ELSE a.timings = b.timings /\ a.command = b.command

\* The command of the post-start hook.
lifecycleEqual(a, b) == IF Nil \in {a, b} THEN a = b ELSE a.connects = b.connects

\* Mutant: the labels, which are never set, are compared too.
needsUpdateForLabels(sts, desired) ==
    \/ sts.replicas # desired.replicas
    \/ sts.image # desired.image
    \/ sts.labels # desired.labels
    \/ ~resourcesEqual(sts.resources, desired.resources)
    \/ ~probesEqual(sts.readiness, desired.readiness)
    \/ ~probesEqual(sts.liveness, desired.liveness)
    \/ ~lifecycleEqual(sts.postStart, desired.postStart)

\* What reconcileStatefulSet compares ...
needsUpdate(sts, desired) ==
    \/ sts.replicas # desired.replicas
    \/ sts.image # desired.image
    \/ ~resourcesEqual(sts.resources, desired.resources)
    \/ ~probesEqual(sts.readiness, desired.readiness)
    \/ ~probesEqual(sts.liveness, desired.liveness)
    \/ ~lifecycleEqual(sts.postStart, desired.postStart)

\* Mutant: the lifecycle hook is not set.
UpdatedWithoutLifecycle(sts, desired) ==
    [sts EXCEPT
        !.replicas = desired.replicas,
        !.image = desired.image,
        !.resources = IF resourcesEqual(@, desired.resources) THEN @ ELSE desired.resources,
        !.readiness = IF probesEqual(@, desired.readiness) THEN @ ELSE desired.readiness,
        !.liveness = IF probesEqual(@, desired.liveness) THEN @ ELSE desired.liveness]

\* ... and sets where it differs.
Updated(sts, desired) ==
    [sts EXCEPT
        !.replicas = desired.replicas,
        !.image = desired.image,
        !.resources = IF resourcesEqual(@, desired.resources) THEN @ ELSE desired.resources,
        !.readiness = IF probesEqual(@, desired.readiness) THEN @ ELSE desired.readiness,
        !.liveness = IF probesEqual(@, desired.liveness) THEN @ ELSE desired.liveness,
        !.postStart = IF lifecycleEqual(@, desired.postStart) THEN @ ELSE desired.postStart]

\* The update of a copy, which is the cached one or the one just adopted.
UpdateStatefulSet(copy, isCurrent) ==
    \E desired \in Generated("StatefulSet", work.spec) :
        \/ ~needsUpdate(copy.content, desired) /\ Fail
        \/ /\ needsUpdate(copy.content, desired)
           /\ isCurrent
           /\ LET updated == AsStored("StatefulSet", Updated(copy.content, desired))
              IN  Write("StatefulSet", [copy EXCEPT !.content = updated])
           /\ Return
        \/ needsUpdate(copy.content, desired) /\ ~isCurrent /\ Fail

ReconcileStatefulSet ==
    \/ /\ pc = "StatefulSet"
       /\ CanGenerate
       /\ Exists(cache[pc]) /\ cache[pc].owner = work.uid
       /\ UpdateStatefulSet(cache[pc], pc \in current)
    \/ /\ pc = "updateStatefulSet"
       /\ UpdateStatefulSet(found, "found" \in current)

ReconcileStep ==
    \/ HandleDeletion
    \/ AddFinalizer
    \/ StartReconcile
    \/ NewStatefulSetPanics
    \/ Create
    \/ PassBy
    \/ IsAlreadyOwned
    \/ ReconcileConfigMap
    \/ AdoptStatefulSet
    \/ ReconcileStatefulSet

-----------------------------------------------------------------------------
\* Faults.

Fault == faults < MaxFaults /\ faults' = faults + 1

\* A call fails: Reconcile returns its error.
ApiError ==
    /\ Fault
    /\ pc # "idle"
    /\ pc' = "idle"
    /\ work' = NoCluster
    /\ found' = NoChild
    /\ current' = current \ {"found"}
    /\ UNCHANGED <<cr, children, crCache, cache, born, edits>>

\* The next operator lists everything anew.
Crash ==
    /\ Fault
    /\ pc # "idle"
    /\ pc' = "idle"
    /\ work' = NoCluster
    /\ found' = NoChild
    /\ crCache' = cr
    /\ cache' = children
    /\ current' = Kinds \cup {"cr"}
    /\ UNCHANGED <<cr, children, born, edits>>

\* The status of the StatefulSet or of the KeyDBCluster is written: nothing of
\* it is here, but the copies are no longer current.
StatusWrite ==
    /\ Fault
    /\ \/ /\ Exists(children["StatefulSet"])
          /\ current' = current \ {"StatefulSet", "found"}
       \/ /\ cr.life # "gone"
          /\ current' = current \ {"cr"}
    /\ UNCHANGED <<cr, children, crCache, cache, workerVars, born, edits>>

Next ==
    \/ EditSpec
    \/ DeleteCluster
    \/ CreateCluster
    \/ \E kind \in Kinds :
           \/ StrangerTakes(kind)
           \/ StrangerDeletes(kind)
           \/ CollectGarbage(kind)
           \/ SyncChild(kind)
    \/ SyncCr
    \/ ReconcileStep
    \/ ApiError
    \/ Crash
    \/ StatusWrite

Spec == Init /\ [][Next]_vars

\* The informers, the garbage collector and the worker go on, as in Reconciler.
Fairness ==
    /\ WF_vars(ReconcileStep)
    /\ WF_vars(SyncCr)
    /\ \A kind \in Kinds : WF_vars(SyncChild(kind)) /\ WF_vars(CollectGarbage(kind))

FairSpec == Spec /\ Fairness

-----------------------------------------------------------------------------
\* The type invariant: the worker has something in its hands only on the way.
TypeOK ==
    /\ \A object \in {cr, crCache} :
           \/ object = NoCluster
           \/ /\ object.uid \in 1 .. born
              /\ object.spec \in Specs \cup EditedSpecs
              /\ object.life \in {"new", "managed", "deleting"}
    /\ DOMAIN children = Kinds /\ DOMAIN cache = Kinds
    /\ \A kind \in Kinds : {children[kind].owner, cache[kind].owner} \subseteq -1 .. born
    /\ current \subseteq Copies
    /\ pc \in Kinds \cup {"idle", "updateStatefulSet"}
    /\ IF pc = "idle" THEN work = NoCluster
       ELSE work.uid \in 1 .. born /\ ValidateKeyDBCluster(work.spec)
    /\ found # NoChild => pc = "updateStatefulSet"
    /\ {born, edits, faults} \subseteq Nat

\* What another controller owns is left alone, even when it has only just been
\* adopted and the caches do not know (reconcileConfigMap, reconcileStatefulSet):
\* only its owner ever deletes it.
ForeignChildrenAreLeftAlone ==
    [][\A kind \in Kinds :
           Exists(children[kind]) /\ children[kind].owner = Stranger
               => children'[kind] \in {children[kind], NoChild}]_vars

\* Whatever is created, adopted or updated for a KeyDBCluster, it is while that
\* very KeyDBCluster is there, and not when another one has its name already
\* (AddFinalizer and handleDeletion, with one worker).
ChildrenAreBuiltForTheLiveCluster ==
    [][\A kind \in Kinds :
           children'[kind] # children[kind] /\ children'[kind].owner > 0
               => children'[kind].owner = cr.uid]_vars

\* Whose each child is: what the operator promises to the user, to KeyDBClusters
\* of the same name and to other controllers.
Ownership == INSTANCE Ownership WITH
    live <- cr.uid,
    owner <- [kind \in Kinds |-> children[kind].owner]

ImplementsOwnership == Ownership!Spec

\* The pods of the first KeyDBCluster of its name find the ConfigMap they mount
\* and the Service that names them, as soon as there is a StatefulSet (the order
\* of the calls in Reconcile).
PodsFindWhatTheyNeed ==
    cr.life \in {"new", "managed"} /\ Exists(children["StatefulSet"]) =>
        Exists(children["ConfigMap"]) /\ Exists(children["HeadlessService"])

\* What configmap.go, service.go and statefulset.go generate from one spec fits
\* together: the client Service leads to every port of the pods but the cluster
\* bus, and to no other, the headless Service to no other either; KeyDB listens for
\* TLS where the pods have a port for it, the certificates keydb.conf names are
\* mounted, and the pods connect to as many masters as there are replicas.  Of the
\* directives that TLS rests on none is reserved: what customConfig makes of them
\* is not looked at.
GeneratedChildrenFit ==
    LET spec == setDefaults(cr.spec)
        conf == Overlay(generateKeyDBConfig(spec))
        sts == NewStatefulSet(spec)
        exporterPorts == IF sts.exporter = Nil THEN {} ELSE {"metrics"}
    IN  cr.life # "gone" /\ ValidateKeyDBCluster(spec) =>
            /\ DOMAIN NewClientService(spec).ports
                   = (DOMAIN sts.ports \ {"cluster-bus"}) \cup exporterPorts
            /\ DOMAIN NewHeadlessService(spec).ports \subseteq DOMAIN sts.ports
            /\ NewClientService(spec).selector = sts.labels
            /\ NewHeadlessService(spec).selector = sts.labels
            /\ DOMAIN spec.config.customConfig \cap {"tls-port", "tls-cert-file"} = {} =>
                   /\ ("keydb-tls" \in DOMAIN sts.ports) = ("tls-port" \in DOMAIN conf)
                   /\ (sts.certs # Nil) = ("tls-cert-file" \in DOMAIN conf)
            /\ sts.postStart # Nil => sts.postStart.connects = sts.replicas

\* A spec that is valid, panics nowhere and is not refused by the API server.
IsBuildable(spec) ==
    /\ ValidateKeyDBCluster(spec)
    /\ spec.storage.size \in Quantities
    /\ IsAdmitted("ClientService", NewClientService(spec))

\* Every child is there, and has of the spec what Reconcile keeps up to date.
IsUpToDate(spec) ==
    /\ \A kind \in Kinds : Generated(kind, spec) # {} => Exists(children[kind])
    /\ \E content \in NewConfigMap(spec) : children["ConfigMap"].content.conf = content.conf
    /\ children["StatefulSet"].owner = cr.uid
    /\ LET sts == children["StatefulSet"].content
           desired == AsStored("StatefulSet", NewStatefulSet(spec))
       IN  /\ sts.replicas = desired.replicas /\ sts.image = desired.image
           /\ sts.liveness = desired.liveness /\ sts.readiness = desired.readiness
           /\ sts.postStart = desired.postStart
           /\ resourcesEqual(sts.resources, desired.resources)

\* Left alone, the children settle: nothing is left of clusters that are gone,
\* and a valid spec has its children, up to date, unless another controller has
\* the ConfigMap or the StatefulSet.
ChildrenSettle ==
    <>[] /\ \A kind \in Kinds : children[kind].owner \in {Nobody, Stranger, cr.uid}
         /\ cr.life \in {"gone", "managed"}
         /\ cr.life = "managed" /\ IsBuildable(setDefaults(cr.spec)) =>
                \/ Stranger \in {children["ConfigMap"].owner, children["StatefulSet"].owner}
                \/ IsUpToDate(setDefaults(cr.spec))

\* reconcileStatefulSet finds something to update, in the cached copy or in the one
\* it has just adopted.
UpdateIsDue ==
    LET copy == IF pc = "updateStatefulSet" THEN found ELSE cache["StatefulSet"]
    IN  /\ pc = "updateStatefulSet" \/ (pc = "StatefulSet" /\ CanGenerate)
        /\ Exists(copy) /\ copy.owner = work.uid
        /\ needsUpdate(copy.content, NewStatefulSet(work.spec))

\* A probe with a zero the API server has another number for.
HasAZero(sts) ==
    \E probe \in {sts.liveness, sts.readiness} : probe # Nil /\ probe.timings = 0

OnlyReordered(kind) ==
    /\ kind = "ConfigMap"
    /\ Exists(children[kind]) /\ Exists(children'[kind])
    /\ children'[kind].owner = children[kind].owner
    /\ children'[kind].content.conf = children[kind].content.conf

\* Left alone, Reconcile comes to rest: it goes on being called, but in the end no
\* child changes any more, except that the lines of customConfig may come in another
\* order each time, and reconcileStatefulSet finds nothing to update any more, unless
\* a probe has a zero (what it compares must be what its update sets, as the API
\* server keeps it).
ReconcileComesToRest ==
    /\ <>[][\A kind \in Kinds : children'[kind] # children[kind] => OnlyReordered(kind)]_vars
    /\ <>[](UpdateIsDue => HasAZero(NewStatefulSet(work.spec)))
=============================================================================
