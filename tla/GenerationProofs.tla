--------------------------- MODULE GenerationProofs ---------------------------
(***************************************************************************)
(* Proofs about what the children have in them and about the order they    *)
(* are made in, for every spec that the API server admits: what is         *)
(* generated from one spec fits together, and the pods of the first        *)
(* KeyDBCluster of its name find what they need.                           *)
(***************************************************************************)
EXTENDS ChildrenProofs

-----------------------------------------------------------------------------
\* Overlay has every key that one of the layers has.

LEMMA OverlayDomain ==
    ASSUME NEW layers
    PROVE  \A x : x \in DOMAIN Overlay(layers) <=>
                     \E i \in DOMAIN layers : x \in DOMAIN layers[i]
BY DEF Overlay

LEMMA TwoLayers ==
    ASSUME NEW a, NEW b
    PROVE  DOMAIN Overlay(<<a, b>>) = DOMAIN a \cup DOMAIN b
<1> DEFINE layers == <<a, b>>
<1>1. DOMAIN layers = 1 .. 2 /\ layers[1] = a /\ layers[2] = b
  OBVIOUS
<1> HIDE DEF layers
<1>2. DOMAIN Overlay(layers) = DOMAIN a \cup DOMAIN b
  BY <1>1, OverlayDomain
<1> QED BY <1>2 DEF layers

LEMMA ThreeLayers ==
    ASSUME NEW a, NEW b, NEW c
    PROVE  DOMAIN Overlay(<<a, b, c>>) = DOMAIN a \cup DOMAIN b \cup DOMAIN c
<1> DEFINE layers == <<a, b, c>>
<1>1. DOMAIN layers = 1 .. 3 /\ layers[1] = a /\ layers[2] = b /\ layers[3] = c
  OBVIOUS
<1> HIDE DEF layers
<1>2. DOMAIN Overlay(layers) = DOMAIN a \cup DOMAIN b \cup DOMAIN c
  BY <1>1, OverlayDomain
<1> QED BY <1>2 DEF layers

LEMMA NothingIsEmpty == DOMAIN Nothing = {}
BY DEF Nothing

-----------------------------------------------------------------------------
\* The spec with its defaults: what the children take from it has its type.

HasTypes(spec) ==
    /\ spec.mode \in Modes
    /\ spec.monitoring \in Optional(MonitoringConfigs)
    /\ spec.config.tls \in Optional(TLSConfigs)

LEMMA DefaultsKeepTypes ==
    ASSUME NEW s \in KeyDBClusterSpecs PROVE HasTypes(setDefaults(s))
<1>1. /\ setDefaults(s).mode = s.mode
      /\ setDefaults(s).monitoring = s.monitoring
      /\ setDefaults(s).config = IF s.config = Nil THEN NoConfig ELSE s.config
  BY DEF setDefaults, KeyDBClusterSpecs
<1>2. /\ s.mode \in Modes
      /\ s.monitoring \in Optional(MonitoringConfigs)
      /\ s.config = Nil \/ s.config \in KeyDBConfigs
  BY DEF KeyDBClusterSpecs, Optional
<1>3. NoConfig.tls \in Optional(TLSConfigs)
  BY DEF NoConfig, Optional
<1>4. \A config \in KeyDBConfigs : config.tls \in Optional(TLSConfigs)
  BY DEF KeyDBConfigs
<1> QED BY <1>1, <1>2, <1>3, <1>4 DEF HasTypes

-----------------------------------------------------------------------------
\* What configmap.go, service.go and statefulset.go make of one spec.

\* keydb.conf turns TLS on, and names the certificates, where the spec has TLS.
LEMMA ConfigLines ==
    ASSUME NEW spec,
           DOMAIN spec.config.customConfig \cap {"tls-port", "tls-cert-file"} = {}
    PROVE  /\ ("tls-port" \in DOMAIN Overlay(generateKeyDBConfig(spec))) = IsTLSEnabled(spec)
           /\ ("tls-cert-file" \in DOMAIN Overlay(generateKeyDBConfig(spec))) = IsTLSEnabled(spec)
<1> DEFINE layers ==
        <<spec.config.customConfig,
          [maxclients |-> "10000", timeout |-> "0"],
          [line \in {"tcp-keepalive"} |-> "300"],
          modeLines(spec),
          tlsLines(spec),
          authLines(spec),
          persistenceLines(spec),
          memoryLines(spec),
          [port |-> "6379", loglevel |-> "notice"]>>
       Ours == {"tls-port", "tls-cert-file"}
<1>1. DOMAIN layers = 1 .. 9
  OBVIOUS
<1>2. /\ Ours \cap DOMAIN layers[1] = {}
      /\ Ours \cap DOMAIN layers[2] = {}
      /\ Ours \cap DOMAIN layers[3] = {}
      /\ Ours \cap DOMAIN layers[9] = {}
  OBVIOUS
<1>3. Ours \cap DOMAIN layers[4] = {}
  BY DEF modeLines
<1>4. Ours \cap DOMAIN layers[5] = IF IsTLSEnabled(spec) THEN Ours ELSE {}
  <2>1. DOMAIN tlsLines(spec)
            = IF IsTLSEnabled(spec) THEN {"port", "tls-port", "tls-cert-file"} ELSE {}
    <3> DEFINE port == [port |-> "0"]
               listen == [line \in {"tls-port"} |-> "6380"]
               cert == [line \in {"tls-cert-file"} |-> "/etc/keydb/tls/tls.crt"]
    <3>1. DOMAIN port = {"port"} /\ DOMAIN listen = {"tls-port"} /\ DOMAIN cert = {"tls-cert-file"}
      OBVIOUS
    <3>2. tlsLines(spec) = IF IsTLSEnabled(spec) THEN Overlay(<<port, listen, cert>>) ELSE Nothing
      BY DEF tlsLines
    <3> HIDE DEF port, listen, cert
    <3>3. DOMAIN Overlay(<<port, listen, cert>>) = DOMAIN port \cup DOMAIN listen \cup DOMAIN cert
      BY ThreeLayers
    <3>4. CASE IsTLSEnabled(spec)
      BY <3>1, <3>2, <3>3, <3>4
    <3>5. CASE ~IsTLSEnabled(spec)
      BY <3>2, <3>5, NothingIsEmpty
    <3> QED BY <3>4, <3>5
  <2> QED BY <2>1
<1>5. /\ Ours \cap DOMAIN layers[6] = {}
      /\ Ours \cap DOMAIN layers[7] = {}
      /\ Ours \cap DOMAIN layers[8] = {}
  BY NothingIsEmpty DEF authLines, persistenceLines, memoryLines
<1>6. generateKeyDBConfig(spec) = layers
  BY DEF generateKeyDBConfig
<1> HIDE DEF layers
<1>7. \A i \in DOMAIN layers :
          Ours \cap DOMAIN layers[i] = IF i = 5 /\ IsTLSEnabled(spec) THEN Ours ELSE {}
  BY <1>1, <1>2, <1>3, <1>4, <1>5
<1>8. \A line \in Ours :
          line \in DOMAIN Overlay(layers) <=> IsTLSEnabled(spec)
  BY <1>1, <1>7, OverlayDomain
<1>9. IsTLSEnabled(spec) \in BOOLEAN
  BY DEF IsTLSEnabled
<1> QED BY <1>6, <1>8, <1>9

\* The ports and the certificates of the pods.
LEMMA PodPorts ==
    ASSUME NEW spec, HasTypes(spec)
    PROVE  /\ DOMAIN NewStatefulSet(spec).ports =
                  {"keydb", "cluster-bus"} \cup (IF IsTLSEnabled(spec) THEN {"keydb-tls"} ELSE {})
           /\ (NewStatefulSet(spec).certs # Nil) = IsTLSEnabled(spec)
<1>1. /\ NewStatefulSet(spec).ports =
             Overlay(<<[keydb |-> 6379], [port \in {"cluster-bus"} |-> 16379],
                       addTLSSupport(spec).ports>>)
      /\ NewStatefulSet(spec).certs = addTLSSupport(spec).certs
  BY DEF NewStatefulSet
<1>2. DOMAIN addTLSSupport(spec).ports = IF IsTLSEnabled(spec) THEN {"keydb-tls"} ELSE {}
  BY NothingIsEmpty DEF addTLSSupport
<1>3. (addTLSSupport(spec).certs # Nil) = IsTLSEnabled(spec)
  BY NilAssumption DEF addTLSSupport, IsTLSEnabled, HasTypes, Optional, TLSConfigs
<1>4. DOMAIN NewStatefulSet(spec).ports =
          DOMAIN [keydb |-> 6379] \cup DOMAIN [port \in {"cluster-bus"} |-> 16379]
              \cup DOMAIN addTLSSupport(spec).ports
  BY <1>1, ThreeLayers
<1> QED BY <1>1, <1>2, <1>3, <1>4

LEMMA ServicePorts ==
    ASSUME NEW spec
    PROVE  /\ DOMAIN NewHeadlessService(spec).ports = {"keydb", "cluster-bus"}
           /\ DOMAIN NewClientService(spec).ports =
                  {"keydb"} \cup (IF IsTLSEnabled(spec) THEN {"keydb-tls"} ELSE {})
                            \cup (IF IsMonitored(spec) THEN {"metrics"} ELSE {})
<1>1. DOMAIN NewHeadlessService(spec).ports =
          DOMAIN [keydb |-> 6379] \cup DOMAIN [port \in {"cluster-bus"} |-> 16379]
  BY TwoLayers DEF NewHeadlessService
<1> DEFINE keydb == [keydb |-> IF spec.service.port # 0 THEN spec.service.port ELSE 6379]
           tls == IF IsTLSEnabled(spec) THEN [port \in {"keydb-tls"} |-> 6380] ELSE Nothing
           metrics == IF IsMonitored(spec) THEN [metrics |-> metricsPort(spec)] ELSE Nothing
<1>2. NewClientService(spec).ports = Overlay(<<keydb, tls, metrics>>)
  BY DEF NewClientService
<1>3. DOMAIN NewClientService(spec).ports = DOMAIN keydb \cup DOMAIN tls \cup DOMAIN metrics
  BY <1>2, ThreeLayers
<1>4. /\ DOMAIN tls = IF IsTLSEnabled(spec) THEN {"keydb-tls"} ELSE {}
      /\ DOMAIN metrics = IF IsMonitored(spec) THEN {"metrics"} ELSE {}
  BY NothingIsEmpty
<1> QED BY <1>1, <1>3, <1>4

\* The exporter is there where the metrics port of the Service leads, and only then.
LEMMA ExporterPort ==
    ASSUME NEW spec, HasTypes(spec)
    PROVE  NewStatefulSet(spec).exporter # Nil <=> IsMonitored(spec)
<1>1. IsMonitored(spec) => metricsPort(spec) \in Nat
  BY DEF metricsPort, IsMonitored, HasTypes, Optional, MonitoringConfigs
<1> QED BY <1>1, NilAssumption DEF NewStatefulSet, addMonitoringSidecar

\* The Services lead to the ports of the pods, KeyDB listens for TLS where the pods
\* have a port for it, the certificates it names are mounted, and the pods connect to
\* as many masters as there are replicas: for every spec, with the defaults of
\* setDefaults, as far as customConfig has nothing to say of TLS.
THEOREM GenerationFits == Spec => []GeneratedChildrenFit
<1>1. TypeOK => GeneratedChildrenFit
  <2> SUFFICES ASSUME TypeOK, cr.life # "gone" PROVE GeneratedChildrenFit
    BY DEF GeneratedChildrenFit
  <2> DEFINE spec == setDefaults(cr.spec)
             sts == NewStatefulSet(spec)
             conf == Overlay(generateKeyDBConfig(spec))
  <2>1. cr.spec \in KeyDBClusterSpecs
    BY ChildrenAssumption DEF TypeOK, NoCluster
  <2>2. HasTypes(spec)
    BY <2>1, DefaultsKeepTypes
  <2> HIDE DEF spec
  <2>3. /\ DOMAIN NewClientService(spec).ports
               = (DOMAIN sts.ports \ {"cluster-bus"})
                     \cup (IF sts.exporter = Nil THEN {} ELSE {"metrics"})
        /\ DOMAIN NewHeadlessService(spec).ports \subseteq DOMAIN sts.ports
    <3>1. DOMAIN sts.ports =
              {"keydb", "cluster-bus"} \cup (IF IsTLSEnabled(spec) THEN {"keydb-tls"} ELSE {})
      BY <2>2, PodPorts
    <3>2. sts.exporter = Nil <=> ~IsMonitored(spec)
      BY <2>2, ExporterPort
    <3> QED BY <3>1, <3>2, ServicePorts
  <2>6. /\ NewHeadlessService(spec).selector = sts.labels
        /\ NewClientService(spec).selector = sts.labels
    BY DEF NewHeadlessService, NewClientService, NewStatefulSet
  <2>4. ASSUME DOMAIN spec.config.customConfig \cap {"tls-port", "tls-cert-file"} = {}
        PROVE  /\ ("keydb-tls" \in DOMAIN sts.ports) = ("tls-port" \in DOMAIN conf)
               /\ (sts.certs # Nil) = ("tls-cert-file" \in DOMAIN conf)
    <3>1. "keydb-tls" \in DOMAIN sts.ports <=> IsTLSEnabled(spec)
      BY <2>2, PodPorts
    <3>2. "tls-port" \in DOMAIN conf <=> IsTLSEnabled(spec)
      BY <2>4, ConfigLines
    <3>3. (sts.certs # Nil) = ("tls-cert-file" \in DOMAIN conf)
      BY <2>2, <2>4, PodPorts, ConfigLines
    <3> QED BY <3>1, <3>2, <3>3
  <2>5. sts.postStart # Nil => sts.postStart.connects = sts.replicas
    BY DEF NewStatefulSet, getMultiMasterInitScript, calculateReplicas
  <2> QED BY <2>3, <2>4, <2>5, <2>6 DEF GeneratedChildrenFit, spec
<1> QED BY <1>1, ChildrenTypes, PTL

-----------------------------------------------------------------------------
\* The order in which the children are made.

\* What the pods need.
Needed == {"ConfigMap", "HeadlessService"}

\* The first KeyDBCluster of its name is there: whatever happens, what it needs
\* is not collected with an earlier one.
FirstCluster == born = 1 /\ cr.life # "gone"

WorkHasDefaults ==
    pc # "idle" => \E spec \in Specs \cup EditedSpecs : work.spec = setDefaults(spec)

\* What it needs is made as its own, so that nobody takes it or deletes it: the
\* cache that says it is there is never wrong.
NeededStay ==
    \A kind \in Needed :
        /\ Exists(children[kind]) => children[kind].owner = 1
        /\ Exists(cache[kind]) => Exists(children[kind])

MadeInOrder ==
    /\ pc \notin {"idle", "ConfigMap"} => Exists(children["ConfigMap"])
    /\ pc \notin {"idle", "ConfigMap", "HeadlessService"} => Exists(children["HeadlessService"])
    /\ Exists(children["StatefulSet"]) => \A kind \in Needed : Exists(children[kind])

OrderIInv ==
    /\ IInv
    /\ born > 0
    /\ WorkHasDefaults
    /\ FirstCluster => NeededStay /\ MadeInOrder

\* Nothing is there from the start that another controller could take from under
\* the pods, and no pods.
LeftoversAreNotNeeded ==
    \A left \in Leftovers : left.kind \in {"ClientService", "PodDisruptionBudget"}

LEMMA InitialOrder == LeftoversAreNotNeeded /\ Init => OrderIInv
<1> SUFFICES ASSUME LeftoversAreNotNeeded, Init PROVE OrderIInv
  OBVIOUS
<1>1. \A kind \in Needed \cup {"StatefulSet"} : children[kind] = NoChild
  <2>1. CASE children = [kind \in Kinds |-> NoChild]
    BY <2>1 DEF Needed, Kinds
  <2>2. CASE \E left \in Leftovers : \E content \in Generated(left.kind, left.spec) :
                 children = [[kind \in Kinds |-> NoChild] EXCEPT
                                ![left.kind] = [owner |-> Nobody,
                                                content |-> AsStored(left.kind, content)]]
    BY <2>2 DEF LeftoversAreNotNeeded, Needed, Kinds
  <2> QED BY <2>1, <2>2 DEF Init, InitChildren
<1>2. \A kind \in Needed \cup {"StatefulSet"} : ~Exists(children[kind])
  BY <1>1 DEF Exists, NoChild
<1> QED
  BY <1>2, InitIInv DEF OrderIInv, Init, WorkHasDefaults, NeededStay, MadeInOrder, Needed

\* Nothing that is generated is Nil.
LEMMA WhatIsGeneratedExists ==
    ASSUME IInv, WorkHasDefaults, pc # "idle",
           NEW kind \in Kinds, NEW content \in Generated(kind, work.spec)
    PROVE  AsStored(kind, content) # Nil
<1>1. PICK spec \in Specs \cup EditedSpecs : work.spec = setDefaults(spec)
  BY DEF WorkHasDefaults
<1>2. ValidateKeyDBCluster(work.spec)
  BY DEF IInv, TypeOK
<1> QED BY <1>1, <1>2, ContentAssumption

\* What Reconcile does when it has got to a kind.
LEMMA ReconcileWritesWhereItIs ==
    ASSUME IInv, WorkHasDefaults, ReconcileStep,
           NEW kind \in Kinds, children'[kind] # children[kind]
    PROVE  /\ kind = pc \/ (kind = "StatefulSet" /\ pc = "updateStatefulSet")
           /\ kind # "StatefulSet" => Exists(children'[kind])
<1> USE DEF IInv
<1>1. ~Fail
  BY DEF Fail
<1>2. CASE Create \/ ReconcileConfigMap
  <2>1. PICK content \in Generated(pc, work.spec) :
            Write(pc, [owner |-> work.uid, content |-> AsStored(pc, content)])
    BY <1>1, <1>2 DEF Create, ReconcileConfigMap, Generated, AsStored
  <2>2. pc \in Kinds /\ pc # "idle"
    BY <1>2 DEF Create, ReconcileConfigMap, Kinds
  <2>3. kind = pc /\ children'[kind] = [owner |-> work.uid, content |-> AsStored(pc, content)]
    BY <2>1, <2>2, ChildWritten DEF Write
  <2>4. AsStored(pc, content) # Nil
    BY <2>2, WhatIsGeneratedExists
  <2> QED BY <2>3, <2>4 DEF Exists
<1>3. CASE AdoptStatefulSet
  <2>1. pc = "StatefulSet" /\ pc \in Kinds /\ children' = [children EXCEPT ![pc] = found']
    BY <1>1, <1>3 DEF AdoptStatefulSet, Kinds
  <2>2. kind = pc
    BY <2>1, ChildWritten
  <2> QED BY <2>1, <2>2
<1>4. CASE ReconcileStatefulSet
  <2>1. PICK content : Write("StatefulSet", [owner |-> work.uid, content |-> content])
    BY <1>1, <1>4, StatefulSetUpdate
  <2>2. kind = "StatefulSet"
    BY <2>1, ChildWritten DEF Write, Kinds
  <2> QED BY <1>4, <2>2 DEF ReconcileStatefulSet
<1> QED
  BY <1>1, <1>2, <1>3, <1>4
  DEF ReconcileStep, HandleDeletion, AddFinalizer, StartReconcile, NewStatefulSetPanics,
      PassBy, IsAlreadyOwned

LEMMA KeyDBClustersAreCounted ==
    ASSUME [Next]_vars PROVE born' = born \/ CreateCluster
<1>1. CASE ReconcileStep
  BY <1>1
  DEF ReconcileStep, HandleDeletion, AddFinalizer, StartReconcile, NewStatefulSetPanics,
      Create, PassBy, IsAlreadyOwned, ReconcileConfigMap, AdoptStatefulSet,
      ReconcileStatefulSet, UpdateStatefulSet, Fail, Proceed, Return, budgetVars
<1>2. CASE ~ReconcileStep
  BY <1>2
  DEF Next, EditSpec, DeleteCluster, StrangerTakes, StrangerDeletes, CollectGarbage, SyncChild,
      SyncCr, ApiError, Crash, StatusWrite, NotByTheOperator, vars, budgetVars
<1> QED BY <1>1, <1>2

\* As long as the first KeyDBCluster is there it has been there.
LEMMA FirstClusterWasThere ==
    ASSUME OrderIInv, [Next]_vars, FirstCluster'
    PROVE  FirstCluster /\ cr.uid = 1
<1> USE DEF OrderIInv, IInv
<1>1. FirstCluster
  <2>1. ~CreateCluster
    BY DEF CreateCluster, FirstCluster, TypeOK
  <2> QED
    BY <2>1
    DEF Next, FirstCluster, EditSpec, DeleteCluster, StrangerTakes, StrangerDeletes,
        CollectGarbage, SyncChild, SyncCr, ReconcileStep, HandleDeletion, AddFinalizer,
        StartReconcile, NewStatefulSetPanics, Create, PassBy, IsAlreadyOwned,
        ReconcileConfigMap, AdoptStatefulSet, ReconcileStatefulSet, UpdateStatefulSet, Fail,
        Proceed, Return, ApiError, Crash, StatusWrite, NotByTheOperator, CurrentCopiesAreExact,
        NoCluster, Shapes, IsCluster, vars, budgetVars
<1> QED BY <1>1 DEF FirstCluster, TypeOK, NoCluster

\* What it needs does not go, and is its own.
LEMMA NeededDoNotGo ==
    ASSUME OrderIInv, [Next]_vars, FirstCluster', NEW kind \in Needed
    PROVE  /\ Exists(children[kind]) => Exists(children'[kind])
           /\ Exists(children'[kind]) => children'[kind].owner = 1
<1> USE DEF OrderIInv
<1>1. kind \in Kinds /\ kind # "StatefulSet"
  BY DEF Needed, Kinds
<1>2. cr.uid = 1 /\ NeededStay
  BY FirstClusterWasThere
<1>3. CASE children'[kind] = children[kind]
  BY <1>2, <1>3 DEF NeededStay
<1>4. CASE children'[kind] # children[kind] /\ ReconcileStep
  BY <1>1, <1>2, <1>4, ReconcileWritesWhereItIs, ReconcileWritesItsOwn DEF IsLive
<1>5. CASE children'[kind] # children[kind] /\ ~ReconcileStep
  <2>1. StrangerTakes(kind) \/ StrangerDeletes(kind) \/ CollectGarbage(kind)
    BY <1>1, <1>5, OthersWrite DEF vars
  <2>2. CollectGarbage(kind) /\ ~Exists(children[kind])
    BY <1>2, <2>1
    DEF StrangerTakes, StrangerDeletes, CollectGarbage, NeededStay, Nobody, Stranger
  <2>3. children'[kind] = NoChild
    BY <1>1, <2>2, ChildWritten DEF CollectGarbage, Write, IInv
  <2> QED BY <2>2, <2>3 DEF Exists, NoChild
<1> QED BY <1>3, <1>4, <1>5

LEMMA NeededStayed ==
    ASSUME OrderIInv, [Next]_vars, FirstCluster' PROVE NeededStay'
<1> SUFFICES ASSUME NEW kind \in Needed, Exists(cache'[kind]) PROVE Exists(children'[kind])
  BY NeededDoNotGo DEF NeededStay
<1>1. CASE cache'[kind] = cache[kind]
  BY <1>1, FirstClusterWasThere, NeededDoNotGo DEF OrderIInv, NeededStay
<1>2. CASE cache'[kind] # cache[kind]
  <2>1. kind \in Kinds
    BY DEF Needed, Kinds
  <2>2. cache' = children \/ \E other \in Kinds : SyncChild(other)
    BY <1>2
    DEF Next, EditSpec, DeleteCluster, CreateCluster, StrangerTakes, StrangerDeletes,
        CollectGarbage, SyncCr, ReconcileStep, HandleDeletion, AddFinalizer,
        StartReconcile, NewStatefulSetPanics, Create, PassBy, IsAlreadyOwned,
        ReconcileConfigMap, AdoptStatefulSet, ReconcileStatefulSet, UpdateStatefulSet, Fail,
        Proceed, Return, ApiError, Crash, StatusWrite, NotByTheOperator, vars
  <2>3. cache'[kind] = children[kind]
    BY <1>2, <2>1, <2>2 DEF SyncChild, OrderIInv, IInv, Shapes
  <2> QED BY <2>3, NeededDoNotGo
<1> QED BY <1>1, <1>2

\* Reconcile goes on when what it has got to is there.
LEMMA WhatIsNeededIsMade ==
    ASSUME OrderIInv, ReconcileStep, FirstCluster, FirstCluster', pc \in Needed, pc' # "idle"
    PROVE  pc' = After(pc) /\ Exists(children'[pc])
<1> USE DEF OrderIInv
<1>1. pc \in Kinds /\ pc # "StatefulSet" /\ pc # "updateStatefulSet" /\ pc # "idle"
  BY DEF Needed, Kinds
<1>2. ~Fail
  BY DEF Fail, Return
<1>3. CASE Create
  <2>1. PICK content \in Generated(pc, work.spec) :
            Write(pc, [owner |-> work.uid, content |-> AsStored(pc, content)]) /\ Proceed
    BY <1>2, <1>3 DEF Create
  <2>2. children'[pc] = [owner |-> work.uid, content |-> AsStored(pc, content)]
    BY <1>1, <2>1, ChildWritten DEF Write, IInv
  <2>3. AsStored(pc, content) # Nil
    BY <1>1, WhatIsGeneratedExists
  <2> QED BY <2>1, <2>2, <2>3 DEF Proceed, Exists
<1>4. CASE ReconcileConfigMap \/ PassBy
  <2>1. Exists(cache[pc]) /\ Proceed
    BY <1>2, <1>4 DEF ReconcileConfigMap, PassBy, Generated, Needed
  <2>2. Exists(children[pc])
    BY <2>1 DEF NeededStay
  <2> QED BY <2>1, <2>2, NeededDoNotGo DEF Proceed, Next
<1> QED
  BY <1>1, <1>2, <1>3, <1>4
  DEF ReconcileStep, HandleDeletion, AddFinalizer, StartReconcile, NewStatefulSetPanics,
      IsAlreadyOwned, AdoptStatefulSet, ReconcileStatefulSet

\* Where Reconcile goes next.
LEMMA ReconcileGoesOn ==
    ASSUME IInv, [Next]_vars, pc' # pc, pc' # "idle"
    PROVE  /\ ReconcileStep
           /\ \/ pc = "idle" /\ pc' = "ConfigMap"
              \/ pc \in Kinds \ {"StatefulSet"} /\ pc' = After(pc)
              \/ pc = "StatefulSet" /\ pc' = "updateStatefulSet"
<1>1. ReconcileStep
  BY DEF Next, EditSpec, DeleteCluster, CreateCluster, StrangerTakes, StrangerDeletes,
     CollectGarbage, SyncChild, SyncCr, ApiError, Crash, StatusWrite, NotByTheOperator,
     vars, workerVars
<1>2. ~Fail /\ ~Return
  BY DEF Fail, Return
<1>3. CASE Create \/ PassBy \/ ReconcileConfigMap
  <2>1. pc \in Kinds /\ Proceed
    BY <1>2, <1>3 DEF Create, PassBy, ReconcileConfigMap, Kinds
  <2> QED BY <1>1, <2>1 DEF Proceed, After
<1>4. CASE ~(Create \/ PassBy \/ ReconcileConfigMap)
  BY <1>1, <1>2, <1>4
  DEF ReconcileStep, HandleDeletion, AddFinalizer, StartReconcile, NewStatefulSetPanics,
      IsAlreadyOwned, AdoptStatefulSet, ReconcileStatefulSet, UpdateStatefulSet, workerVars
<1> QED BY <1>1, <1>3, <1>4

LEMMA MadeStaysInOrder ==
    ASSUME OrderIInv, [Next]_vars, FirstCluster' PROVE MadeInOrder'
<1> USE DEF OrderIInv
<1>1. FirstCluster /\ MadeInOrder
  BY FirstClusterWasThere
<1>2. "ConfigMap" \in Needed /\ "HeadlessService" \in Needed
  BY DEF Needed
<1>3. \A kind \in Needed : Exists(children[kind]) => Exists(children'[kind])
  BY NeededDoNotGo
<1>4. /\ pc' \notin {"idle", "ConfigMap"} => Exists(children'["ConfigMap"])
      /\ pc' \notin {"idle", "ConfigMap", "HeadlessService"}
             => Exists(children'["HeadlessService"])
  <2>1. CASE pc' = pc \/ pc' = "idle"
    BY <1>1, <1>2, <1>3, <2>1 DEF MadeInOrder
  <2>2. CASE pc' # pc /\ pc' # "idle" /\ pc \in Needed
    <3>1. pc' = After(pc) /\ Exists(children'[pc])
      BY <1>1, <2>2, ReconcileGoesOn, WhatIsNeededIsMade
    <3> QED BY <1>1, <1>2, <1>3, <2>2, <3>1 DEF MadeInOrder, After, Needed
  <2>3. CASE pc' # pc /\ pc' # "idle" /\ pc \notin Needed
    <3>1. pc' = "ConfigMap" \/ pc \notin {"idle", "ConfigMap", "HeadlessService"}
      BY <2>3, ReconcileGoesOn DEF Needed, Kinds
    <3> QED BY <1>1, <1>2, <1>3, <3>1 DEF MadeInOrder
  <2> QED BY <2>1, <2>2, <2>3
<1>5. ASSUME Exists(children'["StatefulSet"]), NEW kind \in Needed
      PROVE  Exists(children'[kind])
  <2>1. "StatefulSet" \in Kinds
    BY DEF Kinds
  <2>2. CASE Exists(children["StatefulSet"])
    BY <1>1, <1>3, <2>2 DEF MadeInOrder
  <2>3. CASE ~Exists(children["StatefulSet"])
    <3>1. children'["StatefulSet"] # children["StatefulSet"]
      BY <1>5, <2>3
    <3>2. ReconcileStep
      <4> SUFFICES ASSUME ~ReconcileStep PROVE FALSE
        OBVIOUS
      <4>1. \/ StrangerTakes("StatefulSet") \/ StrangerDeletes("StatefulSet")
            \/ CollectGarbage("StatefulSet")
        BY <2>1, <3>1, OthersWrite DEF vars
      <4>2. children'["StatefulSet"] = NoChild
        BY <2>1, <2>3, <4>1, ChildWritten
        DEF StrangerTakes, StrangerDeletes, CollectGarbage, Write, IInv
      <4> QED BY <1>5, <4>2 DEF Exists, NoChild
    <3>3. pc \in {"StatefulSet", "updateStatefulSet"}
      BY <2>1, <3>1, <3>2, ReconcileWritesWhereItIs
    <3> QED BY <1>1, <1>3, <3>3 DEF MadeInOrder, Needed
  <2> QED BY <2>2, <2>3
<1> QED BY <1>4, <1>5 DEF MadeInOrder

LEMMA DefaultsStay ==
    ASSUME OrderIInv, [Next]_vars PROVE WorkHasDefaults'
<1> USE DEF OrderIInv
<1>1. CASE StartReconcile
  <2>1. crCache.spec \in Specs \cup EditedSpecs
    BY <1>1 DEF StartReconcile, IInv, TypeOK, NoCluster
  <2>2. work'.spec = setDefaults(crCache.spec)
    BY <1>1 DEF StartReconcile, IInv, Shapes, IsCluster
  <2> QED BY <2>1, <2>2 DEF WorkHasDefaults
<1>2. CASE ~StartReconcile
  <2>1. pc' = "idle" \/ (work' = work /\ pc # "idle")
    BY <1>2
    DEF Next, EditSpec, DeleteCluster, CreateCluster, StrangerTakes, StrangerDeletes,
        CollectGarbage, SyncChild, SyncCr, ReconcileStep, HandleDeletion, AddFinalizer,
        NewStatefulSetPanics, Create, PassBy, IsAlreadyOwned, ReconcileConfigMap,
        AdoptStatefulSet, ReconcileStatefulSet, UpdateStatefulSet, Fail, Proceed, Return,
        After, ApiError, Crash, StatusWrite, NotByTheOperator, Kinds, vars, workerVars
  <2> QED BY <2>1 DEF WorkHasDefaults
<1> QED BY <1>1, <1>2

LEMMA OrderIsKept == OrderIInv /\ [Next]_vars => OrderIInv'
<1> SUFFICES ASSUME OrderIInv, [Next]_vars PROVE OrderIInv'
  OBVIOUS
<1>1. IInv'
  BY NextKeepsIInv DEF OrderIInv
<1>2. born' > 0
  BY KeyDBClustersAreCounted DEF OrderIInv, IInv, TypeOK, CreateCluster
<1> QED BY <1>1, <1>2, DefaultsStay, NeededStayed, MadeStaysInOrder DEF OrderIInv

\* The pods of the first KeyDBCluster of its name find the ConfigMap they mount and
\* the Service that names them as soon as there is a StatefulSet, whatever the
\* caches, the faults and the other controllers do in the meantime.
THEOREM FirstPodsFindWhatTheyNeed ==
    ASSUME LeftoversAreNotNeeded
    PROVE  Spec => [](born = 1 => PodsFindWhatTheyNeed)
<1>1. Init => OrderIInv
  BY InitialOrder
<1>2. OrderIInv => (born = 1 => PodsFindWhatTheyNeed)
  BY DEF OrderIInv, FirstCluster, MadeInOrder, PodsFindWhatTheyNeed, Needed
<1> QED BY <1>1, <1>2, OrderIsKept, PTL DEF Spec

\* With one KeyDBCluster of the name, then, always.
THEOREM PodsOfTheOnlyCluster ==
    ASSUME LeftoversAreNotNeeded, MaxIncarnations = 1
    PROVE  Spec => []PodsFindWhatTheyNeed
<1> DEFINE OnlyOne == born = 1
<1>1. Init => OnlyOne
  BY DEF Init
<1>2. OrderIInv /\ OnlyOne /\ [Next]_vars => OnlyOne'
  BY KeyDBClustersAreCounted DEF CreateCluster
<1>3. Init => OrderIInv
  BY InitialOrder
<1>4. OrderIInv /\ OnlyOne => PodsFindWhatTheyNeed
  BY DEF OrderIInv, FirstCluster, MadeInOrder, PodsFindWhatTheyNeed, Needed
<1> HIDE DEF OnlyOne
<1> QED BY <1>1, <1>2, <1>3, <1>4, OrderIsKept, PTL DEF Spec

-----------------------------------------------------------------------------
\* The comparisons of reconcileStatefulSet, what its update sets, and what the API
\* server makes of it.

\* Of a StatefulSet at the API server: no number of a probe is zero.
IsStored(sts) == ~HasAZero(sts)

StatefulSetFields ==
    {"labels", "replicas", "image", "ports", "certs", "exporter", "init", "postStart",
     "liveness", "readiness", "resources", "storage"}

\* What the generator says of a probe, if anything.
LEMMA ProbeGenerated ==
    ASSUME NEW probe, NEW command, NEW defaultTimings
    PROVE  LET built == buildProbe(probe, command, defaultTimings)
           IN  built # Nil => DOMAIN built = {"command", "timings"}
<1>1. CASE probe = Nil
  BY <1>1 DEF buildProbe
<1>2. CASE probe # Nil /\ ~probe.enabled
  BY <1>2 DEF buildProbe
<1>3. CASE probe # Nil /\ probe.enabled
  BY <1>3 DEF buildProbe
<1> QED BY <1>1, <1>2, <1>3

\* A probe after the update, and as the API server keeps it.
LEMMA ProbeUpdated ==
    ASSUME NEW old, NEW desired, old # Nil => old.timings # 0,
           desired # Nil => DOMAIN desired = {"command", "timings"},
           NEW updated, updated = IF probesEqual(old, desired) THEN old ELSE desired,
           NEW stored, stored = IF updated # Nil /\ updated.timings = 0
                                THEN [updated EXCEPT !.timings = 1] ELSE updated
    PROVE  /\ stored # Nil => stored.timings # 0
           /\ probesEqual(stored, desired) <=> ~(desired # Nil /\ desired.timings = 0)
<1>1. CASE updated = Nil
  BY <1>1 DEF probesEqual
<1>2. CASE updated # Nil /\ updated.timings # 0
  BY <1>2 DEF probesEqual
<1>3. CASE updated # Nil /\ updated.timings = 0
  <2>1. updated = desired
    BY <1>3
  <2>2. stored.timings = 1
    BY <1>3, <2>1
  <2> QED BY <1>3, <2>1, <2>2 DEF probesEqual
<1> QED BY <1>1, <1>2, <1>3

\* Once reconcileStatefulSet has updated a StatefulSet it finds nothing to update in
\* it, as long as the spec stays what it is: everything that it compares is set, and
\* kept by the API server, but for a zero among the numbers of a probe.  With one of
\* those there is something to update for ever.
THEOREM UpdatesSettle ==
    ASSUME NEW spec, NEW sts, IsStored(sts), DOMAIN sts = StatefulSetFields,
           NEW desired, desired = NewStatefulSet(spec),
           NEW updated, updated = AsStored("StatefulSet", Updated(sts, desired))
    PROVE  /\ IsStored(updated)
           /\ needsUpdate(updated, desired) <=> HasAZero(desired)
<1> DEFINE Kept(old, new) == IF probesEqual(old, new) THEN old ELSE new
           Filled(probe) == IF probe # Nil /\ probe.timings = 0
                            THEN [probe EXCEPT !.timings = 1] ELSE probe
<1>1. /\ updated.replicas = desired.replicas
      /\ updated.image = desired.image
      /\ resourcesEqual(updated.resources, desired.resources)
      /\ lifecycleEqual(updated.postStart, desired.postStart)
  BY DEF AsStored, Updated, StatefulSetFields, resourcesEqual, lifecycleEqual
<1>2. /\ updated.liveness = Filled(Kept(sts.liveness, desired.liveness))
      /\ updated.readiness = Filled(Kept(sts.readiness, desired.readiness))
  BY DEF AsStored, Updated, StatefulSetFields
<1>3. \A probe \in {desired.liveness, desired.readiness} :
          probe # Nil => DOMAIN probe = {"command", "timings"}
  <2>1. /\ desired.liveness = buildLivenessProbe(spec)
        /\ desired.readiness = buildReadinessProbe(spec)
    BY DEF NewStatefulSet
  <2> QED BY <2>1, ProbeGenerated DEF buildLivenessProbe, buildReadinessProbe
<1>4. \A probe \in {sts.liveness, sts.readiness} : probe # Nil => probe.timings # 0
  BY DEF IsStored, HasAZero
<1>5. /\ updated.liveness # Nil => updated.liveness.timings # 0
      /\ probesEqual(updated.liveness, desired.liveness)
             <=> ~(desired.liveness # Nil /\ desired.liveness.timings = 0)
  BY <1>2, <1>3, <1>4, ProbeUpdated
<1>6. /\ updated.readiness # Nil => updated.readiness.timings # 0
      /\ probesEqual(updated.readiness, desired.readiness)
             <=> ~(desired.readiness # Nil /\ desired.readiness.timings = 0)
  BY <1>2, <1>3, <1>4, ProbeUpdated
<1> QED BY <1>1, <1>5, <1>6 DEF IsStored, HasAZero, needsUpdate
=============================================================================
