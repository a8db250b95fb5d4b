------------------------------ MODULE Resources ------------------------------
(***************************************************************************)
(* What internal/resources generates from the spec of a KeyDBCluster: its  *)
(* ConfigMap, its two Services, its PodDisruptionBudget and its            *)
(* StatefulSet.  Every spec here has its defaults.                         *)
(*                                                                         *)
(* Of the labels, which are the same everywhere, only the mode can change. *)
(* keydb.conf is the function that KeyDB makes of it, a later line         *)
(* overriding an earlier one, with the directives some other child or      *)
(* customConfig has to do with.                                            *)
(***************************************************************************)
EXTENDS KeyDBClusterSpec, SequencesExt

Kinds == {"ConfigMap", "HeadlessService", "ClientService",
          "PodDisruptionBudget", "StatefulSet"}

getLabels(spec) == [mode |-> spec.mode]

IsTLSEnabled(spec) == spec.config.tls # Nil /\ spec.config.tls.enabled

IsMonitored(spec) == spec.monitoring # Nil /\ spec.monitoring.enabled

metricsPort(spec) == IF spec.monitoring.port # 0 THEN spec.monitoring.port ELSE 9121

\* The layers laid over each other, the first one uppermost.  (Of :> and @@, which
\* TLC has for that, the provers know nothing.)
Overlay(layers) ==
    LET With(x) == {i \in DOMAIN layers : x \in DOMAIN layers[i]}
    IN  [x \in UNION {DOMAIN layers[i] : i \in DOMAIN layers} |-> layers[Min(With(x))][x]]

Nothing == [x \in {} |-> Nil]

-----------------------------------------------------------------------------
\* configmap.go

persistenceLines(spec) ==
    IF spec.config.persistence THEN [appendonly |-> "yes", dir |-> "/data"] ELSE Nothing

\* The password of a Secret gets into no line.
authLines(spec) ==
    IF spec.config.requirePass # Nil /\ spec.config.requirePass.value # ""
    THEN [requirepass |-> spec.config.requirePass.value] ELSE Nothing

tlsLines(spec) ==
    IF IsTLSEnabled(spec)
    THEN Overlay(<<[port |-> "0"],
                   [line \in {"tls-port"} |-> "6380"],
                   [line \in {"tls-cert-file"} |-> "/etc/keydb/tls/tls.crt"]>>)
    ELSE Nothing

modeLines(spec) ==
    IF spec.mode = "cluster" THEN [line \in {"cluster-enabled"} |-> "yes"]
    ELSE IF spec.multiMaster # Nil /\ spec.multiMaster.activeReplica
    THEN [line \in {"multi-master", "active-replica"} |-> "yes"]
    ELSE [line \in {"multi-master"} |-> "yes"]

memoryLines(spec) ==
    IF spec.config.maxMemory # "" THEN [maxmemory |-> spec.config.maxMemory] ELSE Nothing

\* From the last lines to the first ones.
generateKeyDBConfig(spec) ==
    <<spec.config.customConfig,
      [maxclients |-> "10000", timeout |-> "0"],
      [line \in {"tcp-keepalive"} |-> "300"],
      modeLines(spec),
      tlsLines(spec),
      authLines(spec),
      persistenceLines(spec),
      memoryLines(spec),
      [port |-> "6379", loglevel |-> "notice"]>>

\* customConfig is a map, whose keys come in any order: one spec has many texts.
NewConfigMap(spec) ==
    {[conf |-> Overlay(lines), order |-> order] :
         lines \in {generateKeyDBConfig(spec)},
         order \in SetToSeqs(DOMAIN spec.config.customConfig)}

-----------------------------------------------------------------------------
\* service.go.  ports gives the number of each port; the target has its name.

NewHeadlessService(spec) ==
    [selector |-> getLabels(spec),
     ports |-> Overlay(<<[keydb |-> 6379], [port \in {"cluster-bus"} |-> 16379]>>)]

\* Mutant: a TLS port of another name.
NewClientServiceWithAnUnknownPort(spec) ==
    [type |-> IF spec.service.type # "" THEN spec.service.type ELSE "ClusterIP",
     selector |-> getLabels(spec),
     ports |->
        Overlay(<<[keydb |-> IF spec.service.port # 0 THEN spec.service.port ELSE 6379],
                  IF IsTLSEnabled(spec) THEN [tls |-> 6380] ELSE Nothing,
                  IF IsMonitored(spec) THEN [metrics |-> metricsPort(spec)] ELSE Nothing>>)]

NewClientService(spec) ==
    [type |-> IF spec.service.type # "" THEN spec.service.type ELSE "ClusterIP",
     selector |-> getLabels(spec),
     ports |->
        Overlay(<<[keydb |-> IF spec.service.port # 0 THEN spec.service.port ELSE 6379],
                  IF IsTLSEnabled(spec) THEN [port \in {"keydb-tls"} |-> 6380] ELSE Nothing,
                  IF IsMonitored(spec) THEN [metrics |-> metricsPort(spec)] ELSE Nothing>>)]

\* poddisruptionbudget.go: minAvailable, or else maxUnavailable, or else one.
NewPodDisruptionBudget(spec) ==
    LET budget == spec.podDisruptionBudget IN
    [selector |-> getLabels(spec),
     minAvailable |-> budget.minAvailable,
     maxUnavailable |->
        IF budget.minAvailable # Nil THEN Nil
        ELSE IF budget.maxUnavailable # Nil THEN budget.maxUnavailable ELSE 1]

-----------------------------------------------------------------------------
\* statefulset.go

calculateReplicas(spec) ==
    IF spec.mode = "cluster"
    THEN spec.cluster.shards * (1 + spec.cluster.replicasPerShard)
    ELSE spec.replicas

\* The default commands ask the port 6379 on localhost, without TLS and without
\* a password.
buildReadinessCommand(spec) ==
    IF spec.mode = "multi-master" THEN "role is active-replica" ELSE "loaded"

\* A probe section has all its numbers, by the defaults of the CRD.
buildProbe(probe, command, defaultTimings) ==
    IF probe = Nil THEN [command |-> command, timings |-> defaultTimings]
    ELSE IF ~probe.enabled THEN Nil
    ELSE [command |-> IF probe.exec # "" THEN probe.exec ELSE command,
          timings |-> probe.timings]

buildLivenessProbe(spec) == buildProbe(spec.livenessProbe, "PING", 1)

buildReadinessProbe(spec) ==
    buildProbe(spec.readinessProbe, buildReadinessCommand(spec), 5)

NoResources == [cpu |-> "0", memory |-> "0", other |-> "0"]

\* A port more, and the Secret mounted at /etc/keydb/tls.
addTLSSupport(spec) ==
    IF IsTLSEnabled(spec)
    THEN [ports |-> [port \in {"keydb-tls"} |-> 6380], certs |-> spec.config.tls.secretName]
    ELSE [ports |-> Nothing, certs |-> Nil]

\* The port of the sidecar.
addMonitoringSidecar(spec) == IF IsMonitored(spec) THEN metricsPort(spec) ELSE Nil

\* The init container runs the image and waits for that many pods.
getClusterInitScript(spec) == [image |-> spec.image, waitsFor |-> calculateReplicas(spec)]

\* The post-start hook connects the pod to that many masters.
getMultiMasterInitScript(spec) == [connects |-> spec.replicas]

NewStatefulSet(spec) ==
    [labels |-> getLabels(spec),
     replicas |-> calculateReplicas(spec),
     image |-> spec.image,
     ports |-> Overlay(<<[keydb |-> 6379], [port \in {"cluster-bus"} |-> 16379],
                         addTLSSupport(spec).ports>>),
     certs |-> addTLSSupport(spec).certs,
     exporter |-> addMonitoringSidecar(spec),
     init |-> IF spec.mode = "cluster" THEN getClusterInitScript(spec) ELSE Nil,
     postStart |-> IF spec.mode = "multi-master"
                   THEN getMultiMasterInitScript(spec) ELSE Nil,
     liveness |-> buildLivenessProbe(spec),
     readiness |-> buildReadinessProbe(spec),
     resources |-> IF spec.resources # Nil THEN spec.resources ELSE NoResources,
     storage |-> spec.storage]

\* resource.MustParse panics on anything else.
Quantities == {"10Gi", "20Gi"}

-----------------------------------------------------------------------------
\* The contents that a child of the given kind may be generated with.
Generated(kind, spec) ==
    CASE kind = "ConfigMap" -> NewConfigMap(spec)
      [] kind = "HeadlessService" -> {NewHeadlessService(spec)}
      [] kind = "ClientService" -> {NewClientService(spec)}
      [] kind = "PodDisruptionBudget" ->
             IF spec.podDisruptionBudget = Nil THEN {} ELSE {NewPodDisruptionBudget(spec)}
      [] kind = "StatefulSet" -> {NewStatefulSet(spec)}

\* What the API server makes of it: a number of a probe that is zero gets the API
\* server's own default.
AsStored(kind, content) ==
    LET Filled(probe) ==
            IF probe # Nil /\ probe.timings = 0 THEN [probe EXCEPT !.timings = 1] ELSE probe
    IN  IF kind = "StatefulSet"
        THEN [content EXCEPT !.liveness = Filled(@), !.readiness = Filled(@)]
        ELSE content

\* The API server refuses a Service with one port number twice.
IsAdmitted(kind, content) ==
    kind = "ClientService" =>
        \A name, other \in DOMAIN content.ports :
            name # other => content.ports[name] # content.ports[other]
=============================================================================
