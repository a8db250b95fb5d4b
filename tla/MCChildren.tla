------------------------------ MODULE MCChildren ------------------------------
(***************************************************************************)
(* Instances of Children for TLC: the specs of the README's examples, and  *)
(* what becomes of them when one section is changed.                       *)
(***************************************************************************)
EXTENDS DocumentedChildren

\* README, "Create a KeyDB cluster", without the resources.
QuickStart ==
    [mode |-> "multi-master", replicas |-> 3, image |-> "eqalpha/keydb:latest",
     multiMaster |-> Nil, cluster |-> Nil, config |-> Nil, resources |-> Nil,
     storage |-> [size |-> "10Gi", storageClass |-> ""], service |-> Nil,
     monitoring |-> Nil, upgrade |-> Nil, podDisruptionBudget |-> Nil,
     livenessProbe |-> Nil, readinessProbe |-> Nil]

\* README, "Cluster Mode Configuration".
ClusterMode ==
    [QuickStart EXCEPT
        !.mode = "cluster",
        !.cluster = [shards |-> 3, replicasPerShard |-> 1],
        !.config = [NoConfig EXCEPT !.maxMemory = "512mb"]]

\* README, "Multi-Master Configuration with TLS and Monitoring".
TLSConfig == [enabled |-> TRUE, secretName |-> "keydb-tls-certs"]

WithTLSAndMonitoring ==
    [QuickStart EXCEPT
        !.multiMaster = [activeReplica |-> TRUE],
        !.config = [NoConfig EXCEPT
            !.maxMemory = "2gb",
            !.requirePass = [value |-> "",
                             secretRef |-> [name |-> "keydb-auth", key |-> "password"]],
            !.tls = TLSConfig,
            !.customConfig = "tcp-keepalive" :> "300" @@ "maxclients" :> "10000"],
        !.storage.size = "20Gi",
        !.monitoring = [enabled |-> TRUE, port |-> 9121],
        !.podDisruptionBudget = [minAvailable |-> Nil, maxUnavailable |-> 1]]

\* TLS on a port that the user has chosen.
TLSElsewhere == [NoConfig EXCEPT !.tls = TLSConfig, !.customConfig = "tls-port" :> "10000"]

Monitoring(port) == [enabled |-> TRUE, port |-> port]

Probe == [enabled |-> TRUE, exec |-> "", timings |-> 1]

\* The examples with their sections in every combination of these values, valid
\* ones and invalid ones.
SectionsCombined ==
    {[example EXCEPT
        !.config = [NoConfig EXCEPT !.tls = tls, !.requirePass = password],
        !.monitoring = monitoring,
        !.service = service,
        !.storage = storage] :
     example \in {QuickStart, ClusterMode},
     tls \in {Nil, TLSConfig, [TLSConfig EXCEPT !.secretName = ""]},
     password \in {Nil, [value |-> "secret", secretRef |-> Nil]},
     monitoring \in {Nil, Monitoring(0), Monitoring(443)},
     service \in {Nil, [type |-> "", port |-> 0], [type |-> "NodePort", port |-> 9121]},
     storage \in {Nil, [size |-> "10K", storageClass |-> "fast-ssd"]}}

\* The quick start with one section changed.
SectionsAlone ==
    {[QuickStart EXCEPT !.replicas = replicas] : replicas \in {1, 11}}
    \cup {[QuickStart EXCEPT !.image = image] : image \in {"eqalpha/keydb:v6.3.4", "keydb"}}
    \cup {[ClusterMode EXCEPT !.cluster = cluster] :
              cluster \in {Nil, [shards |-> 1, replicasPerShard |-> 0]}}
    \cup {[QuickStart EXCEPT !.config = config] : config \in
              {[NoConfig EXCEPT !.maxMemory = "512"],
               [NoConfig EXCEPT !.requirePass = [value |-> "", secretRef |-> Nil]],
               [NoConfig EXCEPT !.customConfig = "maxclients" :> "0"],
               [NoConfig EXCEPT !.customConfig = "Port" :> "10000"],
               [NoConfig EXCEPT !.customConfig = "timeout" :> "many"],
               [NoConfig EXCEPT !.customConfig = "timeout" :> "300" @@ "loglevel" :> "many"],
               TLSElsewhere}}
    \cup {[QuickStart EXCEPT !.resources = [cpu |-> "1", memory |-> "1Gi", other |-> "0"]],
          [QuickStart EXCEPT !.upgrade = [strategy |-> "Canary", maxUnavailable |-> 1,
                                          validationTimeoutSeconds |-> 300]],
          [QuickStart EXCEPT !.podDisruptionBudget =
                                 [minAvailable |-> 2, maxUnavailable |-> Nil]],
          [QuickStart EXCEPT !.podDisruptionBudget =
                                 [minAvailable |-> Nil, maxUnavailable |-> Nil]],
          [QuickStart EXCEPT !.storage.size = ""],
          [QuickStart EXCEPT !.storage.size = "ten"],
          [QuickStart EXCEPT !.livenessProbe = [Probe EXCEPT !.enabled = FALSE],
                             !.readinessProbe = [Probe EXCEPT !.exec = "true"]],
          [QuickStart EXCEPT !.livenessProbe = [Probe EXCEPT !.timings = 0]]}

AllSpecs == SectionsCombined \cup SectionsAlone \cup {WithTLSAndMonitoring}

\* The quick start with everything changed that reconcileStatefulSet looks at.
EditedQuickStart ==
    [QuickStart EXCEPT
        !.replicas = 1,
        !.image = "eqalpha/keydb:v6.3.4",
        !.resources = [cpu |-> "1", memory |-> "1Gi", other |-> "0"],
        !.livenessProbe = [Probe EXCEPT !.enabled = FALSE],
        !.readinessProbe = [Probe EXCEPT !.exec = "true"]]

Edited == {EditedQuickStart}

OneSpec == {QuickStart}

\* What is there from the start has another mode than the first cluster.
SomeLeftovers == [kind : {"ConfigMap", "StatefulSet"}, spec : {setDefaults(ClusterMode)}]

TLSExample == {WithTLSAndMonitoring}

\* The quick start opened to the outside.
WithNodePort == {[QuickStart EXCEPT !.service = [type |-> "NodePort", port |-> 6379]]}
=============================================================================
