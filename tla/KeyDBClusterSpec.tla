--------------------------- MODULE KeyDBClusterSpec ---------------------------
(***************************************************************************)
(* The spec of a KeyDBCluster (api/v1alpha1/keydbcluster_types.go), the    *)
(* defaults that Reconcile fills in, and what ValidateKeyDBCluster         *)
(* (internal/validation/validator.go) accepts.                             *)
(*                                                                         *)
(* Names, images and sizes are members of small sets, of which a regular   *)
(* expression of the validator is a subset.  Left out, because nothing but *)
(* a copy is ever made of them: the service's annotations, the labels of   *)
(* the ServiceMonitor (which nothing creates), the topology spread, and    *)
(* whether KeyDB asks its clients for certificates.                        *)
(***************************************************************************)
EXTENDS Integers

CONSTANT Nil \* an optional section that is not there

ASSUME NilAssumption == Nil \notin STRING /\ Nil \notin Nat

Optional(S) == S \cup {Nil}

Modes == {"multi-master", "cluster"}

\* customConfig in play: a reserved key, as it is and in capitals, those whose
\* values are checked, and others.
CustomKeys == {"port", "Port", "timeout", "maxclients", "tcp-keepalive", "loglevel",
               "tls-port", "tls-cert-file"}

CustomValues == {"0", "300", "10000", "many"}

PasswordConfigs ==
    [value : STRING, secretRef : Optional([name : STRING, key : STRING])]

TLSConfigs == [enabled : BOOLEAN, secretName : STRING]

KeyDBConfigs ==
    [maxMemory : STRING, persistence : BOOLEAN,
     requirePass : Optional(PasswordConfigs),
     tls : Optional(TLSConfigs),
     customConfig : UNION {[keys -> CustomValues] : keys \in SUBSET CustomKeys}]

MonitoringConfigs == [enabled : BOOLEAN, port : Nat]

UpgradeConfigs ==
    [strategy : STRING, maxUnavailable : Int, validationTimeoutSeconds : Int]

MultiMasterConfigs == [activeReplica : BOOLEAN]

\* The API server wants a shard at least.
ClusterConfigs == [shards : Nat \ {0}, replicasPerShard : Nat]

StorageConfigs == [size : STRING, storageClass : STRING]

ServiceConfigs == [type : STRING, port : Nat]

\* exec is "" for no command.  timings stands for the five numbers, of which the
\* CRD has defaults but no minimum: 0 is for a zero among the last four.
ProbeConfigs == [enabled : BOOLEAN, exec : STRING, timings : Nat]

PodDisruptionBudgetConfigs ==
    [minAvailable : Optional(Nat), maxUnavailable : Optional(Nat)]

\* What the API server admits, with the defaults of the CRD filled in.  Resources
\* are compared by cpu and memory only; other stands for the rest of them.
KeyDBClusterSpecs ==
    [mode : Modes,
     replicas : Nat \ {0},
     image : STRING,
     multiMaster : Optional(MultiMasterConfigs),
     cluster : Optional(ClusterConfigs),
     config : Optional(KeyDBConfigs),
     resources : Optional([cpu : STRING, memory : STRING, other : STRING]),
     storage : Optional(StorageConfigs),
     service : Optional(ServiceConfigs),
     monitoring : Optional(MonitoringConfigs),
     upgrade : Optional(UpgradeConfigs),
     podDisruptionBudget : Optional(PodDisruptionBudgetConfigs),
     livenessProbe : Optional(ProbeConfigs),
     readinessProbe : Optional(ProbeConfigs)]

NoConfig ==
    [maxMemory |-> "", persistence |-> TRUE, requirePass |-> Nil, tls |-> Nil,
     customConfig |-> [key \in {} |-> ""]]

\* On the copy that Reconcile works with: the defaults are never written back.
setDefaults(spec) ==
    [spec EXCEPT
        !.image = IF @ = "" THEN "eqalpha/keydb:latest" ELSE @,
        !.replicas = IF @ = 0 THEN 3 ELSE @,
        !.storage = IF @ = Nil THEN [size |-> "10Gi", storageClass |-> ""] ELSE @,
        !.service = IF @ = Nil THEN [type |-> "ClusterIP", port |-> 6379] ELSE @,
        !.config = IF @ = Nil THEN NoConfig ELSE @]

-----------------------------------------------------------------------------
\* ValidateKeyDBCluster, of a spec with its defaults.

\* Of the images in play: those with one colon and no digest.
ImageRegex == {"eqalpha/keydb:latest", "eqalpha/keydb:v6.3.4"}

MemoryRegex == {"512mb", "2gb"}

StorageRegex == {"10Gi", "20Gi", "10K"}

Reserved ==
    {"port", "bind", "daemonize", "pidfile", "logfile", "dir", "dbfilename",
     "cluster-enabled", "cluster-config-file", "multi-master", "active-replica"}

\* Of the keys in play.
toLower(key) == IF key = "Port" THEN "port" ELSE key

\* strconv.Atoi on the values in play.
Numbers == {"0", "300", "10000"}

validateMultiMasterMode(spec) == spec.replicas \in 1 .. 10

validateClusterMode(spec) ==
    /\ spec.cluster # Nil
    /\ spec.cluster.shards \in 3 .. 1000
    /\ spec.cluster.replicasPerShard \in 0 .. 5

validateMode(spec) ==
    \/ spec.mode = "multi-master" /\ validateMultiMasterMode(spec)
    \/ spec.mode = "cluster" /\ validateClusterMode(spec)

validatePassword(password) ==
    /\ (password.value # "") # (password.secretRef # Nil)
    /\ password.secretRef # Nil =>
           password.secretRef.name # "" /\ password.secretRef.key # ""

validateCustomConfigParam(key, value) ==
    /\ toLower(key) \notin Reserved
    /\ toLower(key) \in {"timeout", "tcp-keepalive"} => value \in Numbers
    /\ toLower(key) = "maxclients" => value \in Numbers \ {"0"}

validateConfig(config) ==
    /\ config.maxMemory \in MemoryRegex \cup {""}
    /\ config.requirePass # Nil => validatePassword(config.requirePass)
    /\ \A key \in DOMAIN config.customConfig :
           validateCustomConfigParam(key, config.customConfig[key])

validateStorage(storage) == storage.size \in StorageRegex \cup {""}

validateTLS(tls) == tls # Nil /\ tls.enabled => tls.secretName # ""

validateMonitoring(monitoring) ==
    monitoring # Nil => monitoring.port \in (1024 .. 65535) \cup {0}

validateUpgrade(upgrade) ==
    upgrade # Nil =>
        /\ upgrade.strategy \in {"", "RollingUpdate", "Recreate"}
        /\ upgrade.maxUnavailable >= 0
        /\ upgrade.validationTimeoutSeconds >= 0

ValidateKeyDBCluster(spec) ==
    /\ validateMode(spec)
    /\ spec.replicas >= 1
    /\ spec.image \in ImageRegex
    /\ validateConfig(spec.config)
    /\ validateStorage(spec.storage)
    /\ validateTLS(spec.config.tls)
    /\ validateMonitoring(spec.monitoring)
    /\ validateUpgrade(spec.upgrade)
=============================================================================
