-------------------------- MODULE DocumentedChildren --------------------------
(***************************************************************************)
(* What the README and comments of the code say of a KeyDBCluster's        *)
(* children, stated over Children.  The code does otherwise: TLC finds a   *)
(* counterexample to each.                                                 *)
(***************************************************************************)
EXTENDS Children

\* Where the default commands of the probes can be answered: the server listens
\* on the port they ask, wants no password, and has the role they ask for.
CanBecomeReady(conf, readiness) ==
    readiness # Nil /\ readiness.command \in {"role is active-replica", "loaded"} =>
        /\ conf["port"] = "6379"
        /\ "requirepass" \notin DOMAIN conf
        /\ readiness.command = "role is active-replica" => "active-replica" \in DOMAIN conf

\* "Multi-Master Configuration with TLS and Monitoring" is a configuration that
\* works: with the children that the operator makes of it, pods can become
\* ready.  With TLS the server does not listen on the port of the probes.
PodsCanBecomeReady ==
    Exists(children["StatefulSet"]) =>
        CanBecomeReady(children["ConfigMap"].content.conf,
                       children["StatefulSet"].content.readiness)

\* README: the controller "creates/updates ConfigMaps, StatefulSets, Services,
\* and PodDisruptionBudgets": sooner or later the Services are those of the spec.
\* reconcileServices creates them, and leaves them as they are from then on.
ServicesAreUpdated ==
    LET spec == setDefaults(cr.spec) IN
    <>[](cr.life = "managed" /\ IsBuildable(spec) =>
             \A kind \in {"HeadlessService", "ClientService"} :
                 children[kind].content \in Generated(kind, spec))
=============================================================================
