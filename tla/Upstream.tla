------------------------------ MODULE Upstream ------------------------------
(***************************************************************************)
(* The way out of the gateway: the startup that builds it and the routing  *)
(* of a request to its service, the proxy's breaker and retry loop, the    *)
(* mTLS agent it sends with, and the stripping of what comes back.  They   *)
(* share no variable, so a step of one is a stutter of the others and each *)
(* property speaks of one of them: a behaviour here moves the component    *)
(* `part' names and keeps the others where they start.                     *)
(***************************************************************************)
EXTENDS Integers, FiniteSets, Sequences

CONSTANTS Forwarded, MaxRetries, VolumeThreshold, ErrorThreshold,
          Files, Senders, MaxVersion,
          Environments, Routes, Addresses,
          FieldPolicies, Names, MaxItems, Json, ServedPaths, Callers

VARIABLES part,
          breaker, call, loop, attempt, sent, reply,
          disk, missing, cache, load, req, last, poll, up,
          phase, env, tables, migrated, registry, breakers, ready, routed, dns, seen,
          fieldPolicy, booted, request, stripped, removed

Routing == INSTANCE ServiceRouting
             WITH Envs <- Environments, Clients <- Senders, Paths <- Routes, call <- routed
Proxy == INSTANCE UpstreamProxy WITH Requests <- Forwarded
Cert == INSTANCE CertRotation WITH Requests <- Senders
Strip == INSTANCE Bopla WITH Policies <- FieldPolicies, Paths <- ServedPaths,
                             RoleLists <- Callers, PassThrough <- "*", Admin <- "admin"

ASSUME UpstreamAssumption ==
    /\ Routing!RoutingAssumption /\ Proxy!ProxyAssumption /\ Cert!RotationAssumption
    /\ Strip!BoplaAssumption

proxyVars == <<breaker, call, loop, attempt, sent, reply>>
certVars == <<disk, missing, cache, load, req, last, poll, up>>
routingVars == <<phase, env, tables, migrated, registry, breakers, ready, routed, dns, seen>>
stripVars == <<fieldPolicy, booted, request, stripped, removed>>

vars == <<part, proxyVars, certVars, routingVars, stripVars>>

Init ==
    /\ part \in {"routing", "proxy", "cert", "strip"}
    /\ Proxy!Init /\ Cert!Init /\ Routing!RoutingInit /\ Strip!Init

RoutingOnly == part = "routing" /\ UNCHANGED <<part, proxyVars, certVars, stripVars>>
ProxyOnly == part = "proxy" /\ UNCHANGED <<part, certVars, routingVars, stripVars>>
CertOnly == part = "cert" /\ UNCHANGED <<part, proxyVars, routingVars, stripVars>>
StripOnly == part = "strip" /\ UNCHANGED <<part, proxyVars, certVars, routingVars>>

Next ==
    \/ RoutingOnly /\ Routing!RoutingNext
    \/ ProxyOnly /\ Proxy!Next
    \/ CertOnly /\ Cert!Next
    \/ StripOnly /\ Strip!Next

(* Cert!Fairness, for the behaviours that move the certificates *)
Fairness ==
    /\ WF_vars(CertOnly /\ Cert!Monitor)
    /\ WF_vars(CertOnly /\ Cert!LoadStep("monitor"))
    /\ WF_vars(CertOnly /\ (Cert!MonitorLoaded \/ Cert!MonitorFails))
    /\ WF_vars(CertOnly /\ Cert!Restart)
    /\ \A f \in Files : WF_vars(CertOnly /\ Cert!Create(f))

Spec == Init /\ [][Next]_vars /\ Fairness

-----------------------------------------------------------------------------

(* Types of the components. *)
TypeOK == Routing!RoutingTypeOK /\ Proxy!TypeOK /\ Cert!TypeOK /\ Strip!TypeOK

(* The port opens only on a migrated database, an accepted configuration   *)
(* and a breaker per registered service (bootstrap, onModuleInit hooks).   *)
ListeningMeansReady == Routing!ListeningMeansReady

(* forward() fires the breaker of the service its path names, after a      *)
(* fresh lookup of its own, for the registered host unless an empty path   *)
(* segment lets the path name another, and never misses a breaker.         *)
RoutedAsRegistered == Routing!RoutedAsRegistered

(* "A target absent from the registry is never contacted" (CONTEXT.md:116).*)
OnlyRegisteredContacted == Routing!OnlyRegisteredContacted

(* A request costs the breaker at most one failure (executeWithRetry). *)
OneFailurePerFire == Proxy!OneFailurePerFire

(* getHttpsAgent returns a complete agent, and whoever awaits reloadPromise *)
(* awaits a load that is still running.                                    *)
AgentsDelivered == Cert!AgentsDelivered

(* The client gets exactly what the field policy grants the first of its   *)
(* roles that it maps, at any depth (BoPlaInterceptor.strip).              *)
ServedIsGranted == Strip!ServedIsGranted

(* "Highest-privilege role wins among the caller's roles"                  *)
(* (bopla.interceptor.ts:68).                                              *)
HighestPrivilegeWins == Strip!HighestPrivilegeWins

(* checkFiles notices every rotation, whatever fails or crashes meanwhile. *)
EveryRotationNoticed == Cert!EveryRotationNoticed

=============================================================================
