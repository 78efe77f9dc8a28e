----------------------------- MODULE RouteTable -----------------------------
(***************************************************************************)
(* What requests see of proxy.Manager (proxy/manager.go): configurations   *)
(* that replace each other in two steps, the map of domains first and the  *)
(* fallback after it, and routes that are served or held back, which the   *)
(* certificate checks may change at any time.  ProxyManager implements     *)
(* this specification; RequestPath runs requests over it.                  *)
(*                                                                         *)
(* A route is identified by the number of the configuration that brought   *)
(* it and its position there.                                              *)
(***************************************************************************)
EXTENDS Naturals, Sequences

CONSTANTS
  Configs,  \* configurations that may be loaded: routes, fallback, valid
  MaxLoads  \* bound: number of loads

VARIABLES
  config,     \* the configurations loaded so far, refused ones included
  domains,    \* the one whose map of domains is stored, 0 for none
  fallback,   \* the one whose fallback is stored
  installed,  \* the last one whose SetRoutes has returned without an error
  serving     \* routes in the table that are not held back

tableVars == <<config, domains, fallback, installed, serving>>

NoRoute == <<0, 0>>

RoutesOf(v) == IF v = 0 THEN {} ELSE {<<v, i>> : i \in DOMAIN config[v].routes}

TableTypeOK ==
  /\ Len(config) <= MaxLoads /\ \A v \in DOMAIN config : config[v] \in Configs
  /\ {domains, fallback, installed} \subseteq {0} \cup {v \in DOMAIN config : config[v].valid}
  /\ serving \subseteq RoutesOf(domains) \cup RoutesOf(fallback)

TableInit ==
  /\ config = <<>>
  /\ domains = 0 /\ fallback = 0 /\ installed = 0
  /\ serving = {}

\* SetRoutes is between its two steps; it is never called twice at once.
Publishing == domains # installed

\* SetRoutes returns an error.
Refuse(c) ==
  /\ ~Publishing
  /\ Len(config) < MaxLoads
  /\ ~c.valid
  /\ config' = Append(config, c)
  /\ UNCHANGED <<domains, fallback, installed, serving>>

PublishDomains(c) ==
  /\ ~Publishing
  /\ Len(config) < MaxLoads
  /\ c.valid
  /\ config' = Append(config, c)
  /\ domains' = Len(config')
  /\ \E new \in SUBSET (DOMAIN c.routes) :
       serving' = (serving \cap RoutesOf(fallback)) \cup {<<domains', i>> : i \in new}
  /\ UNCHANGED <<fallback, installed>>

\* Mutant: a configuration without fallback leaves the old one in place.
PublishSomeFallback ==
  /\ Publishing
  /\ fallback' = IF config[domains].fallback = 0 THEN fallback ELSE domains
  /\ installed' = domains
  /\ UNCHANGED <<config, domains, serving>>

PublishFallback ==
  /\ Publishing
  /\ fallback' = domains
  /\ installed' = domains
  /\ serving' = serving \cap RoutesOf(domains)
  /\ UNCHANGED <<config, domains>>

\* CheckCertificates changes the status of a route.
Check ==
  /\ \E r \in RoutesOf(domains) \cup RoutesOf(fallback) :
       serving' = IF r \in serving THEN serving \ {r} ELSE serving \cup {r}
  /\ UNCHANGED <<config, domains, fallback, installed>>

TableNext ==
  \/ \E c \in Configs : Refuse(c) \/ PublishDomains(c)
  \/ PublishFallback
  \/ Check

TableSpec == TableInit /\ [][TableNext]_tableVars
=============================================================================
