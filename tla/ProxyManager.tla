---------------------------- MODULE ProxyManager ----------------------------
(***************************************************************************)
(* proxy.Manager and proxy.Route (proxy/manager.go, proxy/route.go): the   *)
(* goroutine that installs new configurations with SetRoutes, the          *)
(* goroutines that run CheckCertificates (the monitor and one started by   *)
(* every SetRoutes), and behind them a certificate provider.  What the     *)
(* lookups of concurrent requests see of it is module RouteTable.          *)
(*                                                                         *)
(* Every SetRoutes gets fresh Route objects, so a route is identified by   *)
(* the number of the load that created it and its position.  A pointer to  *)
(* a map or slice of routes is the number of the load that stored it.      *)
(*                                                                         *)
(* The provider issues certificates of growing generations per name; those *)
(* up to "due" want renewal, those up to "dead" have expired.              *)
(***************************************************************************)
EXTENDS Naturals, Sequences

CONSTANTS
  Domains,      \* host names of requests
  Names,        \* certificate names of routes
  Configs,      \* configurations that may be loaded
  Providing,    \* whether the manager has a certificate provider: possible answers
  ReadFaults,   \* whether the provider may fail to read its store
  MaxLoads,     \* bound: number of SetRoutes calls
  MaxGen        \* bound: number of certificates issued per name

\* CertificateStatus
NotChecked   == 0
Missing      == 1
ExpiringSoon == 2
Good         == 3
NotRequired  == 4

NoCert == 0    \* a nil certificate
NoRoute == <<0, 0>>

Loads    == 1..MaxLoads
Monitor  == 0                  \* MonitorCertificates; load v starts checker v
Checkers == {Monitor} \cup Loads

\* A configuration lists its routes, each with the name of its certificate
\* and its domains, and the position of the fallback (0: none).  It is not
\* valid if one of its domains is no domain name.
ASSUME ConfigAssumption ==
  /\ Providing \subseteq BOOLEAN /\ ReadFaults \in BOOLEAN
  /\ MaxLoads \in Nat /\ MaxGen \in Nat
  /\ \A c \in Configs :
       /\ c.routes \in Seq([name : Names, domains : SUBSET Domains])
       /\ c.fallback \in {0} \cup DOMAIN c.routes
       /\ c.valid \in BOOLEAN

VARIABLES
  hasProvider,  \* Manager.provider is not nil
  loads,     \* number of SetRoutes calls so far
  config,    \* the configuration of each load
  spc, si,   \* SetRoutes: control state and position in its loop
  domains,   \* routeMap.domains: the load whose map is stored, 0 for nil
  routes,    \* routeMap.routes: likewise
  fallback,  \* Manager.fallback: likewise
  cert,      \* Route.certificate of each route
  status,    \* Route.certificateStatus of each route
  latest, due, dead,  \* the provider, per name
  kpc,       \* per checker: control state
  klist, ki, \* the snapshot it walks through, and its position
  kcert, kstatus,  \* what it is about to store
  keep,      \* domains SetRoutes must not stop serving (history)
  overlap,   \* routes that two checkers worked on at once (history)
  unread     \* routes whose stored certificate could not be read (history)

setVars      == <<hasProvider, loads, config, spc, si, keep>>
tableVars    == <<domains, routes, fallback>>
routeVars    == <<cert, status, unread>>
providerVars == <<latest, due, dead>>
checkVars    == <<kpc, klist, ki, kcert, kstatus, overlap>>
vars == <<setVars, tableVars, routeVars, providerVars, checkVars>>

Positions == UNION {DOMAIN c.routes : c \in Configs}
Routes    == Loads \X Positions

Init ==
  /\ hasProvider \in Providing
  /\ loads = 0 /\ config = <<>>
  /\ spc = "idle" /\ si = 0
  /\ domains = 0 /\ routes = 0 /\ fallback = 0
  /\ cert = [r \in Routes |-> NoCert]
  /\ status = [r \in Routes |-> NotChecked]
  /\ latest \in [Names -> {0, 1} \cap 0..MaxGen]
  /\ due = [n \in Names |-> 0]
  /\ dead = [n \in Names |-> 0]
  /\ kpc = [k \in Checkers |-> "idle"]
  /\ klist = [k \in Checkers |-> 0]
  /\ ki = [k \in Checkers |-> 0]
  /\ kcert = [k \in Checkers |-> NoCert]
  /\ kstatus = [k \in Checkers |-> NotChecked]
  /\ keep = {}
  /\ overlap = {}
  /\ unread = {}

-----------------------------------------------------------------------------
(***************************************************************************)
(* Reading a configuration.                                                *)
(***************************************************************************)
RouteCount(v) == IF v = 0 THEN 0 ELSE Len(config[v].routes)
NameOf(r)     == config[r[1]].routes[r[2]].name

\* newDomains: of the routes that list a domain the last one gets it.
Listing(v, d) == {i \in 1..RouteCount(v) : d \in config[v].routes[i].domains}
Match(v, d) ==
  IF Listing(v, d) = {} THEN NoRoute
  ELSE <<v, CHOOSE i \in Listing(v, d) : \A j \in Listing(v, d) : j <= i>>

FallbackRoute(v) ==
  IF v = 0 \/ config[v].fallback = 0 THEN NoRoute ELSE <<v, config[v].fallback>>

\* RouteForDomain finds a route by its domain and does not hold it back.
Serves(d) == Match(domains, d) # NoRoute /\ status[Match(domains, d)] > Missing

(***************************************************************************)
(* The provider.  GetExistingCertificate: certificate and status that      *)
(* loadCertificate makes of its results.                                   *)
(***************************************************************************)
\* Mutant: a certificate that needs renewal is not found.
OnlyGood(n) ==
  IF latest[n] > due[n] THEN <<latest[n], Good>> ELSE <<NoCert, Missing>>

Existing(n) ==
  IF latest[n] <= dead[n] THEN <<NoCert, Missing>>
  ELSE IF latest[n] <= due[n] THEN <<latest[n], ExpiringSoon>>
  ELSE <<latest[n], Good>>

\* It also fails if the store cannot be read.
ExistingFor(r, x) ==
  \/ x = Existing(NameOf(r)) /\ UNCHANGED unread
  \/ ReadFaults /\ x = <<NoCert, Missing>> /\ unread' = unread \cup {r}

\* A stored certificate comes to need renewal, and expires.
NeedRenewal(n) ==
  /\ hasProvider
  /\ due[n] < latest[n] /\ latest[n] < MaxGen
  /\ due' = [due EXCEPT ![n] = latest[n]]
  /\ UNCHANGED <<setVars, tableVars, routeVars, latest, dead, checkVars>>

Expire(n) ==
  /\ dead[n] < due[n]
  /\ dead' = [dead EXCEPT ![n] = due[n]]
  /\ keep' = {d \in keep : NameOf(Match(domains, d)) # n}
  /\ UNCHANGED <<hasProvider, loads, config, spc, si, tableVars, routeVars, latest, due, checkVars>>

-----------------------------------------------------------------------------
(***************************************************************************)
(* SetRoutes.  Its routes are not visible to others while it loads their   *)
(* certificates, so loadCertificate is one step here.                      *)
(***************************************************************************)
SetRoutes(c) ==
  /\ spc = "idle"
  /\ loads < MaxLoads
  /\ loads' = loads + 1
  /\ config' = Append(config, c)
  /\ spc' = "loading"
  /\ si' = 1
  /\ keep' = {d \in Domains :
                /\ Serves(d)
                /\ LET n == NameOf(Match(domains, d)) IN
                     /\ latest[n] > dead[n]
                     /\ \E i \in DOMAIN c.routes : d \in c.routes[i].domains
                     /\ \A i \in DOMAIN c.routes :
                          d \in c.routes[i].domains => c.routes[i].name = n}
  /\ UNCHANGED <<hasProvider, tableVars, routeVars, providerVars, checkVars>>

LoadCertificate ==
  /\ spc = "loading"
  /\ si <= RouteCount(loads)
  /\ LET r == <<loads, si>> IN
       \/ /\ ~hasProvider
          /\ status' = [status EXCEPT ![r] = NotRequired]
          /\ UNCHANGED <<cert, unread>>
       \/ /\ hasProvider
          /\ \E x \in {Existing(NameOf(r)), <<NoCert, Missing>>} :
               /\ ExistingFor(r, x)
               /\ cert' = [cert EXCEPT ![r] = x[1]]
               /\ status' = [status EXCEPT ![r] = x[2]]
  /\ si' = si + 1
  /\ UNCHANGED <<hasProvider, loads, config, spc, keep, tableVars, providerVars, checkVars>>

\* routeMap.Update: an invalid domain name leaves everything as it was.
Accept(c) == c.valid

RejectRoutes ==
  /\ spc = "loading"
  /\ si > RouteCount(loads)
  /\ ~Accept(config[loads])
  /\ spc' = "idle"
  /\ si' = 0
  /\ keep' = {}
  /\ UNCHANGED <<hasProvider, loads, config, tableVars, routeVars, providerVars, checkVars>>

StoreDomains ==
  /\ spc = "loading"
  /\ si > RouteCount(loads)
  /\ Accept(config[loads])
  /\ domains' = loads
  /\ spc' = "storeRoutes"
  /\ si' = 0
  /\ UNCHANGED <<hasProvider, loads, config, keep, routes, fallback, routeVars, providerVars, checkVars>>

StoreRoutes ==
  /\ spc = "storeRoutes"
  /\ routes' = loads
  /\ spc' = "storeFallback"
  /\ UNCHANGED <<hasProvider, loads, config, si, keep, domains, fallback, routeVars, providerVars, checkVars>>

\* Mutant: a fallback that is set stays.
FirstFallback == IF fallback = 0 THEN loads ELSE fallback

\* The new fallback, nil included, and go m.CheckCertificates.
NewFallback == loads

StoreFallback ==
  /\ spc = "storeFallback"
  /\ fallback' = NewFallback
  /\ kpc' = [kpc EXCEPT ![loads] = "started"]
  /\ spc' = "idle"
  /\ keep' = {}
  /\ UNCHANGED <<hasProvider, loads, config, si, domains, routes, routeVars, providerVars,
                 klist, ki, kcert, kstatus, overlap>>

-----------------------------------------------------------------------------
(***************************************************************************)
(* CheckCertificates, by the monitor on a tick or by the goroutine that    *)
(* SetRoutes started.  It walks through the routes stored when it starts.  *)
(***************************************************************************)
Current(k) == <<klist[k], ki[k]>>

\* Checker k has begun updateCert for route r and not stored all results.
Busy(k, r) == kpc[k] \in {"load", "setCert", "setStatus"} /\ Current(k) = r

StartCheck(k) ==
  /\ kpc[k] = IF k = Monitor THEN "idle" ELSE "started"
  /\ IF RouteCount(routes) = 0
     THEN kpc' = [kpc EXCEPT ![k] = "idle"] /\ UNCHANGED <<klist, ki>>
     ELSE /\ kpc' = [kpc EXCEPT ![k] = "next"]
          /\ klist' = [klist EXCEPT ![k] = routes]
          /\ ki' = [ki EXCEPT ![k] = 1]
  /\ UNCHANGED <<setVars, tableVars, routeVars, providerVars, kcert, kstatus, overlap>>

\* Mutant: CheckCertificates stops after the first route.
FirstIsLast(k) == TRUE

AtLast(k) == ki[k] = RouteCount(klist[k])

\* On to the next route of the snapshot, or the end of CheckCertificates.
Advance(k) ==
  LET last == AtLast(k) IN
  /\ kpc' = [kpc EXCEPT ![k] = IF last THEN "idle" ELSE "next"]
  /\ klist' = [klist EXCEPT ![k] = IF last THEN 0 ELSE @]
  /\ ki' = [ki EXCEPT ![k] = IF last THEN 0 ELSE @ + 1]

CheckNotRequired(k) ==
  /\ kpc[k] = "next"
  /\ ~hasProvider
  /\ status' = [status EXCEPT ![Current(k)] = NotRequired]
  /\ Advance(k)
  /\ UNCHANGED <<setVars, tableVars, cert, unread, providerVars, kcert, kstatus, overlap>>

Will(k, c, s) ==
  /\ kcert' = [kcert EXCEPT ![k] = c]
  /\ kstatus' = [kstatus EXCEPT ![k] = s]
  /\ kpc' = [kpc EXCEPT ![k] = "setCert"]

NoteOverlap(k) ==
  overlap' = overlap \cup {r \in {Current(k)} : \E j \in Checkers \ {k} : Busy(j, r)}

\* updateCert: provider.GetCertificate returns the stored certificate or, if
\* that needs renewal, a new one.
GetCertificate(k) ==
  /\ kpc[k] = "next"
  /\ hasProvider
  /\ LET n == NameOf(Current(k)) IN
       /\ latest[n] > due[n] \/ latest[n] < MaxGen
       /\ latest' = IF latest[n] > due[n] THEN latest ELSE [latest EXCEPT ![n] = @ + 1]
       /\ Will(k, latest'[n], Good)
  /\ NoteOverlap(k)
  /\ UNCHANGED <<setVars, tableVars, routeVars, due, dead, klist, ki>>

\* Mutant: without a new certificate the route is given up.
GiveUp(k) ==
  /\ kpc[k] = "next"
  /\ hasProvider
  /\ Will(k, NoCert, Missing)
  /\ NoteOverlap(k)
  /\ UNCHANGED <<setVars, tableVars, routeVars, providerVars, klist, ki>>

\* It fails, and loadCertificate follows.
GetCertificateError(k) ==
  /\ kpc[k] = "next"
  /\ hasProvider
  /\ kpc' = [kpc EXCEPT ![k] = "load"]
  /\ NoteOverlap(k)
  /\ UNCHANGED <<setVars, tableVars, routeVars, providerVars, klist, ki, kcert, kstatus>>

GetExistingCertificate(k) ==
  /\ kpc[k] = "load"
  /\ \E x \in {Existing(NameOf(Current(k))), <<NoCert, Missing>>} :
       ExistingFor(Current(k), x) /\ Will(k, x[1], x[2])
  /\ UNCHANGED <<setVars, tableVars, cert, status, providerVars, klist, ki, overlap>>

\* Mutant: a nil certificate is not stored.
SomeCertificate(k) == IF kcert[k] = NoCert THEN cert[Current(k)] ELSE kcert[k]

NewCertificate(k) == kcert[k]

SetCertificate(k) ==
  /\ kpc[k] = "setCert"
  /\ cert' = [cert EXCEPT ![Current(k)] = NewCertificate(k)]
  /\ kpc' = [kpc EXCEPT ![k] = "setStatus"]
  /\ kcert' = [kcert EXCEPT ![k] = NoCert]
  /\ UNCHANGED <<setVars, tableVars, status, unread, providerVars, klist, ki, kstatus, overlap>>

SetCertificateStatus(k) ==
  /\ kpc[k] = "setStatus"
  /\ status' = [status EXCEPT ![Current(k)] = kstatus[k]]
  /\ kstatus' = [kstatus EXCEPT ![k] = NotChecked]
  /\ Advance(k)
  /\ UNCHANGED <<setVars, tableVars, cert, unread, providerVars, kcert, overlap>>

-----------------------------------------------------------------------------
SetRoutesStep ==
  LoadCertificate \/ RejectRoutes \/ StoreDomains \/ StoreRoutes \/ StoreFallback

CheckStep(k) ==
  \/ StartCheck(k) \/ CheckNotRequired(k)
  \/ GetCertificate(k) \/ GetCertificateError(k) \/ GetExistingCertificate(k)
  \/ SetCertificate(k) \/ SetCertificateStatus(k)

Next ==
  \/ \E c \in Configs : SetRoutes(c)
  \/ SetRoutesStep
  \/ \E k \in Checkers : CheckStep(k)
  \/ \E n \in Names : NeedRenewal(n) \/ Expire(n)

Spec == Init /\ [][Next]_vars

(***************************************************************************)
(* The goroutines keep running, the ticker of the monitor keeps firing,    *)
(* and a provider asked again and again for the same certificate sometimes *)
(* succeeds.                                                               *)
(***************************************************************************)
FairSpec ==
  /\ Spec
  /\ WF_vars(SetRoutesStep)
  /\ \A k \in Checkers :
       /\ WF_vars(CheckStep(k))
       /\ \A i \in Positions : SF_vars(ki[k] = i /\ GetCertificate(k))

-----------------------------------------------------------------------------
(***************************************************************************)
(* A reload keeps serving: a domain that was served with a certificate     *)
(* valid in the store when SetRoutes was called, and whose route in the    *)
(* new configuration wants the same certificate, is served by the new      *)
(* routes from the moment they are published, unless the store could not   *)
(* be read for that very route.                                            *)
(***************************************************************************)
ReloadKeepsServing ==
  [][domains' # domains =>
       \A d \in keep : Serves(d)' \/ Match(loads, d) \in unread]_vars

(***************************************************************************)
(* While no two checks work on a route at once and the store can be read,  *)
(* a failed check never takes a valid certificate from a route nor puts    *)
(* back an older one.                                                      *)
(***************************************************************************)
ValidCertKept ==
  [][\A r \in Routes \ (overlap' \cup unread) :
       r[1] <= loads /\ cert[r] # cert'[r] /\ cert[r] > dead[NameOf(r)]
         => cert'[r] > cert[r]]_vars

(***************************************************************************)
(* While no two checks work on a route at once, and even if the store      *)
(* cannot be read, a route that no check is working on has a status that   *)
(* allows it to be served over TLS exactly if it has a certificate.        *)
(***************************************************************************)
StatusMatchesCert ==
  \A r \in Routes \ overlap :
    (\A k \in Checkers : ~Busy(k, r)) =>
      (status[r] \in {ExpiringSoon, Good} <=> cert[r] # NoCert)

(***************************************************************************)
(* However checks overlapped and failed, once the provider's certificates  *)
(* stay good every route in use ends up Good with the newest certificate.  *)
(***************************************************************************)
EventuallyFresh ==
  <>[](\A i \in 1..RouteCount(routes) :
         /\ status[<<routes, i>>] = Good
         /\ cert[<<routes, i>>] = latest[NameOf(<<routes, i>>)])

(***************************************************************************)
(* Requests see what RouteTable describes: configurations that were        *)
(* accepted, published whole, map before fallback, with nothing of the one *)
(* before left once SetRoutes has returned.                                *)
(***************************************************************************)
\* The last load that SetRoutes has completed without an error.
Installed ==
  LET done == {0} \cup {v \in 1..loads : config[v].valid /\ (v < loads \/ spc = "idle")} IN
  CHOOSE v \in done : \A u \in done : u <= v

Table == INSTANCE RouteTable WITH
  config    <- IF spc = "loading" THEN SubSeq(config, 1, loads - 1) ELSE config,
  installed <- Installed,
  serving   <- {r \in Routes : /\ r[1] \in {domains, fallback}
                               /\ r[2] <= RouteCount(r[1])
                               /\ status[r] > Missing}

ImplementsTable == Table!TableSpec
=============================================================================
