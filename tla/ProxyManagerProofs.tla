------------------------- MODULE ProxyManagerProofs -------------------------
(***************************************************************************)
(* Proofs about ProxyManager, for any configurations, number of loads and  *)
(* certificates that satisfy ConfigAssumption.                             *)
(***************************************************************************)
EXTENDS ProxyManager, WellFoundedInduction, TLAPS

Servable == {ExpiringSoon, Good}
Updating == {"load", "setCert", "setStatus"}

\* Certificates wanted by n in order of age: expired, due, newest.
ProviderTyped ==
  /\ latest \in [Names -> Nat] /\ due \in [Names -> Nat] /\ dead \in [Names -> Nat]
  /\ \A n \in Names : dead[n] <= due[n] /\ due[n] <= latest[n]

Typed ==
  /\ hasProvider \in BOOLEAN
  /\ config \in Seq(Configs) /\ loads = Len(config) /\ si \in Nat
  /\ routes \in 0..loads
  /\ cert \in [Routes -> Nat] /\ status \in [Routes -> Nat]
  /\ ProviderTyped
  /\ kpc \in [Checkers -> {"idle", "started", "next"} \cup Updating]
  /\ klist \in [Checkers -> 0..loads] /\ ki \in [Checkers -> Nat]
  /\ kcert \in [Checkers -> Nat] /\ kstatus \in [Checkers -> Nat]

\* Route r is one of a configuration that was loaded.
Exists(r) == r[1] \in 1..loads /\ r[2] \in 1..Len(config[r[1]].routes)

(***************************************************************************)
(* The routes that SetRoutes is loading are its own: no check has seen     *)
(* them, and those it has not come to have no certificate.  Other          *)
(* certificates are those of existing routes and not newer than the        *)
(* newest.  Without a provider there are none.                             *)
(***************************************************************************)
Private ==
  spc = "loading" =>
    /\ loads > 0 /\ si > 0
    /\ routes < loads /\ \A k \in Checkers : klist[k] < loads
    /\ \A r \in Routes : r[1] = loads /\ r[2] >= si => cert[r] = NoCert

Obtained == \A r \in Routes : cert[r] # NoCert => Exists(r) /\ cert[r] <= latest[NameOf(r)]

\* Load v starts checker v when SetRoutes returns.
Unstarted ==
  /\ spc # "idle" => loads > 0
  /\ \A k \in Checkers \ {Monitor} : k > loads \/ (k = loads /\ spc # "idle") => kpc[k] = "idle"

Without ==
  ~hasProvider => /\ \A r \in Routes : cert[r] = NoCert
                  /\ \A k \in Checkers : kpc[k] \notin Updating

(***************************************************************************)
(* Two checks work on one route only if that is noted.  A check that is    *)
(* alone on a route has a pair of certificate and status that match, or    *)
(* has stored the certificate of such a pair; what it is about to store is *)
(* no older than what the route has, unless that has expired.              *)
(***************************************************************************)
Alone == \A j, k \in Checkers : j # k /\ kpc[j] \in Updating /\ kpc[k] \in Updating /\ Current(j) = Current(k)
                                  => Current(k) \in overlap

Walks(k) == kpc[k] \notin {"idle", "started"} => Exists(Current(k))

Matching(k) ==
  /\ kpc[k] = "setCert" => (kstatus[k] \in Servable <=> kcert[k] # NoCert)
  /\ kpc[k] = "setStatus" /\ Current(k) \in Routes \ overlap
       => (kstatus[k] \in Servable <=> cert[Current(k)] # NoCert)

Newer(k) ==
  kpc[k] = "setCert" =>
    LET r == Current(k) IN
    /\ kcert[k] <= latest[NameOf(r)]
    /\ r \in Routes \ (overlap \cup unread) => kcert[k] >= cert[r] \/ cert[r] <= dead[NameOf(r)]

CheckInv(k) == Walks(k) /\ Matching(k) /\ Newer(k)

ProxyInv ==
  /\ Typed /\ Private /\ Unstarted /\ Obtained /\ Without /\ Alone
  /\ \A k \in Checkers : CheckInv(k)
  /\ StatusMatchesCert

-----------------------------------------------------------------------------
(***************************************************************************)
(* Positions of routes are numbers.                                        *)
(***************************************************************************)
LEMMA PositionsAre == Positions \subseteq Nat \ {0}
  <1> SUFFICES ASSUME NEW c \in Configs, NEW i \in DOMAIN c.routes PROVE i \in Nat \ {0}
      BY Zenon DEF Positions
  <1>1. c.routes \in Seq([name : Names, domains : SUBSET Domains])
        BY ConfigAssumption, Zenon
  <1> QED
        BY <1>1

(***************************************************************************)
(* Existing routes want certificates of known names.                       *)
(***************************************************************************)
LEMMA NamesKnown ==
  ASSUME Typed, NEW r, Exists(r)
  PROVE  NameOf(r) \in Names
  <1>1. config[r[1]] \in Configs
        BY DEF Typed, Exists
  <1>2. config[r[1]].routes \in Seq([name : Names, domains : SUBSET Domains])
        BY <1>1, ConfigAssumption, Zenon
  <1>3. config[r[1]].routes[r[2]] \in [name : Names, domains : SUBSET Domains]
    <2>1. \A S, s, i : s \in Seq(S) /\ i \in 1..Len(s) => s[i] \in S
          OBVIOUS
    <2> QED
          BY <1>2, <2>1, Zenon DEF Exists
  <1> QED
        BY <1>3, Zenon DEF NameOf

(***************************************************************************)
(* loadCertificate makes a pair that matches, of the newest certificate if *)
(* that is valid.                                                          *)
(***************************************************************************)
LEMMA ExistingIs ==
  ASSUME ProviderTyped, NEW n \in Names, NEW x \in {Existing(n), <<NoCert, Missing>>}
  PROVE  /\ x[1] \in Nat /\ x[2] \in Nat /\ x[1] <= latest[n]
         /\ x[2] \in Servable <=> x[1] # NoCert
         /\ x = Existing(n) => x[1] = latest[n] \/ latest[n] <= dead[n]
  BY DEF ProviderTyped, Existing, NoCert, Servable, ExpiringSoon, Good, Missing

(***************************************************************************)
(* The invariant holds initially.                                          *)
(***************************************************************************)
LEMMA ProxyInitially == Init => ProxyInv
  <1> SUFFICES ASSUME Init PROVE ProxyInv
      BY Zenon
  <1>1. Typed
    <2>1. ProviderTyped
      <3>1. \A n \in Names : latest[n] \in Nat /\ due[n] = 0 /\ dead[n] = 0
            BY DEF Init
      <3> QED
            BY <3>1 DEF Init, ProviderTyped
    <2>2. config = <<>> /\ config \in Seq(Configs) /\ Len(config) = 0
          BY DEF Init
    <2>3. hasProvider \in BOOLEAN
          BY ConfigAssumption, Zenon DEF Init
    <2> QED
          BY <2>1, <2>2, <2>3 DEF Init, Typed, NoCert, NotChecked
  <1>2. Private /\ Unstarted /\ Obtained /\ Without /\ Alone /\ StatusMatchesCert
        BY DEF Init, Private, Unstarted, Obtained, Without, Alone, StatusMatchesCert, Updating, NoCert, NotChecked,
               ExpiringSoon, Good
  <1>3. \A k \in Checkers : CheckInv(k)
        BY Zenon DEF Init, CheckInv, Walks, Matching, Newer
  <1> QED
        BY <1>1, <1>2, <1>3, Zenon DEF ProxyInv

-----------------------------------------------------------------------------
(***************************************************************************)
(* What any step does: loads are added, certificates get newer and expire, *)
(* and overlaps and read errors are noted for good.                        *)
(***************************************************************************)
Grows ==
  /\ loads' >= loads /\ \A v \in 1..loads : config'[v] = config[v]
  /\ \A n \in Names : latest'[n] >= latest[n] /\ dead'[n] >= dead[n]
  /\ overlap \subseteq overlap' /\ unread \subseteq unread'

(***************************************************************************)
(* Existing routes stay what they are.                                     *)
(***************************************************************************)
LEMMA RoutesStay ==
  ASSUME Typed, loads' \in Nat, Grows, NEW r, Exists(r)
  PROVE  /\ r[1] \in 1..loads' /\ r[2] \in 1..Len(config'[r[1]].routes)
         /\ config'[r[1]].routes[r[2]].name = NameOf(r)
         /\ NameOf(r) \in Names
  <1>1. loads \in Nat
        BY DEF Typed
  <1> QED
        BY <1>1, NamesKnown, SMTT(30) DEF Grows, Exists, NameOf

(***************************************************************************)
(* A step that leaves a check alone, and the certificate of its route too  *)
(* unless another check works on it, keeps its invariant.                  *)
(***************************************************************************)
LEMMA Bystander ==
  ASSUME Typed, Typed', Grows, NEW k \in Checkers, CheckInv(k),
         UNCHANGED <<kpc[k], klist[k], ki[k], kcert[k], kstatus[k]>>,
         kpc[k] \in Updating /\ Current(k) \in Routes \ overlap' => cert'[Current(k)] = cert[Current(k)]
  PROVE  CheckInv(k)'
  <1>1. Current(k)' = Current(k)
        BY Zenon DEF Current
  <1>2. CASE kpc[k] \in {"idle", "started"}
        BY <1>2, Zenon DEF CheckInv, Walks, Matching, Newer
  <1>3. CASE kpc[k] \notin {"idle", "started"}
    <2> DEFINE r == Current(k)
    <2>1. Exists(r)
          BY <1>3, Zenon DEF CheckInv, Walks
    <2>2. /\ r[1] \in 1..loads' /\ r[2] \in 1..Len(config'[r[1]].routes)
          /\ config'[r[1]].routes[r[2]].name = NameOf(r)
          /\ NameOf(r) \in Names
          BY <2>1, RoutesStay DEF Typed
    <2>3. NameOf(Current(k))' = NameOf(r)
          BY <1>1, <2>2, Zenon DEF NameOf
    <2>4. Walks(k)'
          BY <1>1, <2>2, Zenon DEF Walks, Exists
    <2>5. Matching(k)'
          BY <1>1, Zenon DEF CheckInv, Matching, Grows, Updating
    <2>6. Newer(k)'
      <3>1. /\ latest[NameOf(r)] \in Nat /\ latest'[NameOf(r)] \in Nat
            /\ dead[NameOf(r)] \in Nat /\ dead'[NameOf(r)] \in Nat
            /\ kcert[k] \in Nat /\ (r \in Routes => cert[r] \in Nat)
            BY <2>2, Zenon DEF Typed, ProviderTyped
      <3>2. latest'[NameOf(r)] >= latest[NameOf(r)] /\ dead'[NameOf(r)] >= dead[NameOf(r)]
            BY <2>2, Zenon DEF Grows
      <3> HIDE DEF r
      <3>3. kpc[k] = "setCert" =>
              /\ kcert[k] <= latest'[NameOf(r)]
              /\ r \in Routes \ (overlap' \cup unread') => kcert[k] >= cert'[r] \/ cert'[r] <= dead'[NameOf(r)]
            BY <3>1, <3>2 DEF CheckInv, Newer, Grows, Updating, r
      <3> QED
            BY <1>1, <2>3, <3>3, Zenon DEF Newer, r
    <2> QED
          BY <2>4, <2>5, <2>6, Zenon DEF CheckInv
  <1> QED
        BY <1>2, <1>3, Zenon

(***************************************************************************)
(* A certificate that a route has is one of an existing route after any    *)
(* step.                                                                   *)
(***************************************************************************)
LEMMA StaysObtained ==
  ASSUME Typed, Typed', Grows, Obtained, NEW q \in Routes, cert'[q] = cert[q], cert'[q] # NoCert
  PROVE  Exists(q)' /\ cert'[q] <= latest'[NameOf(q)']
  <1>1. Exists(q) /\ cert[q] <= latest[NameOf(q)]
        BY Zenon DEF Obtained
  <1>2. /\ q[1] \in 1..loads' /\ q[2] \in 1..Len(config'[q[1]].routes)
        /\ config'[q[1]].routes[q[2]].name = NameOf(q)
        /\ NameOf(q) \in Names
        BY <1>1, RoutesStay DEF Typed
  <1>3. Exists(q)' /\ NameOf(q)' = NameOf(q)
        BY <1>2, Zenon DEF Exists, NameOf
  <1>4. latest'[NameOf(q)] >= latest[NameOf(q)]
        BY <1>2, Zenon DEF Grows
  <1>5. cert[q] \in Nat /\ latest[NameOf(q)] \in Nat /\ latest'[NameOf(q)] \in Nat
        BY <1>2, Zenon DEF Typed, ProviderTyped
  <1> QED
        BY <1>1, <1>3, <1>4, <1>5

-----------------------------------------------------------------------------
(***************************************************************************)
(* SetRoutes is called: its routes are new.                                *)
(***************************************************************************)
LEMMA SetRoutesKeeps ==
  ASSUME ProxyInv, NEW c \in Configs, SetRoutes(c)
  PROVE  ProxyInv'
  <1> USE DEF tableVars, routeVars, providerVars, checkVars
  <1>1. /\ loads \in Nat /\ loads' = loads + 1 /\ Len(config') = loads + 1 /\ config' \in Seq(Configs)
        /\ \A v \in 1..loads : config'[v] = config[v]
        BY DEF ProxyInv, Typed, SetRoutes
  <1>2. Typed'
        BY <1>1 DEF ProxyInv, Typed, ProviderTyped, SetRoutes
  <1>3. Grows
        BY <1>1 DEF Grows, ProxyInv, Typed, ProviderTyped, SetRoutes
  <1>4. Obtained'
        BY <1>2, <1>3, StaysObtained, Zenon DEF ProxyInv, Obtained, SetRoutes
  <1>5. Private'
    <2>1. \A r \in Routes : r[1] = loads + 1 => cert[r] = NoCert
          BY <1>1 DEF ProxyInv, Obtained, Exists
    <2> QED
          BY <1>1, <2>1 DEF ProxyInv, Typed, Private, SetRoutes
  <1>6. Unstarted' /\ Without' /\ Alone' /\ StatusMatchesCert'
    <2>1. Unstarted'
          BY <1>1, SMTT(30) DEF ProxyInv, Unstarted, SetRoutes, Checkers, Loads, Monitor
    <2>2. Without'
          BY Zenon DEF ProxyInv, Without, SetRoutes
    <2>3. Alone' /\ StatusMatchesCert'
          BY Zenon DEF ProxyInv, Alone, StatusMatchesCert, Busy, Current, SetRoutes
    <2> QED
          BY <2>1, <2>2, <2>3, Zenon
  <1>7. ASSUME NEW k \in Checkers PROVE CheckInv(k)'
        BY <1>2, <1>3, Bystander, Zenon DEF ProxyInv, SetRoutes
  <1> QED
        BY <1>2, <1>4, <1>5, <1>6, <1>7, Zenon DEF ProxyInv

(***************************************************************************)
(* SetRoutes stores its results or gives up, and starts a check.           *)
(***************************************************************************)
LEMMA StoreKeeps ==
  ASSUME ProxyInv, RejectRoutes \/ StoreDomains \/ StoreRoutes \/ StoreFallback
  PROVE  ProxyInv'
  <1> USE DEF tableVars, routeVars, providerVars, checkVars
  <1>1. /\ UNCHANGED <<hasProvider, loads, config, routeVars, providerVars, klist, ki, kcert, kstatus, overlap>>
        /\ spc' # "loading" /\ routes' \in {routes, loads}
        BY Zenon DEF RejectRoutes, StoreDomains, StoreRoutes, StoreFallback
  <1>2. \A k \in Checkers : kpc'[k] = kpc[k] \/ (kpc[k] = "idle" /\ kpc'[k] = "started" /\ spc' = "idle")
        BY DEF ProxyInv, Typed, Unstarted, RejectRoutes, StoreDomains, StoreRoutes, StoreFallback, Monitor
  <1>3. Typed'
        BY <1>1, <1>2 DEF ProxyInv, Typed, ProviderTyped, RejectRoutes, StoreDomains, StoreRoutes, StoreFallback
  <1>4. Grows
        BY <1>1 DEF Grows, ProxyInv, Typed, ProviderTyped
  <1>5. Obtained'
        BY <1>1, <1>3, <1>4, StaysObtained, Zenon DEF ProxyInv, Obtained
  <1>6. Private' /\ Without' /\ Alone' /\ StatusMatchesCert'
        BY <1>1, <1>2, Zenon DEF ProxyInv, Private, Without, Alone, StatusMatchesCert, Busy, Current, Updating
  <1>7. Unstarted'
        BY <1>1, <1>2 DEF ProxyInv, Unstarted, Typed, RejectRoutes, StoreDomains, StoreRoutes, StoreFallback
  <1>8. ASSUME NEW k \in Checkers PROVE CheckInv(k)'
    <2>1. CASE kpc'[k] = kpc[k]
          BY <1>1, <1>3, <1>4, <2>1, Bystander, Zenon DEF ProxyInv
    <2>2. CASE kpc'[k] = "started"
          BY <2>2, Zenon DEF CheckInv, Walks, Matching, Newer
    <2> QED
          BY <1>2, <2>1, <2>2, Zenon
  <1> QED
        BY <1>3, <1>5, <1>6, <1>7, <1>8, Zenon DEF ProxyInv

(***************************************************************************)
(* SetRoutes loads the certificate of one of its routes.                   *)
(***************************************************************************)
LEMMA LoadKeeps ==
  ASSUME ProxyInv, LoadCertificate
  PROVE  ProxyInv'
  <1> USE DEF tableVars, routeVars, providerVars, checkVars
  <1> DEFINE r == <<loads, si>>
  <1>1. /\ UNCHANGED <<hasProvider, loads, config, spc, routes, providerVars, checkVars>>
        /\ spc = "loading" /\ si' = si + 1 /\ unread \subseteq unread'
        BY Zenon DEF LoadCertificate, ExistingFor
  <1>2. Exists(r) /\ NameOf(r) \in Names
    <2>1. loads \in Nat /\ loads > 0 /\ si > 0 /\ si \in Nat /\ si <= Len(config[loads].routes)
          BY DEF ProxyInv, Typed, Private, LoadCertificate, RouteCount
    <2>2. Len(config[loads].routes) \in Nat
          BY <2>1, ConfigAssumption DEF ProxyInv, Typed
    <2>3. Exists(r)
          BY <2>1, <2>2 DEF Exists
    <2> QED
          BY <2>3, NamesKnown, Zenon DEF ProxyInv
  <1>3. PICK x \in Nat \X Nat :
          /\ cert' = [cert EXCEPT ![r] = x[1]] /\ status' = [status EXCEPT ![r] = x[2]]
          /\ x[1] <= latest[NameOf(r)] /\ (x[2] \in Servable <=> x[1] # NoCert)
          /\ ~hasProvider => x[1] = NoCert
    <2>1. CASE ~hasProvider
      <3>1. r \in Routes => cert[r] = NoCert
            BY <2>1, Zenon DEF ProxyInv, Without
      <3>2. cert' = [cert EXCEPT ![r] = NoCert] /\ status' = [status EXCEPT ![r] = NotRequired]
            BY <2>1, <3>1, Zenon DEF LoadCertificate, ProxyInv, Typed
      <3>3. latest[NameOf(r)] \in Nat
            BY <1>2, Zenon DEF ProxyInv, Typed, ProviderTyped
      <3>4. <<NoCert, NotRequired>> \in Nat \X Nat
            BY Zenon DEF NoCert, NotRequired
      <3> WITNESS <<NoCert, NotRequired>> \in Nat \X Nat
      <3> QED
            BY <3>2, <3>3 DEF NoCert, NotRequired, Servable, ExpiringSoon, Good
    <2>2. CASE hasProvider
      <3>1. PICK x \in {Existing(NameOf(r)), <<NoCert, Missing>>} :
              cert' = [cert EXCEPT ![r] = x[1]] /\ status' = [status EXCEPT ![r] = x[2]]
            BY <2>2, Zenon DEF LoadCertificate
      <3>2. /\ x[1] \in Nat /\ x[2] \in Nat /\ x[1] <= latest[NameOf(r)]
            /\ x[2] \in Servable <=> x[1] # NoCert
            BY <1>2, ExistingIs, Zenon DEF ProxyInv, Typed
      <3>3. <<x[1], x[2]>> \in Nat \X Nat
            BY <3>2, Zenon
      <3> WITNESS <<x[1], x[2]>> \in Nat \X Nat
      <3> QED
            BY <2>2, <3>1, <3>2, Zenon
    <2> QED
          BY <2>1, <2>2, Zenon DEF LoadCertificate
  <1> HIDE DEF r
  <1>4. \A q \in Routes : /\ q # r => cert'[q] = cert[q] /\ status'[q] = status[q]
                          /\ q = r => cert'[q] = x[1] /\ status'[q] = x[2]
        BY <1>3, Zenon DEF ProxyInv, Typed
  <1>5. Typed'
    <2>1. x[1] \in Nat /\ x[2] \in Nat
          BY Zenon
    <2>2. cert' \in [Routes -> Nat] /\ status' \in [Routes -> Nat]
          BY <1>3, <2>1, Zenon DEF ProxyInv, Typed
    <2> QED
          BY <1>1, <2>2 DEF ProxyInv, Typed, ProviderTyped
  <1>6. Grows
        BY <1>1 DEF Grows, ProxyInv, Typed, ProviderTyped
  <1>7. Obtained'
    <2> SUFFICES ASSUME NEW q \in Routes, cert'[q] # NoCert
                 PROVE  Exists(q)' /\ cert'[q] <= latest'[NameOf(q)']
        BY Zenon DEF Obtained
    <2>1. CASE q # r
          BY <1>4, <1>5, <1>6, <2>1, StaysObtained, Zenon DEF ProxyInv
    <2>2. CASE q = r
          BY <1>1, <1>2, <1>3, <1>4, <2>2, Zenon DEF Exists, NameOf
    <2> QED
          BY <2>1, <2>2, Zenon
  <1>8. r[1] = loads /\ r[2] = si
        BY Zenon DEF r
  <1>9. Private'
    <2>1. \A q \in Routes : q[1] = loads /\ q[2] >= si + 1 => cert'[q] = NoCert
      <3> SUFFICES ASSUME NEW q \in Routes, q[1] = loads, q[2] >= si + 1 PROVE cert'[q] = NoCert
          BY Zenon
      <3>1. q[2] \in Nat /\ si \in Nat
        <4>1. q[2] \in Positions /\ si \in Nat
              BY Zenon DEF Routes, ProxyInv, Typed
        <4> QED
              BY <4>1, PositionsAre, Zenon
      <3>2. q # r /\ q[2] >= si
            BY <1>8, <3>1
      <3> QED
            BY <1>1, <1>4, <3>2, Zenon DEF ProxyInv, Private
    <2> QED
          BY <1>1, <2>1 DEF ProxyInv, Typed, Private
  <1>10. Unstarted' /\ Alone' /\ Without'
        BY <1>1, <1>3, <1>4, Zenon DEF ProxyInv, Unstarted, Alone, Without, Current
  <1>11. StatusMatchesCert'
        BY <1>1, <1>3, <1>4, SMTT(20) DEF ProxyInv, StatusMatchesCert, Busy, Current, Servable
  <1>12. ASSUME NEW k \in Checkers PROVE CheckInv(k)'
    <2>1. Current(k) # r
          BY <1>1, <1>8 DEF ProxyInv, Private, Typed, Current
    <2> QED
          BY <1>1, <1>4, <1>5, <1>6, <2>1, Bystander, Zenon DEF ProxyInv
  <1> QED
        BY <1>5, <1>7, <1>9, <1>10, <1>11, <1>12, Zenon DEF ProxyInv

-----------------------------------------------------------------------------
(***************************************************************************)
(* The check that works on a route goes on to the next one or ends.        *)
(***************************************************************************)
LEMMA AdvanceWalks ==
  ASSUME Typed, NEW k \in Checkers, Exists(Current(k)), Advance(k), UNCHANGED <<loads, config>>
  PROVE  /\ kpc'[k] \in {"idle", "next"} /\ Walks(k)'
         /\ klist'[k] \in {0, klist[k]} /\ ki'[k] \in Nat
         /\ \A j \in Checkers \ {k} : UNCHANGED <<kpc[j], klist[j], ki[j]>>
         /\ kpc' \in [Checkers -> {"idle", "started", "next"} \cup Updating]
         /\ klist' \in [Checkers -> 0..loads] /\ ki' \in [Checkers -> Nat]
  <1>1. /\ klist[k] \in 1..loads /\ ki[k] \in 1..Len(config[klist[k]].routes)
        /\ ki[k] \in Nat
        BY Zenon DEF Exists, Current, Typed
  <1>2. Len(config[klist[k]].routes) \in Nat
        BY <1>1, ConfigAssumption DEF Typed
  <1>3. RouteCount(klist[k]) = Len(config[klist[k]].routes)
        BY <1>1 DEF RouteCount
  <1>4. CASE AtLast(k)
    <2>1. kpc' = [kpc EXCEPT ![k] = "idle"] /\ klist' = [klist EXCEPT ![k] = 0] /\ ki' = [ki EXCEPT ![k] = 0]
          BY <1>4, Zenon DEF Advance
    <2> QED
          BY <2>1 DEF Typed, Walks
  <1>5. CASE ~AtLast(k)
    <2>1. kpc' = [kpc EXCEPT ![k] = "next"] /\ klist' = klist /\ ki' = [ki EXCEPT ![k] = ki[k] + 1]
          BY <1>5, Zenon DEF Advance, Typed
    <2>2. ki[k] + 1 \in 1..Len(config[klist[k]].routes)
          BY <1>1, <1>2, <1>3, <1>5 DEF AtLast
    <2> QED
          BY <1>1, <2>1, <2>2 DEF Typed, Walks, Exists, Current
  <1> QED
        BY <1>4, <1>5, Zenon

(***************************************************************************)
(* The routes are checked: CheckCertificates takes its snapshot.           *)
(***************************************************************************)
LEMMA StartKeeps ==
  ASSUME ProxyInv, NEW k \in Checkers, StartCheck(k)
  PROVE  ProxyInv'
  <1> USE DEF setVars, tableVars, routeVars, providerVars
  <1>1. /\ UNCHANGED <<setVars, tableVars, routeVars, providerVars, kcert, kstatus, overlap>>
        /\ \A j \in Checkers \ {k} : UNCHANGED <<kpc[j], klist[j], ki[j]>>
        /\ kpc[k] \in {"idle", "started"} /\ kpc'[k] \in {"idle", "next"}
        /\ klist'[k] \in {klist[k], routes}
        BY Zenon DEF StartCheck, ProxyInv, Typed
  <1>2. Typed'
    <2>1. /\ kpc' \in [Checkers -> {"idle", "started", "next"} \cup Updating]
          /\ klist' \in [Checkers -> 0..loads] /\ ki' \in [Checkers -> Nat]
      <3>1. CASE RouteCount(routes) = 0
            BY <3>1, Zenon DEF StartCheck, ProxyInv, Typed
      <3>2. CASE RouteCount(routes) # 0
        <4>1. /\ kpc' = [kpc EXCEPT ![k] = "next"] /\ klist' = [klist EXCEPT ![k] = routes]
              /\ ki' = [ki EXCEPT ![k] = 1]
              BY <3>2, Zenon DEF StartCheck
        <4> QED
              BY <4>1, Zenon DEF ProxyInv, Typed
      <3> QED
            BY <3>1, <3>2, Zenon
    <2> QED
          BY <1>1, <2>1, Zenon DEF ProxyInv, Typed, ProviderTyped
  <1>3. Grows
        BY <1>1 DEF Grows, ProxyInv, Typed, ProviderTyped
  <1>4. Obtained'
        BY <1>1, <1>2, <1>3, StaysObtained, Zenon DEF ProxyInv, Obtained
  <1>5. Private'
        BY <1>1, Zenon DEF ProxyInv, Private, Typed
  <1>6. Unstarted'
    <2>1. k = Monitor \/ kpc[k] = "started"
          BY Zenon DEF StartCheck
    <2> QED
          BY <1>1, <2>1, Zenon DEF ProxyInv, Unstarted
  <1>7. Alone' /\ Without' /\ StatusMatchesCert'
        BY <1>1 DEF ProxyInv, Alone, Without, StatusMatchesCert, Busy, Current, Updating
  <1>8. ASSUME NEW j \in Checkers PROVE CheckInv(j)'
    <2>1. CASE j # k
          BY <1>1, <1>2, <1>3, <2>1, Bystander, Zenon DEF ProxyInv
    <2>2. CASE j = k
      <3>1. kpc'[k] = "next" => Exists(Current(k))'
        <4> SUFFICES ASSUME kpc'[k] = "next" PROVE Exists(Current(k))'
            BY Zenon
        <4>1. RouteCount(routes) # 0 /\ klist'[k] = routes /\ ki'[k] = 1
              BY Zenon DEF StartCheck, ProxyInv, Typed
        <4>2. routes \in 1..loads /\ Len(config[routes].routes) # 0
              BY <4>1 DEF RouteCount, ProxyInv, Typed
        <4>3. Len(config[routes].routes) \in Nat
              BY <4>2, ConfigAssumption DEF ProxyInv, Typed
        <4> QED
              BY <1>1, <4>1, <4>2, <4>3, SMTT(30) DEF Exists, Current
      <3> QED
          BY <1>1, <2>2, <3>1, Zenon DEF CheckInv, Walks, Matching, Newer
    <2> QED
          BY <2>1, <2>2, Zenon
  <1> QED
        BY <1>2, <1>4, <1>5, <1>6, <1>7, <1>8, Zenon DEF ProxyInv

(***************************************************************************)
(* A step of one check on its route: what remains to be shown is what the  *)
(* step does to that check and that route.                                 *)
(***************************************************************************)
LEMMA OneCheck ==
  ASSUME ProxyInv, NEW k \in Checkers, kpc[k] \notin {"idle", "started"}, Typed', Grows,
         UNCHANGED <<hasProvider, loads, config, spc, si, routes>>,
         \A j \in Checkers \ {k} : UNCHANGED <<kpc[j], klist[j], ki[j], kcert[j], kstatus[j]>>,
         klist'[k] \in {0, klist[k]},
         \A q \in Routes : cert'[q] # cert[q] => q = Current(k) /\ kpc[k] \in Updating,
         CheckInv(k)', Obtained', Without', Alone', StatusMatchesCert'
  PROVE  ProxyInv'
  <1>1. Private'
    <2>1. \A q \in Routes : spc = "loading" /\ q[1] = loads => cert'[q] = cert[q]
          BY DEF ProxyInv, Private, Typed, Current
    <2> QED
          BY <2>1, Zenon DEF ProxyInv, Private, Typed
  <1>2. Unstarted'
        BY Zenon DEF ProxyInv, Unstarted
  <1>3. ASSUME NEW j \in Checkers \ {k} PROVE CheckInv(j)'
    <2>1. kpc[j] \in Updating /\ Current(j) \in Routes \ overlap' => cert'[Current(j)] = cert[Current(j)]
          BY <1>3, Zenon DEF ProxyInv, Alone, Grows
    <2> QED
          BY <1>3, <2>1, Bystander, Zenon DEF ProxyInv
  <1> QED
        BY <1>1, <1>2, <1>3, Zenon DEF ProxyInv

(***************************************************************************)
(* A check begins with a route: if it is not the only one, that is noted.  *)
(***************************************************************************)
LEMMA BeginKeeps ==
  ASSUME ProxyInv, NEW k \in Checkers, kpc[k] = "next", NoteOverlap(k),
         \A j \in Checkers \ {k} : UNCHANGED <<kpc[j], klist[j], ki[j]>>,
         UNCHANGED <<klist, ki, cert, status>>, kpc'[k] \in Updating
  PROVE  Alone' /\ StatusMatchesCert' /\ overlap \subseteq overlap'
  <1>1. \A j \in Checkers : Current(j)' = Current(j)
        BY Zenon DEF Current
  <1>2. overlap \subseteq overlap'
        BY Zenon DEF NoteOverlap
  <1>3. \A j \in Checkers \ {k} : kpc[j] \in Updating /\ Current(j) = Current(k) => Current(k) \in overlap'
        BY Zenon DEF NoteOverlap, Busy, Updating
  <1>4. Alone'
        BY <1>1, <1>2, <1>3, Zenon DEF ProxyInv, Alone
  <1>5. \A j \in Checkers : \A q : Busy(j, q) => Busy(j, q)'
        BY <1>1, Zenon DEF Busy, Updating
  <1>6. StatusMatchesCert'
        BY <1>2, <1>5, Zenon DEF ProxyInv, StatusMatchesCert
  <1> QED
        BY <1>2, <1>4, <1>6, Zenon

(***************************************************************************)
(* updateCert gets a certificate.                                          *)
(***************************************************************************)
LEMMA GetKeeps ==
  ASSUME ProxyInv, NEW k \in Checkers, GetCertificate(k)
  PROVE  ProxyInv'
  <1> USE DEF setVars, tableVars, routeVars
  <1> DEFINE r == Current(k)
             n == NameOf(Current(k))
  <1>1. /\ kpc[k] = "next" /\ hasProvider /\ NoteOverlap(k)
        /\ UNCHANGED <<setVars, tableVars, routeVars, due, dead, klist, ki>>
        /\ kpc' = [kpc EXCEPT ![k] = "setCert"] /\ kcert' = [kcert EXCEPT ![k] = latest'[n]]
        /\ kstatus' = [kstatus EXCEPT ![k] = Good]
        BY Zenon DEF GetCertificate, Will
  <1>2. Exists(r) /\ n \in Names
        BY <1>1, NamesKnown, Zenon DEF ProxyInv, CheckInv, Walks
  <1>3. /\ latest' \in [Names -> Nat] /\ \A m \in Names : latest'[m] >= latest[m]
        /\ latest'[n] > 0 /\ due[n] \in Nat /\ dead[n] \in Nat
    <2>1. \A m \in Names : latest[m] \in Nat /\ due[m] \in Nat /\ dead[m] \in Nat
          BY Zenon DEF ProxyInv, Typed, ProviderTyped
    <2>2. CASE latest[n] > due[n]
          BY <1>2, <2>1, <2>2 DEF GetCertificate, ProxyInv, Typed, ProviderTyped
    <2>3. CASE ~(latest[n] > due[n])
      <3>1. latest' = [latest EXCEPT ![n] = latest[n] + 1]
            BY <2>3, Zenon DEF GetCertificate
      <3> QED
            BY <1>2, <2>1, <3>1 DEF ProxyInv, Typed, ProviderTyped
    <2> QED
          BY <2>2, <2>3, Zenon
  <1> HIDE DEF n, r
  <1>4. Typed'
    <2>1. ProviderTyped'
      <3>1. \A m \in Names : dead[m] \in Nat /\ due[m] \in Nat /\ latest[m] \in Nat /\ latest'[m] \in Nat
            BY <1>3, Zenon DEF ProxyInv, Typed, ProviderTyped
      <3>2. \A m \in Names : due[m] <= latest'[m]
            BY <1>3, <3>1 DEF ProxyInv, Typed, ProviderTyped
      <3> QED
            BY <1>1, <1>3, <3>2, Zenon DEF ProxyInv, Typed, ProviderTyped
    <2>2. /\ kcert' \in [Checkers -> Nat] /\ kstatus' \in [Checkers -> Nat]
          /\ kpc' \in [Checkers -> {"idle", "started", "next"} \cup Updating]
          BY <1>1, <1>2, <1>3, Zenon DEF ProxyInv, Typed, Updating, Good
    <2> QED
          BY <1>1, <2>1, <2>2, Zenon DEF ProxyInv, Typed
  <1>5. /\ kpc'[k] = "setCert" /\ kcert'[k] = latest'[n] /\ kstatus'[k] = Good
        /\ \A j \in Checkers \ {k} : UNCHANGED <<kpc[j], klist[j], ki[j], kcert[j], kstatus[j]>>
        BY <1>1, Zenon DEF ProxyInv, Typed
  <1>6. Alone' /\ StatusMatchesCert' /\ overlap \subseteq overlap'
        BY <1>1, <1>5, BeginKeeps, Zenon DEF Updating
  <1>7. Grows
        BY <1>1, <1>3, <1>6 DEF Grows, ProxyInv, Typed, ProviderTyped
  <1>8. Obtained'
        BY <1>1, <1>4, <1>7, StaysObtained, Zenon DEF ProxyInv, Obtained
  <1>9. Without'
        BY <1>1, Zenon DEF Without
  <1>10. CheckInv(k)'
    <2>1. Current(k)' = r /\ NameOf(Current(k))' = n /\ Exists(Current(k))'
          BY <1>1, <1>2, Zenon DEF Current, NameOf, Exists, r, n
    <2>2. Matching(k)'
          BY <1>3, <1>5, SMTT(30) DEF Matching, Servable, NoCert
    <2>3. r \in Routes => latest'[n] >= cert[r]
      <3>1. r \in Routes => cert[r] \in Nat /\ (cert[r] = 0 \/ cert[r] <= latest[n])
            BY Zenon DEF ProxyInv, Typed, Obtained, NoCert, r, n
      <3>2. latest[n] \in Nat /\ latest'[n] \in Nat
            BY <1>2, <1>3, Zenon DEF ProxyInv, Typed, ProviderTyped
      <3> QED
            BY <1>2, <1>3, <3>1, <3>2
    <2>4. latest'[n] <= latest'[n]
          BY <1>2, <1>3
    <2>5. Newer(k)'
          BY <1>1, <1>5, <2>1, <2>3, <2>4, Zenon DEF Newer
    <2> QED
          BY <2>1, <2>2, <2>5, Zenon DEF CheckInv, Walks
  <1> QED
        BY <1>1, <1>4, <1>5, <1>6, <1>7, <1>8, <1>9, <1>10, OneCheck, Zenon

(***************************************************************************)
(* updateCert fails to get a certificate.                                  *)
(***************************************************************************)
LEMMA GetErrorKeeps ==
  ASSUME ProxyInv, NEW k \in Checkers, GetCertificateError(k)
  PROVE  ProxyInv'
  <1> USE DEF setVars, tableVars, routeVars, providerVars
  <1>1. /\ kpc[k] = "next" /\ hasProvider /\ NoteOverlap(k)
        /\ UNCHANGED <<setVars, tableVars, routeVars, providerVars, klist, ki, kcert, kstatus>>
        /\ kpc' = [kpc EXCEPT ![k] = "load"]
        BY Zenon DEF GetCertificateError
  <1>2. Typed'
        BY <1>1, Zenon DEF ProxyInv, Typed, ProviderTyped, Updating
  <1>3. kpc'[k] = "load" /\ \A j \in Checkers \ {k} : kpc'[j] = kpc[j]
        BY <1>1, Zenon DEF ProxyInv, Typed
  <1>4. Alone' /\ StatusMatchesCert' /\ overlap \subseteq overlap'
        BY <1>1, <1>3, BeginKeeps, Zenon DEF Updating
  <1>5. Grows
        BY <1>1, <1>4 DEF Grows, ProxyInv, Typed, ProviderTyped
  <1>6. Obtained'
        BY <1>1, <1>2, <1>5, StaysObtained, Zenon DEF ProxyInv, Obtained
  <1>7. Without'
        BY <1>1, Zenon DEF Without
  <1>8. CheckInv(k)'
        BY <1>1, <1>3, Zenon DEF ProxyInv, CheckInv, Walks, Matching, Newer, Exists, Current
  <1> QED
        BY <1>1, <1>2, <1>3, <1>4, <1>5, <1>6, <1>7, <1>8, OneCheck, Zenon

(***************************************************************************)
(* loadCertificate, after the failure, looks for the stored certificate.   *)
(***************************************************************************)
LEMMA GetExistingKeeps ==
  ASSUME ProxyInv, NEW k \in Checkers, GetExistingCertificate(k)
  PROVE  ProxyInv'
  <1> USE DEF setVars, tableVars, providerVars
  <1> DEFINE r == Current(k)
             n == NameOf(Current(k))
  <1>1. PICK x \in {Existing(n), <<NoCert, Missing>>} :
          /\ ExistingFor(r, x) /\ kcert' = [kcert EXCEPT ![k] = x[1]]
          /\ kstatus' = [kstatus EXCEPT ![k] = x[2]] /\ kpc' = [kpc EXCEPT ![k] = "setCert"]
        BY Zenon DEF GetExistingCertificate, Will
  <1>2. kpc[k] = "load" /\ UNCHANGED <<setVars, tableVars, cert, status, providerVars, klist, ki, overlap>>
        BY Zenon DEF GetExistingCertificate
  <1>3. Exists(r) /\ n \in Names
        BY <1>2, NamesKnown, Zenon DEF ProxyInv, CheckInv, Walks
  <1>4. /\ x[1] \in Nat /\ x[2] \in Nat /\ x[1] <= latest[n]
        /\ x[2] \in Servable <=> x[1] # NoCert
        /\ x = Existing(n) => x[1] = latest[n] \/ latest[n] <= dead[n]
        BY <1>1, <1>3, ExistingIs, Zenon DEF ProxyInv, Typed
  <1>5. unread \subseteq unread' /\ (x = Existing(n) \/ r \in unread')
        BY <1>1, Zenon DEF ExistingFor
  <1> HIDE DEF n, r
  <1>6. /\ kpc'[k] = "setCert" /\ kcert'[k] = x[1] /\ kstatus'[k] = x[2]
        /\ \A j \in Checkers \ {k} : UNCHANGED <<kpc[j], klist[j], ki[j], kcert[j], kstatus[j]>>
        BY <1>1, <1>2, Zenon DEF ProxyInv, Typed
  <1>7. Typed'
    <2>1. /\ kcert' \in [Checkers -> Nat] /\ kstatus' \in [Checkers -> Nat]
          /\ kpc' \in [Checkers -> {"idle", "started", "next"} \cup Updating]
          BY <1>1, <1>4, Zenon DEF ProxyInv, Typed, Updating
    <2> QED
          BY <1>2, <2>1, Zenon DEF ProxyInv, Typed, ProviderTyped
  <1>8. Grows
        BY <1>2, <1>5 DEF Grows, ProxyInv, Typed, ProviderTyped
  <1>9. Obtained'
        BY <1>2, <1>7, <1>8, StaysObtained, Zenon DEF ProxyInv, Obtained
  <1>10. Without' /\ Alone' /\ StatusMatchesCert'
    <2>1. /\ \A j \in Checkers : Current(j)' = Current(j)
          /\ \A j \in Checkers : kpc'[j] \in Updating <=> kpc[j] \in Updating
          BY <1>2, <1>6, Zenon DEF Current, Updating
    <2>2. \A j \in Checkers : \A q : Busy(j, q)' <=> Busy(j, q)
          BY <2>1, Zenon DEF Busy, Updating
    <2>3. Without'
          BY <1>2, <2>1, Zenon DEF ProxyInv, Without
    <2>4. Alone'
          BY <1>2, <2>1, Zenon DEF ProxyInv, Alone
    <2>5. StatusMatchesCert'
          BY <1>2, <2>2, Zenon DEF ProxyInv, StatusMatchesCert
    <2> QED
          BY <2>3, <2>4, <2>5, Zenon
  <1>11. CheckInv(k)'
    <2>1. Current(k)' = r /\ NameOf(Current(k))' = n /\ Exists(Current(k))'
          BY <1>2, <1>3, Zenon DEF Current, NameOf, Exists, r, n
    <2>2. Matching(k)'
          BY <1>4, <1>6, Zenon DEF Matching
    <2>3. r \in Routes \ unread' => x[1] >= cert[r] \/ cert[r] <= dead[n]
      <3>1. r \in Routes => cert[r] \in Nat /\ (cert[r] = 0 \/ cert[r] <= latest[n])
            BY Zenon DEF ProxyInv, Typed, Obtained, NoCert, r, n
      <3>2. latest[n] \in Nat /\ dead[n] \in Nat
            BY <1>3, Zenon DEF ProxyInv, Typed, ProviderTyped
      <3> QED
            BY <1>4, <1>5, <3>1, <3>2, SMTT(20)
    <2>4. Newer(k)'
          BY <1>2, <1>4, <1>6, <2>1, <2>3, Zenon DEF Newer
    <2> QED
          BY <2>1, <2>2, <2>4, Zenon DEF CheckInv, Walks
  <1> QED
        BY <1>2, <1>6, <1>7, <1>8, <1>9, <1>10, <1>11, OneCheck, Zenon

(***************************************************************************)
(* The certificate is stored; the status follows.                          *)
(***************************************************************************)
LEMMA SetCertificateKeeps ==
  ASSUME ProxyInv, NEW k \in Checkers, SetCertificate(k)
  PROVE  ProxyInv'
  <1> USE DEF setVars, tableVars, providerVars
  <1> DEFINE r == Current(k)
  <1>1. /\ kpc[k] = "setCert" /\ cert' = [cert EXCEPT ![r] = kcert[k]]
        /\ kpc' = [kpc EXCEPT ![k] = "setStatus"] /\ kcert' = [kcert EXCEPT ![k] = NoCert]
        /\ UNCHANGED <<setVars, tableVars, status, unread, providerVars, klist, ki, kstatus, overlap>>
        BY Zenon DEF SetCertificate, NewCertificate
  <1>2. Exists(r) /\ NameOf(r) \in Names /\ kcert[k] <= latest[NameOf(r)] /\ kcert[k] \in Nat
        BY <1>1, NamesKnown, Zenon DEF ProxyInv, CheckInv, Walks, Newer, Typed
  <1>3. \A j \in Checkers : Current(j)' = Current(j)
        BY <1>1, Zenon DEF Current
  <1> HIDE DEF r
  <1>4. /\ kpc'[k] = "setStatus" /\ kstatus'[k] = kstatus[k] /\ klist'[k] = klist[k]
        /\ \A j \in Checkers \ {k} : UNCHANGED <<kpc[j], klist[j], ki[j], kcert[j], kstatus[j]>>
        /\ \A q \in Routes : (q # r => cert'[q] = cert[q]) /\ (q = r => cert'[q] = kcert[k])
        BY <1>1, Zenon DEF ProxyInv, Typed
  <1>5. Typed'
    <2>1. /\ cert' \in [Routes -> Nat] /\ kcert' \in [Checkers -> Nat]
          /\ kpc' \in [Checkers -> {"idle", "started", "next"} \cup Updating]
          BY <1>1, <1>2, Zenon DEF ProxyInv, Typed, Updating, NoCert
    <2> QED
          BY <1>1, <2>1, Zenon DEF ProxyInv, Typed, ProviderTyped
  <1>6. Grows
        BY <1>1 DEF Grows, ProxyInv, Typed, ProviderTyped
  <1>7. Obtained'
    <2> SUFFICES ASSUME NEW q \in Routes, cert'[q] # NoCert
                 PROVE  Exists(q)' /\ cert'[q] <= latest'[NameOf(q)']
        BY Zenon DEF Obtained
    <2>1. CASE q # r
          BY <1>4, <1>5, <1>6, <2>1, StaysObtained, Zenon DEF ProxyInv
    <2>2. CASE q = r
          BY <1>1, <1>2, <1>4, <2>2, Zenon DEF Exists, NameOf
    <2> QED
          BY <2>1, <2>2, Zenon
  <1>8. Without'
        BY <1>1, Zenon DEF ProxyInv, Without, Updating
  <1>9. Alone'
    <2>1. \A j \in Checkers : kpc'[j] \in Updating => kpc[j] \in Updating
          BY <1>1, <1>4, Zenon DEF Updating
    <2> QED
          BY <1>1, <1>3, <2>1, Zenon DEF ProxyInv, Alone
  <1>10. StatusMatchesCert'
    <2>1. \A j \in Checkers : \A q : Busy(j, q) => Busy(j, q)'
          BY <1>1, <1>3, <1>4, Zenon DEF Busy
    <2> SUFFICES ASSUME NEW q \in Routes \ overlap, \A j \in Checkers : ~Busy(j, q)'
                 PROVE  status[q] \in Servable <=> cert'[q] # NoCert
        BY <1>1, Zenon DEF StatusMatchesCert, Servable
    <2>2. q # r /\ \A j \in Checkers : ~Busy(j, q)
          BY <1>3, <1>4, <2>1, Zenon DEF Busy, r
    <2> QED
          BY <1>4, <2>2, Zenon DEF ProxyInv, StatusMatchesCert, Servable
  <1>11. CheckInv(k)'
    <2>1. Matching(k)'
          BY <1>1, <1>3, <1>4, Zenon DEF ProxyInv, CheckInv, Matching, r
    <2> QED
          BY <1>1, <1>2, <1>3, <1>4, <2>1, Zenon DEF CheckInv, Walks, Newer, Exists, r
  <1> QED
        BY <1>1, <1>4, <1>5, <1>6, <1>7, <1>8, <1>9, <1>10, <1>11, OneCheck, Zenon DEF Updating, r

(***************************************************************************)
(* A status is stored and the check goes on: after a certificate, or       *)
(* because none is required.                                               *)
(***************************************************************************)
LEMMA SetStatusKeeps ==
  ASSUME ProxyInv, NEW k \in Checkers, NEW st \in Nat, kpc[k] \in {"next", "setStatus"},
         Current(k) \in Routes \ overlap => (st \in Servable <=> cert[Current(k)] # NoCert),
         status' = [status EXCEPT ![Current(k)] = st], Advance(k),
         kstatus' \in [Checkers -> Nat], \A j \in Checkers \ {k} : kstatus'[j] = kstatus[j],
         UNCHANGED <<setVars, tableVars, cert, unread, providerVars, kcert, overlap>>
  PROVE  ProxyInv'
  <1> USE DEF setVars, tableVars, providerVars
  <1> DEFINE r == Current(k)
  <1>1. Exists(r)
        BY Zenon DEF ProxyInv, CheckInv, Walks
  <1>2. /\ kpc'[k] \in {"idle", "next"} /\ Walks(k)'
        /\ klist'[k] \in {0, klist[k]} /\ ki'[k] \in Nat
        /\ \A j \in Checkers \ {k} : UNCHANGED <<kpc[j], klist[j], ki[j]>>
        /\ kpc' \in [Checkers -> {"idle", "started", "next"} \cup Updating]
        /\ klist' \in [Checkers -> 0..loads] /\ ki' \in [Checkers -> Nat]
        BY <1>1, AdvanceWalks, Zenon DEF ProxyInv
  <1>3. Typed'
    <2>1. status' \in [Routes -> Nat]
          BY Zenon DEF ProxyInv, Typed
    <2> QED
          BY <1>2, <2>1, Zenon DEF ProxyInv, Typed, ProviderTyped
  <1>4. Grows
        BY SMTT(20) DEF Grows, ProxyInv, Typed, ProviderTyped
  <1>5. Obtained'
        BY <1>3, <1>4, StaysObtained, Zenon DEF ProxyInv, Obtained
  <1>6. Without' /\ Alone'
        BY <1>2, ZenonT(30) DEF ProxyInv, Without, Alone, Current, Updating
  <1>7. StatusMatchesCert'
    <2> SUFFICES ASSUME NEW q \in Routes \ overlap, \A j \in Checkers : ~Busy(j, q)'
                 PROVE  status'[q] \in Servable <=> cert[q] # NoCert
        BY Zenon DEF StatusMatchesCert, Servable
    <2>1. \A j \in Checkers \ {k} : ~Busy(j, q)
          BY <1>2, Zenon DEF Busy, Current
    <2>2. CASE q = r
          BY <2>2, Zenon DEF ProxyInv, Typed
    <2>3. CASE q # r
      <3>1. ~Busy(k, q) /\ status'[q] = status[q]
            BY <2>3, Zenon DEF Busy, ProxyInv, Typed
      <3> QED
            BY <2>1, <3>1, Zenon DEF ProxyInv, StatusMatchesCert, Servable
    <2> QED
          BY <2>2, <2>3, Zenon
  <1>8. CheckInv(k)'
        BY <1>2, Zenon DEF CheckInv, Matching, Newer
  <1> QED
        BY <1>2, <1>3, <1>4, <1>5, <1>6, <1>7, <1>8, OneCheck, Zenon

(***************************************************************************)
(* Certificates come to need renewal and expire.                           *)
(***************************************************************************)
LEMMA AgeKeeps ==
  ASSUME ProxyInv, NEW n \in Names, NeedRenewal(n) \/ Expire(n)
  PROVE  ProxyInv'
  <1> USE DEF setVars, tableVars, routeVars, checkVars
  <1>1. /\ UNCHANGED <<hasProvider, loads, config, spc, si, tableVars, routeVars, latest, checkVars>>
        /\ \/ due' = [due EXCEPT ![n] = latest[n]] /\ dead' = dead
           \/ dead' = [dead EXCEPT ![n] = due[n]] /\ due' = due
        BY Zenon DEF NeedRenewal, Expire
  <1>2. \A m \in Names : dead[m] \in Nat /\ due[m] \in Nat /\ latest[m] \in Nat /\ dead[m] <= due[m] /\ due[m] <= latest[m]
        BY Zenon DEF ProxyInv, Typed, ProviderTyped
  <1>3. ProviderTyped' /\ \A m \in Names : dead'[m] >= dead[m]
    <2>1. CASE due' = [due EXCEPT ![n] = latest[n]] /\ dead' = dead
          BY <1>1, <1>2, <2>1 DEF ProxyInv, Typed, ProviderTyped
    <2>2. CASE dead' = [dead EXCEPT ![n] = due[n]] /\ due' = due
          BY <1>1, <1>2, <2>2 DEF ProxyInv, Typed, ProviderTyped
    <2> QED
          BY <1>1, <2>1, <2>2, Zenon
  <1>4. Typed'
        BY <1>1, <1>3, Zenon DEF ProxyInv, Typed
  <1>5. Grows
        BY <1>1, <1>2, <1>3 DEF Grows, ProxyInv, Typed
  <1>6. Obtained'
        BY <1>1, <1>4, <1>5, StaysObtained, Zenon DEF ProxyInv, Obtained
  <1>7. Private' /\ Unstarted' /\ Without' /\ Alone' /\ StatusMatchesCert'
        BY <1>1, Zenon DEF ProxyInv, Private, Unstarted, Without, Alone, StatusMatchesCert, Busy, Current
  <1>8. ASSUME NEW k \in Checkers PROVE CheckInv(k)'
        BY <1>1, <1>4, <1>5, Bystander, Zenon DEF ProxyInv
  <1> QED
        BY <1>4, <1>6, <1>7, <1>8, Zenon DEF ProxyInv

-----------------------------------------------------------------------------
(***************************************************************************)
(* Every step preserves the invariant.                                     *)
(***************************************************************************)
LEMMA ProxyInductive == ProxyInv /\ [Next]_vars => ProxyInv'
  <1> SUFFICES ASSUME ProxyInv, [Next]_vars PROVE ProxyInv'
      BY Zenon
  <1>1. ASSUME NEW c \in Configs, SetRoutes(c) PROVE ProxyInv'
        BY <1>1, SetRoutesKeeps, Zenon
  <1>2. CASE SetRoutesStep
        BY <1>2, LoadKeeps, StoreKeeps, Zenon DEF SetRoutesStep
  <1>3. ASSUME NEW k \in Checkers, CheckStep(k) PROVE ProxyInv'
    <2>1. CASE CheckNotRequired(k)
      <3>1. Current(k) \in Routes => cert[Current(k)] = NoCert
            BY <2>1, Zenon DEF CheckNotRequired, ProxyInv, Without
      <3>2. NotRequired \in Nat /\ NotRequired \notin Servable
            BY DEF NotRequired, Servable, ExpiringSoon, Good
      <3>3. kstatus' \in [Checkers -> Nat] /\ \A j \in Checkers \ {k} : kstatus'[j] = kstatus[j]
            BY <2>1, Zenon DEF CheckNotRequired, ProxyInv, Typed
      <3> QED
            BY <2>1, <3>1, <3>2, <3>3, SetStatusKeeps, Zenon DEF CheckNotRequired
    <2>2. CASE SetCertificateStatus(k)
      <3>1. kpc[k] = "setStatus" /\ kstatus[k] \in Nat
            BY <2>2, Zenon DEF SetCertificateStatus, ProxyInv, Typed
      <3>2. Current(k) \in Routes \ overlap => (kstatus[k] \in Servable <=> cert[Current(k)] # NoCert)
            BY <3>1, Zenon DEF ProxyInv, CheckInv, Matching
      <3>3. kstatus' \in [Checkers -> Nat] /\ \A j \in Checkers \ {k} : kstatus'[j] = kstatus[j]
            BY <2>2, Zenon DEF SetCertificateStatus, ProxyInv, Typed, NotChecked
      <3> QED
            BY <2>2, <3>1, <3>2, <3>3, SetStatusKeeps, Zenon DEF SetCertificateStatus
    <2> QED
          BY <1>3, <2>1, <2>2, StartKeeps, GetKeeps, GetErrorKeeps, GetExistingKeeps, SetCertificateKeeps, Zenon DEF CheckStep
  <1>4. ASSUME NEW n \in Names, NeedRenewal(n) \/ Expire(n) PROVE ProxyInv'
        BY <1>4, AgeKeeps, Zenon
  <1>5. CASE UNCHANGED vars
    <2> USE <1>5 DEF vars, setVars, tableVars, routeVars, providerVars, checkVars
    <2>1. Typed' /\ Grows
          BY SMTT(20) DEF ProxyInv, Typed, ProviderTyped, Grows
    <2>2. Obtained'
          BY <2>1, StaysObtained, Zenon DEF ProxyInv, Obtained
    <2>3. Private' /\ Unstarted' /\ Without' /\ Alone' /\ StatusMatchesCert'
          BY Zenon DEF ProxyInv, Private, Unstarted, Without, Alone, StatusMatchesCert, Busy, Current
    <2>4. ASSUME NEW k \in Checkers PROVE CheckInv(k)'
          BY <2>1, Bystander, Zenon DEF ProxyInv
    <2> QED
          BY <2>1, <2>2, <2>3, <2>4, Zenon DEF ProxyInv
  <1> QED
        BY <1>1, <1>2, <1>3, <1>4, <1>5, Zenon DEF Next

(***************************************************************************)
(* ProxyInv is an invariant.                                               *)
(***************************************************************************)
THEOREM ProxyInvariant == Spec => []ProxyInv
  BY ProxyInitially, ProxyInductive, PTL DEF Spec

(***************************************************************************)
(* Where checks do not overlap, status and certificate of a route match    *)
(* whenever no check is between its two stores (updateCert), for any       *)
(* number of loads, routes and checks.                                     *)
(***************************************************************************)
THEOREM StatusMatches == Spec => []StatusMatchesCert
  <1>1. ProxyInv => StatusMatchesCert
        BY Zenon DEF ProxyInv
  <1> QED
        BY <1>1, ProxyInvariant, PTL

(***************************************************************************)
(* What a check stores after it kept or renewed a certificate that is not  *)
(* dead is newer, unless it is the same.                                   *)
(***************************************************************************)
LEMMA Larger ==
  ASSUME NEW a \in Nat, NEW b \in Nat, NEW d \in Nat, a > d, a # b, b >= a \/ a <= d
  PROVE  b > a
  OBVIOUS

(***************************************************************************)
(* Where checks do not overlap and the store can be read, a route never    *)
(* loses a valid certificate to an older one or to none (updateCert,       *)
(* loadCertificate).                                                       *)
(***************************************************************************)
THEOREM ValidKept == Spec => ValidCertKept
  <1> DEFINE Kept == \A r \in Routes \ (overlap' \cup unread) :
               r[1] <= loads /\ cert[r] # cert'[r] /\ cert[r] > dead[NameOf(r)]
                 => cert'[r] > cert[r]
  <1>1. ProxyInv /\ [Next]_vars => [Kept]_vars
    <2> SUFFICES ASSUME ProxyInv, [Next]_vars, NEW r \in Routes \ (overlap' \cup unread),
                        cert[r] # cert'[r], cert[r] > dead[NameOf(r)]
                 PROVE  cert'[r] > cert[r]
        BY Zenon
    <2>1. cert[r] \in Nat /\ (cert[r] # NoCert => NameOf(r) \in Names)
          BY NamesKnown, Zenon DEF ProxyInv, Typed, Obtained
    <2>2. CASE LoadCertificate
      <3>1. r = <<loads, si>>
            BY <2>2, Zenon DEF LoadCertificate, ProxyInv, Typed
      <3>2. cert[r] = NoCert /\ Exists(r)
        <4>1. loads \in Nat /\ loads > 0 /\ si > 0 /\ si \in Nat /\ si <= Len(config[loads].routes)
              BY <2>2 DEF ProxyInv, Typed, Private, LoadCertificate, RouteCount
        <4>2. Len(config[loads].routes) \in Nat
              BY <4>1, ConfigAssumption DEF ProxyInv, Typed
        <4> QED
              BY <2>2, <3>1, <4>1, <4>2 DEF LoadCertificate, ProxyInv, Private, Exists
      <3>3. dead[NameOf(r)] \in Nat
            BY <3>2, NamesKnown, Zenon DEF ProxyInv, Typed, ProviderTyped
      <3> QED
            BY <3>2, <3>3 DEF NoCert
    <2>3. ASSUME NEW k \in Checkers, SetCertificate(k) PROVE cert'[r] > cert[r]
      <3>1. r = Current(k) /\ cert'[r] = kcert[k] /\ kpc[k] = "setCert" /\ overlap' = overlap
            BY <2>3, Zenon DEF SetCertificate, NewCertificate, ProxyInv, Typed
      <3>2. kcert[k] >= cert[r] \/ cert[r] <= dead[NameOf(r)]
            BY <3>1, Zenon DEF ProxyInv, CheckInv, Newer
      <3>3. kcert[k] \in Nat /\ dead[NameOf(r)] \in Nat
            BY <3>1, NamesKnown, Zenon DEF ProxyInv, CheckInv, Walks, Typed, ProviderTyped
      <3>4. cert[r] > dead[NameOf(r)] /\ cert[r] # kcert[k]
            BY <3>1, Zenon
      <3> QED
            BY <2>1, <3>1, <3>2, <3>3, <3>4, Larger, Zenon
    <2>4. LoadCertificate \/ \E k \in Checkers : SetCertificate(k)
          BY Zenon DEF Next, SetRoutes, SetRoutesStep, RejectRoutes, StoreDomains, StoreRoutes, StoreFallback,
                 CheckStep, StartCheck, CheckNotRequired, GetCertificate, GetCertificateError,
                 GetExistingCertificate, SetCertificateStatus, NeedRenewal, Expire, vars, routeVars
    <2> QED
          BY <2>2, <2>3, <2>4, Zenon
  <1> QED
        BY <1>1, ProxyInvariant, PTL DEF Spec, ValidCertKept

-----------------------------------------------------------------------------
\* What RouteTable sees of this state.
Visible == IF spc = "loading" THEN SubSeq(config, 1, loads - 1) ELSE config
Serving == {r \in Routes : /\ r[1] \in {domains, fallback}
                           /\ r[2] <= RouteCount(r[1])
                           /\ status[r] > Missing}

\* The loads that SetRoutes has completed without an error, and 0.
Completed == {0} \cup {v \in 1..loads : config[v].valid /\ (v < loads \/ spc = "idle")}

(***************************************************************************)
(* The stored fallback is that of the last completed load; so is the map   *)
(* of domains, unless SetRoutes has just replaced it.                      *)
(***************************************************************************)
Stored ==
  /\ spc \in {"idle", "loading", "storeRoutes", "storeFallback"}
  /\ loads <= MaxLoads /\ fallback \in 0..loads
  /\ fallback \in Completed /\ \A v \in Completed : v <= fallback
  /\ IF spc \in {"idle", "loading"} THEN domains = fallback
     ELSE domains = loads /\ config[loads].valid
  /\ spc # "idle" => loads > 0 /\ fallback < loads

TableInv == ProxyInv /\ Stored

(***************************************************************************)
(* A greatest number is the one that is chosen.                            *)
(***************************************************************************)
LEMMA ChosenMax ==
  ASSUME NEW D \in SUBSET Nat, NEW m \in D, \A v \in D : v <= m
  PROVE  m = CHOOSE v \in D : \A u \in D : u <= v
  <1>1. \A v \in D : (\A u \in D : u <= v) => v = m
        OBVIOUS
  <1> QED
        BY <1>1, Zenon

(***************************************************************************)
(* The last completed load is the one whose fallback is stored.            *)
(***************************************************************************)
LEMMA InstalledIs ==
  ASSUME TableInv, TableInv'
  PROVE  Installed = fallback /\ Installed' = fallback'
  <1>1. Completed \in SUBSET Nat /\ fallback \in Completed /\ \A v \in Completed : v <= fallback
        BY DEF TableInv, ProxyInv, Typed, Completed, Stored
  <1>2. Completed' \in SUBSET Nat /\ fallback' \in Completed' /\ \A v \in Completed' : v <= fallback'
        BY DEF TableInv, ProxyInv, Typed, Completed, Stored
  <1>3. Installed = CHOOSE v \in Completed : \A u \in Completed : u <= v
        BY Zenon DEF Installed, Completed
  <1>4. Installed' = CHOOSE v \in Completed' : \A u \in Completed' : u <= v
        BY Zenon DEF Installed, Completed
  <1>5. Installed = fallback
        BY <1>1, <1>3, ChosenMax, Zenon
  <1>6. Installed' = fallback'
        BY <1>2, <1>4, ChosenMax, Zenon
  <1> QED
        BY <1>5, <1>6, Zenon

(***************************************************************************)
(* Stored holds initially and is preserved by SetRoutes; nobody else       *)
(* writes the table.                                                       *)
(***************************************************************************)
LEMMA StoredKept ==
  ASSUME TableInv, [Next]_vars
  PROVE  Stored'
  <1>0. /\ loads \in Nat /\ config \in Seq(Configs) /\ loads = Len(config) /\ MaxLoads \in Nat
        BY ConfigAssumption DEF TableInv, ProxyInv, Typed
  <1>1. ASSUME NEW c \in Configs, SetRoutes(c) PROVE Stored'
    <2>1. /\ spc = "idle" /\ spc' = "loading" /\ loads' = loads + 1 /\ loads' <= MaxLoads
          /\ fallback' = fallback /\ domains' = domains
          BY <1>0, <1>1 DEF SetRoutes, tableVars
    <2>2. \A v \in 1..loads : config'[v] = config[v]
          BY <1>0, <1>1 DEF SetRoutes
    <2>3. Completed' = Completed
          BY <1>0, <2>1, <2>2 DEF Completed
    <2> QED
          BY <1>0, <2>1, <2>3 DEF TableInv, Stored
  <1>2. CASE RejectRoutes
    <2>1. /\ spc = "loading" /\ spc' = "idle" /\ ~config[loads].valid
          /\ UNCHANGED <<loads, config, fallback, domains>>
          BY <1>2, Zenon DEF RejectRoutes, tableVars, Accept
    <2>2. Completed' = Completed
          BY <1>0, <2>1 DEF Completed
    <2> QED
          BY <1>0, <2>1, <2>2, Zenon DEF TableInv, Stored
  <1>3. CASE StoreDomains
    <2>1. /\ spc = "loading" /\ spc' = "storeRoutes" /\ config[loads].valid /\ domains' = loads
          /\ UNCHANGED <<loads, config, fallback>>
          BY <1>3, Zenon DEF StoreDomains, Accept
    <2>2. Completed' = Completed
          BY <2>1, Zenon DEF Completed
    <2> QED
          BY <1>0, <2>1, <2>2, Zenon DEF TableInv, Stored
  <1>4. CASE StoreFallback
    <2>1. /\ spc = "storeFallback" /\ spc' = "idle" /\ fallback' = loads
          /\ UNCHANGED <<loads, config, domains>>
          BY <1>4, Zenon DEF StoreFallback, NewFallback
    <2>2. loads \in Completed' /\ \A v \in Completed' : v <= loads
          BY <1>0, <2>1 DEF Completed, TableInv, Stored
    <2> QED
          BY <1>0, <2>1, <2>2 DEF TableInv, Stored
  <1>5. ASSUME \/ spc' = spc
               \/ spc = "storeRoutes" /\ spc' = "storeFallback",
               UNCHANGED <<loads, config, fallback, domains>>
        PROVE  Stored'
    <2>1. Completed' = Completed
          BY <1>5, Zenon DEF Completed
    <2> QED
          BY <1>5, <2>1, Zenon DEF TableInv, Stored
  <1>6. CASE LoadCertificate \/ StoreRoutes \/ (\E k \in Checkers : CheckStep(k))
               \/ (\E n \in Names : NeedRenewal(n) \/ Expire(n)) \/ UNCHANGED vars
    <2>1. /\ spc' = spc \/ (spc = "storeRoutes" /\ spc' = "storeFallback")
          /\ UNCHANGED <<loads, config, fallback, domains>>
          BY <1>6, Zenon DEF LoadCertificate, StoreRoutes, CheckStep, StartCheck, CheckNotRequired,
                 GetCertificate, GetCertificateError, GetExistingCertificate, SetCertificate,
                 SetCertificateStatus, NeedRenewal, Expire, vars, setVars, tableVars
    <2> QED
          BY <1>5, <2>1, Zenon
  <1> QED
        BY <1>1, <1>2, <1>3, <1>4, <1>6, Zenon DEF Next, SetRoutesStep

(***************************************************************************)
(* TableInv is an invariant.                                               *)
(***************************************************************************)
LEMMA TableInvariant == Spec => []TableInv
  <1>1. Init => Stored
        BY ConfigAssumption DEF Init, Stored, Completed
  <1>2. TableInv /\ [Next]_vars => TableInv'
        BY StoredKept, ProxyInductive, Zenon DEF TableInv
  <1> QED
        BY <1>1, <1>2, ProxyInitially, PTL DEF Spec, TableInv

-----------------------------------------------------------------------------
(***************************************************************************)
(* The table of a state in which nothing but the status of one route or    *)
(* nothing at all differs.                                                 *)
(***************************************************************************)
LEMMA StutterOn ==
  ASSUME TableInv, TableInv', Visible' = Visible, UNCHANGED <<domains, fallback>>, Serving' = Serving
  PROVE  UNCHANGED Table!tableVars
  <1>1. Installed' = Installed
        BY InstalledIs, Zenon
  <1> QED
        BY <1>1, Zenon DEF Table!tableVars, Visible, Serving

(***************************************************************************)
(* A sequence is its front and its last element.                           *)
(***************************************************************************)
LEMMA FrontAndLast ==
  ASSUME NEW S, NEW s \in Seq(S), Len(s) > 0
  PROVE  /\ s = Append(SubSeq(s, 1, Len(s) - 1), s[Len(s)])
         /\ SubSeq(s, 1, Len(s) - 1) \in Seq(S) /\ Len(SubSeq(s, 1, Len(s) - 1)) = Len(s) - 1
         /\ \A i \in 1..Len(s) - 1 : SubSeq(s, 1, Len(s) - 1)[i] = s[i]
  <1> DEFINE f == SubSeq(s, 1, Len(s) - 1)
  <1>1. f \in Seq(S)
    <2>1. Len(s) - 1 \in Nat /\ \A i \in 1..Len(s) - 1 : s[i] \in S
          OBVIOUS
    <2> QED
          BY <2>1
  <1>2. Len(f) = Len(s) - 1
    <2>1. Len(s) - 1 \in Nat
          OBVIOUS
    <2> QED
          BY <2>1
  <1>3. \A i \in 1..Len(s) - 1 : f[i] = s[i]
        OBVIOUS
  <1>4. s = Append(f, s[Len(s)])
    <2>1. s[Len(s)] \in S
          OBVIOUS
    <2>2. Append(f, s[Len(s)]) \in Seq(S) /\ Len(Append(f, s[Len(s)])) = Len(s)
          BY <1>1, <1>2, <2>1
    <2>3. \A i \in 1..Len(s) : Append(f, s[Len(s)])[i] = s[i]
          BY <1>1, <1>2, <1>3, <2>1
    <2> QED
          BY <2>2, <2>3
  <1> QED
        BY <1>1, <1>2, <1>3, <1>4, Zenon

(***************************************************************************)
(* Appending is undone by taking the front.                                *)
(***************************************************************************)
LEMMA FrontOfAppend ==
  ASSUME NEW S, NEW s \in Seq(S), NEW c \in S
  PROVE  SubSeq(Append(s, c), 1, Len(s)) = s
  OBVIOUS

(***************************************************************************)
(* The routes of the configurations in the table, in both specifications.  *)
(***************************************************************************)
LEMMA SameRoutes ==
  ASSUME TableInv, NEW v \in {domains, fallback}
  PROVE  /\ v \in 0..loads
         /\ v # 0 => Visible[v] = config[v] /\ DOMAIN config[v].routes = 1..RouteCount(v)
                      /\ config[v] \in Configs
         /\ Table!RoutesOf(v) = IF v = 0 THEN {} ELSE {<<v, i>> : i \in 1..RouteCount(v)}
  <1>1. /\ loads \in Nat /\ config \in Seq(Configs) /\ loads = Len(config)
        BY DEF TableInv, ProxyInv, Typed
  <1>2. v \in 0..loads /\ (spc = "loading" => v < loads)
        BY <1>1 DEF TableInv, Stored
  <1>3. ASSUME v # 0 PROVE Visible[v] = config[v] /\ DOMAIN config[v].routes = 1..RouteCount(v)
                           /\ config[v] \in Configs
    <2>1. v \in 1..loads /\ config[v] \in Configs
          BY <1>1, <1>2, <1>3
    <2>2. config[v].routes \in Seq([name : Names, domains : SUBSET Domains])
          BY <2>1, ConfigAssumption, Zenon
    <2>3. DOMAIN config[v].routes = 1..RouteCount(v)
          BY <2>2, <1>3 DEF RouteCount
    <2>4. CASE spc = "loading"
      <3>1. v \in 1..Len(config) - 1 /\ Len(config) > 0
            BY <1>1, <1>2, <2>1, <2>4
      <3>2. SubSeq(config, 1, Len(config) - 1)[v] = config[v]
            BY <1>1, <3>1, FrontAndLast, Zenon
      <3> QED
            BY <1>1, <2>1, <2>3, <2>4, <3>2, Zenon DEF Visible
    <2> QED
          BY <2>1, <2>3, <2>4, Zenon DEF Visible
  <1>4. Table!RoutesOf(v) = IF v = 0 THEN {} ELSE {<<v, i>> : i \in DOMAIN Visible[v].routes}
        BY Zenon DEF Table!RoutesOf, Visible
  <1> QED
        BY <1>2, <1>3, <1>4, Zenon

(***************************************************************************)
(* The parts of a route.                                                   *)
(***************************************************************************)
LEMMA RouteParts ==
  ASSUME NEW r \in Routes
  PROVE  r = <<r[1], r[2]>> /\ r[1] \in Loads /\ r[2] \in Positions /\ r[2] \in Nat \ {0}
  <1>1. r = <<r[1], r[2]>> /\ r[1] \in Loads /\ r[2] \in Positions
        BY DEF Routes
  <1> QED
        BY <1>1, PositionsAre, Zenon

(***************************************************************************)
(* A route of a configuration in the table is told by its first component. *)
(***************************************************************************)
LEMMA Listed ==
  ASSUME TableInv, NEW v \in {domains, fallback}, NEW r \in Routes, r[2] <= RouteCount(r[1])
  PROVE  r \in Table!RoutesOf(v) <=> r[1] = v
  <1>1. r = <<r[1], r[2]>> /\ r[1] \in Loads /\ r[2] \in Nat \ {0}
        BY RouteParts, Zenon
  <1>2. r[1] # 0
        BY <1>1 DEF Loads
  <1>3. ASSUME r[1] = v PROVE r \in Table!RoutesOf(v)
    <2>1. config[v] \in Configs /\ v # 0
          BY <1>2, <1>3, SameRoutes, Zenon
    <2>2. RouteCount(v) \in Nat
          BY <2>1, ConfigAssumption DEF RouteCount
    <2>3. r[2] \in 1..RouteCount(v)
          BY <1>1, <1>3, <2>2
    <2>4. r[2] \in DOMAIN Visible[v].routes
          BY <2>1, <2>3, SameRoutes, Zenon
    <2>5. <<v, r[2]>> \in {<<v, i>> : i \in DOMAIN Visible[v].routes}
          BY <2>4, Zenon
    <2> QED
          BY <1>1, <1>3, <2>1, <2>5, Zenon DEF Table!RoutesOf, Visible
  <1>4. ASSUME r \in Table!RoutesOf(v) PROVE r[1] = v
        BY <1>4, SameRoutes DEF Table!RoutesOf
  <1> QED
        BY <1>3, <1>4, Zenon

-----------------------------------------------------------------------------
(***************************************************************************)
(* Steps that leave the table alone, but for the status of a route that is *)
(* not in it, are not seen.                                                *)
(***************************************************************************)
LEMMA Unseen ==
  ASSUME TableInv, TableInv', UNCHANGED <<domains, fallback>>, Visible' = Visible,
         \A r \in Routes : r[1] \in {domains, fallback} =>
           status'[r] = status[r] /\ RouteCount(r[1])' = RouteCount(r[1])
  PROVE  UNCHANGED Table!tableVars
  <1>1. Serving' = Serving
        BY Zenon DEF Serving
  <1> QED
        BY <1>1, StutterOn, Zenon

(***************************************************************************)
(* SetRoutes begins with a configuration that is not in the table.         *)
(***************************************************************************)
LEMMA SetRoutesUnseen ==
  ASSUME TableInv, TableInv', NEW c \in Configs, SetRoutes(c)
  PROVE  UNCHANGED Table!tableVars
  <1>1. /\ loads \in Nat /\ config \in Seq(Configs) /\ loads = Len(config)
        BY DEF TableInv, ProxyInv, Typed
  <1>2. /\ spc = "idle" /\ spc' = "loading" /\ loads' = loads + 1 /\ config' = Append(config, c)
        /\ UNCHANGED <<domains, fallback, status>>
        BY Zenon DEF SetRoutes, tableVars, routeVars
  <1>3. Visible' = Visible
    <2>1. loads' - 1 = Len(config)
          BY <1>1, <1>2
    <2> QED
          BY <1>1, <1>2, <2>1, FrontOfAppend, Zenon DEF Visible
  <1>4. \A v \in {domains, fallback} : RouteCount(v)' = RouteCount(v)
    <2>1. \A v \in 1..loads : config'[v] = config[v]
          BY <1>1, <1>2
    <2>2. \A v \in {domains, fallback} : v = 0 \/ v \in 1..loads
          BY <1>1, SameRoutes
    <2> QED
          BY <2>1, <2>2, Zenon DEF RouteCount
  <1> QED
        BY <1>2, <1>3, <1>4, Unseen, Zenon

(***************************************************************************)
(* A load that is refused adds its configuration and nothing else.         *)
(***************************************************************************)
LEMMA RejectRefuses ==
  ASSUME TableInv, TableInv', RejectRoutes
  PROVE  \E c \in Configs : Table!Refuse(c)
  <1>1. /\ loads \in Nat /\ config \in Seq(Configs) /\ loads = Len(config) /\ loads > 0
        /\ loads <= MaxLoads /\ MaxLoads \in Nat
        BY ConfigAssumption DEF TableInv, ProxyInv, Typed, Private, Stored, RejectRoutes
  <1>2. /\ spc = "loading" /\ spc' = "idle" /\ ~config[loads].valid
        /\ UNCHANGED <<loads, config, domains, fallback, status>>
        BY Zenon DEF RejectRoutes, tableVars, routeVars, Accept
  <1> DEFINE c == config[loads]
  <1>3. c \in Configs
        BY <1>1
  <1>4. Visible' = Append(Visible, c) /\ Len(Visible) = loads - 1
        BY <1>1, <1>2, FrontAndLast, Zenon DEF Visible
  <1>5. Len(Visible) < MaxLoads
        BY <1>1, <1>4
  <1>6. Serving' = Serving
        BY <1>2, Zenon DEF Serving, RouteCount
  <1>7. Installed' = Installed /\ domains = Installed
        BY <1>2, InstalledIs, Zenon DEF TableInv, Stored
  <1> HIDE DEF c
  <1>8. Table!Refuse(c)
        BY <1>2, <1>4, <1>5, <1>6, <1>7, Zenon DEF Table!Refuse, Table!Publishing, Visible, Serving, c
  <1> QED
        BY <1>3, <1>8, Zenon

(***************************************************************************)
(* routeMap.Update publishes the routes of the new configuration that are  *)
(* not held back; of the old ones the fallback stays.                      *)
(***************************************************************************)
LEMMA StorePublishes ==
  ASSUME TableInv, TableInv', StoreDomains
  PROVE  \E c \in Configs : Table!PublishDomains(c)
  <1>1. /\ loads \in Nat /\ config \in Seq(Configs) /\ loads = Len(config) /\ loads > 0
        /\ loads <= MaxLoads /\ MaxLoads \in Nat
        BY ConfigAssumption DEF TableInv, ProxyInv, Typed, Private, Stored, StoreDomains
  <1>2. /\ spc = "loading" /\ spc' = "storeRoutes" /\ config[loads].valid /\ domains' = loads
        /\ UNCHANGED <<loads, config, fallback, status>>
        BY Zenon DEF StoreDomains, routeVars, Accept
  <1>0. PICK c : c = config[loads]
        OBVIOUS
  <1> DEFINE new == {i \in DOMAIN c.routes : status[<<loads, i>>] > Missing}
  <1>3. c \in Configs
        BY <1>0, <1>1
  <1>4. Visible' = Append(Visible, c) /\ Len(Visible) = loads - 1
        BY <1>0, <1>1, <1>2, FrontAndLast, Zenon DEF Visible
  <1>5. Len(Visible) < MaxLoads /\ domains' = Len(Visible')
        BY <1>1, <1>2, <1>4 DEF Visible
  <1>6. domains = fallback
        BY <1>2, Zenon DEF TableInv, Stored
  <1>7. Installed' = Installed /\ domains = Installed
        BY <1>2, <1>6, InstalledIs, Zenon
  <1>8. Serving' = (Serving \cap Table!RoutesOf(fallback)) \cup {<<domains', i>> : i \in new}
    <2>1. c.routes \in Seq([name : Names, domains : SUBSET Domains])
          BY <1>3, ConfigAssumption, Zenon
    <2>2. /\ DOMAIN c.routes = 1..RouteCount(loads) /\ RouteCount(loads) \in Nat
          /\ RouteCount(loads)' = RouteCount(loads) /\ loads \in Loads
          BY <1>0, <1>1, <1>2, <2>1 DEF RouteCount, Loads
    <2>3. ASSUME NEW r \in Serving' PROVE r \in (Serving \cap Table!RoutesOf(fallback)) \cup {<<domains', i>> : i \in new}
      <3>1. /\ r \in Routes /\ r[1] \in {loads, fallback} /\ r[2] <= RouteCount(r[1]) /\ status[r] > Missing
            BY <1>2, <2>3, Zenon DEF Serving, RouteCount
      <3>2. CASE r[1] = fallback
            BY <1>6, <3>1, <3>2, Listed, Zenon DEF Serving
      <3>3. CASE r[1] = loads
        <4>1. r = <<loads, r[2]>> /\ r[2] \in Nat \ {0}
              BY <3>1, <3>3, RouteParts, Zenon
        <4>2. r[2] \in new
              BY <2>2, <3>1, <3>3, <4>1
        <4> QED
              BY <1>2, <4>1, <4>2, Zenon
      <3> QED
            BY <3>1, <3>2, <3>3, Zenon
    <2>4. ASSUME NEW r \in Serving \cap Table!RoutesOf(fallback) PROVE r \in Serving'
      <3>1. r \in Routes /\ r[1] \in {domains, fallback} /\ r[2] <= RouteCount(r[1]) /\ status[r] > Missing
            BY <2>4, Zenon DEF Serving
      <3> QED
            BY <1>2, <1>6, <3>1, Zenon DEF Serving, RouteCount
    <2>5. ASSUME NEW i \in new PROVE <<domains', i>> \in Serving'
      <3>1. i \in Positions /\ i <= RouteCount(loads)
            BY <1>3, <2>2 DEF Positions
      <3>2. <<loads, i>> \in Routes /\ <<loads, i>>[1] = loads /\ <<loads, i>>[2] = i
            BY <2>2, <3>1, Zenon DEF Routes
      <3> QED
            BY <1>2, <2>2, <3>1, <3>2, Zenon DEF Serving
    <2> QED
          BY <2>3, <2>4, <2>5, Zenon
  <1>9. new \in SUBSET (DOMAIN c.routes)
        BY Zenon
  <1> HIDE DEF new
  <1>10. Table!PublishDomains(c)
        BY <1>0, <1>2, <1>4, <1>5, <1>7, <1>8, <1>9, Zenon DEF Table!PublishDomains, Table!Publishing, Visible, Serving
  <1> QED
        BY <1>3, <1>10, Zenon

(***************************************************************************)
(* With the new fallback nothing of the configuration before is left.      *)
(***************************************************************************)
LEMMA StoreCompletes ==
  ASSUME TableInv, TableInv', StoreFallback
  PROVE  Table!PublishFallback
  <1>1. /\ spc = "storeFallback" /\ spc' = "idle" /\ fallback' = loads
        /\ UNCHANGED <<loads, config, domains, status>>
        BY Zenon DEF StoreFallback, NewFallback, routeVars
  <1>2. domains = loads /\ loads \in Nat /\ fallback < loads /\ fallback \in 0..loads
        BY <1>1 DEF TableInv, Stored, ProxyInv, Typed
  <1>3. Installed = fallback /\ Installed' = domains /\ domains # Installed
        BY <1>1, <1>2, InstalledIs
  <1>4. Visible' = Visible
        BY <1>1, Zenon DEF Visible
  <1>5. Serving' = Serving \cap Table!RoutesOf(domains)
    <2>1. \A r \in Serving : r \in Routes /\ r[2] <= RouteCount(r[1])
          BY Zenon DEF Serving
    <2>2. \A r \in Serving : r \in Table!RoutesOf(domains) <=> r[1] = domains
          BY <2>1, Listed, Zenon
    <2>3. Serving' = {r \in Serving : r[1] = domains}
          BY <1>1, <1>2, Zenon DEF Serving, RouteCount
    <2> QED
          BY <2>2, <2>3, Zenon
  <1> QED
        BY <1>1, <1>2, <1>3, <1>4, <1>5, Zenon DEF Table!PublishFallback, Table!Publishing, Visible, Serving

(***************************************************************************)
(* A check changes the status of one route, which may be in the table.     *)
(***************************************************************************)
LEMMA CheckSeen ==
  ASSUME TableInv, TableInv', NEW r, NEW s,
         status' = [status EXCEPT ![r] = s], UNCHANGED <<spc, loads, config, domains, fallback>>
  PROVE  Table!Check \/ UNCHANGED Table!tableVars
  <1>1. Visible' = Visible /\ Installed' = Installed
        BY InstalledIs, Zenon DEF Visible
  <1>2. \A q \in Routes : q # r => status'[q] = status[q]
        BY Zenon DEF TableInv, ProxyInv, Typed
  <1>3. \A q : q # r => (q \in Serving' <=> q \in Serving)
        BY <1>2, Zenon DEF Serving, RouteCount
  <1>4. CASE r \in Serving <=> r \in Serving'
    <2>1. \A q : q \in Serving' <=> q \in Serving
          BY <1>3, <1>4, Zenon
    <2>2. Serving' = Serving
          BY <2>1, Zenon
    <2> QED
          BY <1>1, <2>2, StutterOn, Zenon
  <1>5. CASE ~(r \in Serving <=> r \in Serving')
    <2>1. r \in Routes /\ r[1] \in {domains, fallback} /\ r[2] <= RouteCount(r[1])
          BY <1>5, Zenon DEF Serving, RouteCount
    <2>2. r \in Table!RoutesOf(domains) \cup Table!RoutesOf(fallback)
          BY <2>1, Listed, Zenon
    <2>3. Serving' = IF r \in Serving THEN Serving \ {r} ELSE Serving \cup {r}
      <3>1. CASE r \in Serving
            BY <1>3, <1>5, <3>1, Zenon
      <3>2. CASE r \notin Serving
            BY <1>3, <1>5, <3>2, Zenon
      <3> QED
            BY <3>1, <3>2, Zenon
    <2>4. Table!Check
          BY <1>1, <2>2, <2>3, Zenon DEF Table!Check, Visible, Serving
    <2> QED
          BY <2>4, Zenon
  <1> QED
        BY <1>4, <1>5, Zenon

(***************************************************************************)
(* Every step of ProxyManager is one of RouteTable, or changes nothing     *)
(* that RouteTable speaks of.                                              *)
(***************************************************************************)
LEMMA TableStep ==
  ASSUME TableInv, TableInv', [Next]_vars
  PROVE  Table!TableNext \/ UNCHANGED Table!tableVars
  <1>1. ASSUME NEW c \in Configs, SetRoutes(c) PROVE UNCHANGED Table!tableVars
        BY <1>1, SetRoutesUnseen, Zenon
  <1>2. CASE LoadCertificate
    <2>1. /\ spc = "loading" /\ UNCHANGED <<spc, loads, config, domains, fallback>>
          BY <1>2, Zenon DEF LoadCertificate, tableVars
    <2>2. \A r \in Routes : r # <<loads, si>> => status'[r] = status[r]
          BY <1>2, Zenon DEF LoadCertificate, TableInv, ProxyInv, Typed
    <2>3. loads \notin {domains, fallback}
          BY <2>1 DEF TableInv, Stored, ProxyInv, Typed
    <2>4. \A r \in Routes : r[1] \in {domains, fallback} => r # <<loads, si>>
          BY <2>3
    <2> QED
          BY <2>1, <2>2, <2>4, Unseen, Zenon DEF Visible, RouteCount
  <1>3. CASE RejectRoutes
        BY <1>3, RejectRefuses, Zenon DEF Table!TableNext
  <1>4. CASE StoreDomains
        BY <1>4, StorePublishes, Zenon DEF Table!TableNext
  <1>5. CASE StoreRoutes
    <2>1. /\ spc = "storeRoutes" /\ spc' = "storeFallback"
          /\ UNCHANGED <<loads, config, domains, fallback, status>>
          BY <1>5, Zenon DEF StoreRoutes, routeVars
    <2> QED
          BY <2>1, Unseen, Zenon DEF Visible, RouteCount
  <1>6. CASE StoreFallback
        BY <1>6, StoreCompletes, Zenon DEF Table!TableNext
  <1>7. ASSUME NEW k \in Checkers, CheckNotRequired(k) \/ SetCertificateStatus(k)
        PROVE  Table!Check \/ UNCHANGED Table!tableVars
    <2>1. UNCHANGED <<spc, loads, config, domains, fallback>>
          BY <1>7, Zenon DEF CheckNotRequired, SetCertificateStatus, setVars, tableVars
    <2>2. \E s : status' = [status EXCEPT ![Current(k)] = s]
          BY <1>7, Zenon DEF CheckNotRequired, SetCertificateStatus
    <2> QED
          BY <2>1, <2>2, CheckSeen, Zenon
  <1>8. ASSUME UNCHANGED <<spc, loads, config, domains, fallback, status>>
        PROVE  UNCHANGED Table!tableVars
        BY <1>8, Unseen, Zenon DEF Visible, RouteCount
  <1>9. ASSUME NEW k \in Checkers, CheckStep(k)
        PROVE  Table!Check \/ UNCHANGED Table!tableVars
    <2>1. CASE CheckNotRequired(k) \/ SetCertificateStatus(k)
          BY <1>7, <2>1, Zenon
    <2>2. CASE \/ StartCheck(k) \/ GetCertificate(k) \/ GetCertificateError(k)
               \/ GetExistingCertificate(k) \/ SetCertificate(k)
      <3>1. UNCHANGED <<spc, loads, config, domains, fallback, status>>
            BY <2>2, Zenon DEF StartCheck, GetCertificate, GetCertificateError, GetExistingCertificate,
                   SetCertificate, setVars, tableVars, routeVars
      <3> QED
            BY <1>8, <3>1, Zenon
    <2> QED
          BY <1>9, <2>1, <2>2, Zenon DEF CheckStep
  <1>10. ASSUME NEW n \in Names, NeedRenewal(n) \/ Expire(n)
         PROVE  UNCHANGED Table!tableVars
    <2>1. UNCHANGED <<spc, loads, config, domains, fallback, status>>
          BY <1>10, Zenon DEF NeedRenewal, Expire, setVars, tableVars, routeVars
    <2> QED
          BY <1>8, <2>1, Zenon
  <1>11. CASE UNCHANGED vars
    <2>1. UNCHANGED <<spc, loads, config, domains, fallback, status>>
          BY <1>11, Zenon DEF vars, setVars, tableVars, routeVars
    <2> QED
          BY <1>8, <2>1, Zenon
  <1> QED
        BY <1>1, <1>2, <1>3, <1>4, <1>5, <1>6, <1>9, <1>10, <1>11, Zenon
           DEF Next, SetRoutesStep, Table!TableNext

(***************************************************************************)
(* ProxyManager implements RouteTable, for any configurations, loads and   *)
(* checks: requests see accepted configurations only, published whole, the *)
(* map of domains before the fallback (SetRoutes, routeMap.Update), while  *)
(* checks change the status of routes at any time.                         *)
(***************************************************************************)
THEOREM TableImplemented == Spec => ImplementsTable
  <1>1. Init => Table!TableInit
    <2> SUFFICES ASSUME Init PROVE Table!TableInit
        BY Zenon
    <2>1. spc = "idle" /\ loads = 0 /\ config = <<>> /\ domains = 0 /\ fallback = 0
          BY Zenon DEF Init
    <2>2. Installed = 0
      <3>1. {v \in 1..loads : config[v].valid /\ (v < loads \/ spc = "idle")} = {}
            BY <2>1
      <3>2. Installed = CHOOSE v \in {0} : \A u \in {0} : u <= v
            BY <3>1, Zenon DEF Installed
      <3> QED
            BY <3>2
    <2>3. Serving = {}
      <3>1. \A r \in Routes : r[1] # 0
            BY RouteParts DEF Loads
      <3> QED
            BY <2>1, <3>1, Zenon DEF Serving
    <2> QED
          BY <2>1, <2>2, <2>3, Zenon DEF Table!TableInit, Serving
  <1>2. TableInv /\ TableInv' /\ [Next]_vars => [Table!TableNext]_(Table!tableVars)
        BY TableStep, Zenon
  <1> QED
        BY <1>1, <1>2, TableInvariant, PTL DEF Spec, ImplementsTable, Table!TableSpec

-----------------------------------------------------------------------------
(***************************************************************************)
(* The least-number principle: a set of numbers has a least member.        *)
(***************************************************************************)
LEMMA Least ==
  ASSUME NEW S \in SUBSET Nat, S # {}
  PROVE  \E m \in S : \A j \in S : m <= j
  <1> DEFINE R == OpToRel(<, Nat)
  <1>1. PICK m \in S : \A j \in S : ~(<<j, m>> \in R)
    <2>1. IsWellFoundedOn(R, Nat)
          BY NatLessThanWellFounded, Zenon
    <2> HIDE DEF R
    <2> QED
          BY <2>1, WFMin, Zenon
  <1>2. ASSUME NEW j \in S PROVE ~(j < m)
        BY <1>1, <1>2, Zenon DEF OpToRel
  <1> QED
        BY <1>2

(***************************************************************************)
(* A set of numbers that has a bound has a greatest member.                *)
(***************************************************************************)
LEMMA Greatest ==
  ASSUME NEW n \in Nat, NEW S \in SUBSET (0..n), S # {}
  PROVE  \E m \in S : \A j \in S : j <= m
  <1> DEFINE T == {n - i : i \in S}
  <1>1. T \in SUBSET Nat
    <2>1. \A i \in S : n - i \in Nat
          OBVIOUS
    <2> QED
          BY <2>1, Zenon
  <1>2. T # {}
        BY Zenon
  <1>3. PICK m \in T : \A j \in T : m <= j
        BY <1>1, <1>2, Least, Zenon
  <1>4. PICK i \in S : m = n - i
        BY Zenon
  <1>5. ASSUME NEW j \in S PROVE j <= i
    <2>1. n - j \in T
          BY Zenon
    <2>2. n - i <= n - j
          BY <1>3, <1>4, <2>1, Zenon
    <2> QED
          BY <2>2
  <1> QED
        BY <1>5, Zenon

(***************************************************************************)
(* A domain that SetRoutes must not stop serving is listed by routes that  *)
(* all want the certificate it is served with, which is valid; those that  *)
(* have been loaded are not held back, unless the store could not be read. *)
(***************************************************************************)
Ready(d, i) ==
  LET r == <<loads, i>> IN
  /\ NameOf(r) = NameOf(Match(domains, d))
  /\ latest[NameOf(r)] > dead[NameOf(r)]
  /\ i < si => status[r] > Missing \/ r \in unread

Reloading ==
  spc = "loading" =>
    \A d \in keep : Listing(loads, d) # {} /\ \A i \in Listing(loads, d) : Ready(d, i)

(***************************************************************************)
(* Match finds one of the routes that list the domain.                     *)
(***************************************************************************)
LEMMA MatchIs ==
  ASSUME NEW v, NEW d, Listing(v, d) # {}, RouteCount(v) \in Nat
  PROVE  \E i \in Listing(v, d) : Match(v, d) = <<v, i>>
  <1> DEFINE P(i) == \A j \in Listing(v, d) : j <= i
  <1>1. \E i \in Listing(v, d) : P(i)
    <2> DEFINE n == RouteCount(v)
               L == Listing(v, d)
    <2>1. n \in Nat /\ L \in SUBSET (0..n) /\ L # {}
          BY DEF Listing
    <2> HIDE DEF n, L
    <2>2. \E m \in L : \A j \in L : j <= m
          BY <2>1, Greatest, Zenon
    <2> QED
          BY <2>2, Zenon DEF L
  <1>2. (CHOOSE i \in Listing(v, d) : P(i)) \in Listing(v, d)
        BY <1>1, Zenon
  <1> QED
        BY <1>2, Zenon DEF Match

(***************************************************************************)
(* The configuration of each load stays as it is.                          *)
(***************************************************************************)
LEMMA CountsAre ==
  ASSUME Typed, NEW v \in 1..loads
  PROVE  /\ config[v] \in Configs /\ RouteCount(v) \in Nat /\ v # 0
         /\ DOMAIN config[v].routes = 1..RouteCount(v)
  <1>1. v # 0 /\ config[v] \in Configs
        BY DEF Typed
  <1>2. config[v].routes \in Seq([name : Names, domains : SUBSET Domains])
        BY <1>1, ConfigAssumption, Zenon
  <1> QED
        BY <1>1, <1>2 DEF RouteCount

(***************************************************************************)
(* The routes that SetRoutes is loading are those of its configuration.    *)
(***************************************************************************)
LEMMA LoadingRoutes ==
  ASSUME TableInv, spc = "loading"
  PROVE  /\ loads \in Nat /\ loads > 0 /\ RouteCount(loads) \in Nat
         /\ \A i \in 1..RouteCount(loads) : <<loads, i>> \in Routes /\ Exists(<<loads, i>>)
  <1>1. /\ Typed /\ loads \in Nat /\ loads > 0 /\ loads \in 1..loads /\ loads \in Loads
        BY ConfigAssumption DEF TableInv, ProxyInv, Typed, Stored, Loads
  <1>2. /\ config[loads] \in Configs /\ RouteCount(loads) \in Nat /\ loads # 0
        /\ DOMAIN config[loads].routes = 1..RouteCount(loads)
        BY <1>1, CountsAre, Zenon
  <1>3. RouteCount(loads) = Len(config[loads].routes)
        BY <1>2, Zenon DEF RouteCount
  <1>4. ASSUME NEW i \in 1..RouteCount(loads) PROVE <<loads, i>> \in Routes /\ Exists(<<loads, i>>)
    <2>1. i \in Positions
          BY <1>2, Zenon DEF Positions
    <2>2. <<loads, i>>[1] = loads /\ <<loads, i>>[2] = i
          BY Zenon
    <2>3. <<loads, i>> \in Routes
          BY <1>1, <2>1, Zenon DEF Routes
    <2> QED
          BY <1>1, <1>3, <2>2, <2>3, Zenon DEF Exists
  <1> QED
        BY <1>1, <1>2, <1>4, Zenon

(***************************************************************************)
(* Reloading is preserved while SetRoutes is not at work on its routes.    *)
(***************************************************************************)
LEMMA ReloadingOn ==
  ASSUME TableInv, Reloading, UNCHANGED <<loads, config, domains, si>>,
         spc' = "loading" => spc = "loading", keep' \subseteq keep, unread \subseteq unread',
         spc = "loading" => \A r \in Routes : r[1] = loads => status'[r] = status[r],
         \A d \in keep' : \A n \in Names :
           n = NameOf(Match(domains, d)) /\ latest[n] > dead[n] => latest'[n] > dead'[n]
  PROVE  Reloading'
  <1> SUFFICES ASSUME spc' = "loading", NEW d \in keep'
               PROVE  Listing(loads, d)' # {} /\ \A i \in Listing(loads, d)' : Ready(d, i)'
      BY Zenon DEF Reloading
  <1>1. /\ Listing(loads, d)' = Listing(loads, d) /\ Match(domains, d)' = Match(domains, d)
        /\ \A r : NameOf(r)' = NameOf(r)
    <2>1. \A v : RouteCount(v)' = RouteCount(v)
          BY Zenon DEF RouteCount
    <2>2. \A v : Listing(v, d)' = Listing(v, d)
          BY <2>1, Zenon DEF Listing
    <2>5. Listing(domains, d)' = Listing(domains, d) /\ Listing(loads, d)' = Listing(loads, d)
          BY <2>2, Zenon
    <2>3. Match(domains, d)' = Match(domains, d)
          BY <2>5 DEF Match
    <2>4. \A r : NameOf(r)' = NameOf(r)
          BY Zenon DEF NameOf
    <2> QED
          BY <2>3, <2>4, <2>5, Zenon
  <1>2. Listing(loads, d) # {} /\ \A i \in Listing(loads, d) : Ready(d, i)
        BY Zenon DEF Reloading
  <1>3. ASSUME NEW i \in Listing(loads, d), Ready(d, i) PROVE Ready(d, i)'
    <2>1. <<loads, i>> \in Routes /\ <<loads, i>>[1] = loads /\ Exists(<<loads, i>>)
          BY LoadingRoutes, Zenon DEF Listing
    <2>3. NameOf(<<loads, i>>) \in Names
          BY <2>1, NamesKnown, Zenon DEF TableInv, ProxyInv
    <2>2. status'[<<loads, i>>] = status[<<loads, i>>]
          BY <2>1, Zenon
    <2> QED
          BY <1>1, <1>3, <2>2, <2>3, Zenon DEF Ready
  <1> QED
        BY <1>1, <1>2, <1>3, Zenon

(***************************************************************************)
(* SetRoutes is called: the routes that must be served want a certificate  *)
(* that is valid.                                                          *)
(***************************************************************************)
LEMMA ReloadingStarts ==
  ASSUME TableInv, NEW c \in Configs, SetRoutes(c)
  PROVE  Reloading'
  <1>1. Typed /\ loads \in Nat /\ config \in Seq(Configs) /\ loads = Len(config) /\ domains \in 0..loads
    <2>1. Typed /\ Stored /\ spc = "idle"
          BY Zenon DEF TableInv, ProxyInv, SetRoutes
    <2>2. config \in Seq(Configs) /\ loads = Len(config)
          BY <2>1, Zenon DEF Typed
    <2>3. loads \in Nat
          BY <2>2
    <2>4. domains = fallback /\ fallback \in 0..loads
          BY <2>1, Zenon DEF Stored
    <2> QED
          BY <2>1, <2>2, <2>3, <2>4, Zenon
  <1> PICK v : v = loads + 1
      BY Zenon
  <1>2. /\ loads' = v /\ si' = 1 /\ config' = Append(config, c)
        /\ UNCHANGED <<domains, latest, dead>>
        BY Zenon DEF SetRoutes, tableVars, providerVars
  <1>3. config'[v] = c /\ \A u \in 1..loads : config'[u] = config[u]
        BY <1>1, <1>2
  <1>4. c.routes \in Seq([name : Names, domains : SUBSET Domains])
        BY ConfigAssumption, Zenon
  <1>5. RouteCount(v)' = Len(c.routes) /\ DOMAIN c.routes = 1..Len(c.routes) /\ v # 0
    <2>1. v # 0 /\ DOMAIN c.routes = 1..Len(c.routes)
          BY <1>1, <1>4
    <2> QED
          BY <1>3, <2>1, Zenon DEF RouteCount
  <1> SUFFICES ASSUME NEW d \in keep'
               PROVE  Listing(loads, d)' # {} /\ \A i \in Listing(loads, d)' : Ready(d, i)'
      BY Zenon DEF Reloading
  <1> DEFINE n == NameOf(Match(domains, d))
  <1>6. /\ Match(domains, d) # NoRoute /\ latest[n] > dead[n]
        /\ \E i \in DOMAIN c.routes : d \in c.routes[i].domains
        /\ \A i \in DOMAIN c.routes : d \in c.routes[i].domains => c.routes[i].name = n
        BY Zenon DEF SetRoutes, Serves
  <1>7. Listing(loads, d)' = {i \in DOMAIN c.routes : d \in c.routes[i].domains}
    <2>1. Listing(v, d)' = {i \in 1..RouteCount(v)' : d \in config'[v].routes[i].domains}
          BY Zenon DEF Listing
    <2>2. Listing(v, d)' = {i \in DOMAIN c.routes : d \in c.routes[i].domains}
          BY <1>3, <1>5, <2>1, Zenon
    <2> QED
          BY <1>2, <2>2, Zenon
  <1>8. Match(domains, d)' = Match(domains, d) /\ NameOf(Match(domains, d))' = n
    <2>1. Listing(domains, d) # {}
          BY <1>6, Zenon DEF Match
    <2>2. RouteCount(domains) # 0
      <3>1. \E i : i \in 1..RouteCount(domains)
            BY <2>1, Zenon DEF Listing
      <3> QED
            BY <3>1
    <2>3. domains \in 1..loads
          BY <1>1, <2>2 DEF RouteCount
    <2>4. config'[domains] = config[domains]
          BY <1>3, <2>3, Zenon
    <2>5. RouteCount(domains)' = RouteCount(domains)
          BY <1>2, <2>4, Zenon DEF RouteCount
    <2>6. Listing(domains, d)' = Listing(domains, d)
          BY <1>2, <2>4, <2>5, Zenon DEF Listing
    <2>7. Match(domains, d)' = Match(domains, d)
          BY <1>2, <2>6 DEF Match
    <2>8. Match(domains, d)[1] = domains
          BY <2>1, Zenon DEF Match
    <2> QED
          BY <2>4, <2>7, <2>8, Zenon DEF NameOf
  <1> HIDE DEF n
  <1>9. ASSUME NEW i \in Listing(loads, d)' PROVE Ready(d, i)'
    <2>1. i \in DOMAIN c.routes /\ c.routes[i].name = n /\ i >= 1 /\ i \in Nat
          BY <1>4, <1>5, <1>6, <1>7, <1>9
    <2>2. NameOf(<<loads, i>>)' = n
          BY <1>2, <1>3, <2>1, Zenon DEF NameOf
    <2>3. ~(i < si')
          BY <1>2, <2>1
    <2> QED
          BY <1>2, <1>6, <1>8, <2>2, <2>3, Zenon DEF Ready
  <1> QED
        BY <1>6, <1>7, <1>9, Zenon

(***************************************************************************)
(* SetRoutes loads the certificate of one of its routes: it finds the      *)
(* valid one, unless the store cannot be read.                             *)
(***************************************************************************)
LEMMA ReloadingLoads ==
  ASSUME TableInv, Reloading, LoadCertificate
  PROVE  Reloading'
  <1> DEFINE r == <<loads, si>>
  <1>1. /\ UNCHANGED <<hasProvider, loads, config, spc, domains, keep, latest, due, dead>>
        /\ spc = "loading" /\ si' = si + 1 /\ unread \subseteq unread' /\ si <= RouteCount(loads)
        BY Zenon DEF LoadCertificate, ExistingFor, tableVars, providerVars
  <1>2. si \in Nat /\ si > 0 /\ status \in [Routes -> Nat] /\ ProviderTyped
        BY <1>1, Zenon DEF TableInv, ProxyInv, Typed, Private
  <1>3. \A i \in 1..RouteCount(loads) : <<loads, i>> \in Routes /\ Exists(<<loads, i>>)
        BY <1>1, LoadingRoutes, Zenon
  <1>4. r \in Routes /\ NameOf(r) \in Names
    <2>1. si \in 1..RouteCount(loads)
          BY <1>1, <1>2, LoadingRoutes
    <2> QED
          BY <1>3, <2>1, NamesKnown, Zenon DEF TableInv, ProxyInv
  <1>5. \A q \in Routes : q # r => status'[q] = status[q]
        BY <1>2, Zenon DEF LoadCertificate
  <1>6. latest[NameOf(r)] > dead[NameOf(r)] => status'[r] > Missing \/ r \in unread'
    <2> SUFFICES ASSUME latest[NameOf(r)] > dead[NameOf(r)]
                 PROVE  status'[r] > Missing \/ r \in unread'
        BY Zenon
    <2>1. CASE ~hasProvider
      <3>1. status'[r] = NotRequired
            BY <1>2, <1>4, <2>1, Zenon DEF LoadCertificate
      <3> QED
            BY <3>1 DEF NotRequired, Missing
    <2>2. CASE hasProvider
      <3>1. PICK x : ExistingFor(r, x) /\ status' = [status EXCEPT ![r] = x[2]]
            BY <2>2, Zenon DEF LoadCertificate
      <3>2. status'[r] = x[2]
            BY <1>2, <1>4, <3>1, Zenon
      <3>3. CASE x = Existing(NameOf(r))
        <4>1. x[2] \in {ExpiringSoon, Good}
              BY <1>2, <1>4, <3>3 DEF Existing, ProviderTyped
        <4> QED
              BY <3>2, <4>1 DEF ExpiringSoon, Good, Missing
      <3>4. CASE unread' = unread \cup {r}
            BY <3>4, Zenon
      <3> QED
            BY <3>1, <3>3, <3>4, Zenon DEF ExistingFor
    <2> QED
          BY <2>1, <2>2, Zenon
  <1> SUFFICES ASSUME NEW d \in keep
               PROVE  Listing(loads, d)' # {} /\ \A i \in Listing(loads, d)' : Ready(d, i)'
      BY <1>1, Zenon DEF Reloading
  <1>7. /\ Listing(loads, d)' = Listing(loads, d) /\ Match(domains, d)' = Match(domains, d)
        /\ \A q : NameOf(q)' = NameOf(q)
    <2>1. \A v : RouteCount(v)' = RouteCount(v)
          BY <1>1, Zenon DEF RouteCount
    <2>2. \A v : Listing(v, d)' = Listing(v, d)
          BY <1>1, <2>1, Zenon DEF Listing
    <2>3. Listing(domains, d)' = Listing(domains, d) /\ Listing(loads, d)' = Listing(loads, d)
          BY <1>1, <2>2, Zenon
    <2>4. Match(domains, d)' = Match(domains, d)
          BY <1>1, <2>3 DEF Match
    <2>5. \A q : NameOf(q)' = NameOf(q)
          BY <1>1, Zenon DEF NameOf
    <2> QED
          BY <2>3, <2>4, <2>5, Zenon
  <1>8. Listing(loads, d) # {} /\ \A i \in Listing(loads, d) : Ready(d, i)
        BY <1>1, Zenon DEF Reloading
  <1>9. ASSUME NEW i \in Listing(loads, d), Ready(d, i) PROVE Ready(d, i)'
    <2>1. i \in 1..RouteCount(loads)
          BY Zenon DEF Listing
    <2>2. i \in Nat /\ <<loads, i>> \in Routes
          BY <1>3, <2>1, LoadingRoutes, <1>1
    <2>3. CASE i = si
          BY <1>1, <1>6, <1>7, <1>9, <2>3, Zenon DEF Ready
    <2>4. CASE i # si
      <3>1. <<loads, i>> # r
            BY <2>4, Zenon
      <3>2. status'[<<loads, i>>] = status[<<loads, i>>]
            BY <1>5, <2>2, <3>1, Zenon
      <3>3. i < si' => i < si
            BY <1>1, <1>2, <2>2, <2>4
      <3> QED
            BY <1>1, <1>7, <1>9, <3>2, <3>3, Zenon DEF Ready
    <2> QED
          BY <2>3, <2>4, Zenon
  <1> QED
        BY <1>7, <1>8, <1>9, Zenon

(***************************************************************************)
(* Nobody but SetRoutes changes a route that it is loading.                *)
(***************************************************************************)
LEMMA ChecksElsewhere ==
  ASSUME TableInv, spc = "loading", NEW k \in Checkers, CheckStep(k), NEW r \in Routes, r[1] = loads
  PROVE  status'[r] = status[r]
  <1>1. status \in [Routes -> Nat] /\ klist[k] < loads /\ loads \in Nat /\ klist[k] \in 0..loads
        BY DEF TableInv, ProxyInv, Typed, Private
  <1>2. Current(k)[1] = klist[k]
        BY Zenon DEF Current
  <1>3. r # Current(k)
        BY <1>1, <1>2
  <1> QED
        BY <1>1, <1>3, Zenon DEF CheckStep, StartCheck, CheckNotRequired, GetCertificate, GetCertificateError,
           GetExistingCertificate, SetCertificate, SetCertificateStatus, routeVars

(***************************************************************************)
(* Reloading is inductive together with TableInv.                          *)
(***************************************************************************)
LEMMA ReloadingKept ==
  ASSUME TableInv, Reloading, [Next]_vars
  PROVE  Reloading'
  <1>1. ASSUME NEW c \in Configs, SetRoutes(c) PROVE Reloading'
        BY <1>1, ReloadingStarts, Zenon
  <1>2. CASE LoadCertificate
        BY <1>2, ReloadingLoads, Zenon
  <1>3. CASE RejectRoutes \/ StoreDomains \/ StoreRoutes \/ StoreFallback
    <2>1. spc' # "loading"
          BY <1>3, Zenon DEF RejectRoutes, StoreDomains, StoreRoutes, StoreFallback
    <2> QED
          BY <2>1, Zenon DEF Reloading
  <1>4. /\ latest \in [Names -> Nat] /\ due \in [Names -> Nat] /\ dead \in [Names -> Nat]
        BY Zenon DEF TableInv, ProxyInv, Typed, ProviderTyped
  <1>5. ASSUME NEW k \in Checkers, CheckStep(k) PROVE Reloading'
    <2>1. UNCHANGED <<loads, config, domains, si, spc, keep, dead>> /\ unread \subseteq unread'
          BY <1>5, Zenon DEF CheckStep, StartCheck, CheckNotRequired, GetCertificate, GetCertificateError,
             GetExistingCertificate, ExistingFor, SetCertificate, SetCertificateStatus,
             setVars, tableVars, routeVars, providerVars
    <2>2. ASSUME NEW n \in Names, latest[n] > dead[n] PROVE latest'[n] > dead'[n]
      <3>1. latest' = latest \/ \E m : latest' = [latest EXCEPT ![m] = @ + 1]
            BY <1>5, Zenon DEF CheckStep, StartCheck, CheckNotRequired, GetCertificate, GetCertificateError,
               GetExistingCertificate, SetCertificate, SetCertificateStatus, providerVars
      <3>2. latest'[n] \in {latest[n], latest[n] + 1}
            BY <1>4, <3>1, Zenon
      <3>3. latest[n] \in Nat /\ dead[n] \in Nat
            BY <1>4, Zenon
      <3> QED
            BY <2>1, <2>2, <3>2, <3>3
    <2>3. spc = "loading" => \A r \in Routes : r[1] = loads => status'[r] = status[r]
          BY <1>5, ChecksElsewhere, Zenon
    <2> QED
          BY <2>1, <2>2, <2>3, ReloadingOn, Zenon
  <1>6. ASSUME NEW n \in Names, NeedRenewal(n) PROVE Reloading'
    <2>1. UNCHANGED <<loads, config, domains, si, spc, keep, unread, status, latest, dead>>
          BY <1>6, Zenon DEF NeedRenewal, setVars, tableVars, routeVars
    <2> QED
          BY <2>1, ReloadingOn, Zenon
  <1>7. ASSUME NEW n \in Names, Expire(n) PROVE Reloading'
    <2>1. /\ UNCHANGED <<loads, config, domains, si, spc, unread, status, latest>>
          /\ keep' = {d \in keep : NameOf(Match(domains, d)) # n}
          /\ \A m \in Names : m # n => dead'[m] = dead[m]
          BY <1>4, <1>7, Zenon DEF Expire, tableVars, routeVars
    <2> QED
          BY <2>1, ReloadingOn, Zenon
  <1>8. CASE UNCHANGED vars
    <2>1. UNCHANGED <<loads, config, domains, si, spc, keep, unread, status, latest, dead>>
          BY <1>8, Zenon DEF vars, setVars, tableVars, routeVars, providerVars
    <2> QED
          BY <2>1, ReloadingOn, Zenon
  <1> QED
        BY <1>1, <1>2, <1>3, <1>5, <1>6, <1>7, <1>8, Zenon DEF Next, SetRoutesStep

(***************************************************************************)
(* A reload keeps serving, for any configurations, loads and checks: the   *)
(* new map that routeMap.Update stores serves every domain whose           *)
(* certificate stayed valid, because SetRoutes loads the certificates of   *)
(* all its routes first.                                                   *)
(***************************************************************************)
THEOREM ReloadServes == Spec => ReloadKeepsServing
  <1> DEFINE Served == domains' # domains => \A d \in keep : Serves(d)' \/ Match(loads, d) \in unread
  <1>1. TableInv /\ Reloading /\ [Next]_vars => [Served]_vars
    <2> SUFFICES ASSUME TableInv, Reloading, Next, domains' # domains, NEW d \in keep
                 PROVE  Serves(d)' \/ Match(loads, d) \in unread
        BY Zenon
    <2>1. StoreDomains
          BY Zenon DEF Next, SetRoutes, SetRoutesStep, LoadCertificate, RejectRoutes, StoreRoutes, StoreFallback,
             CheckStep, StartCheck, CheckNotRequired, GetCertificate, GetCertificateError,
             GetExistingCertificate, SetCertificate, SetCertificateStatus, NeedRenewal, Expire, tableVars
    <2>2. /\ spc = "loading" /\ si > RouteCount(loads) /\ domains' = loads
          /\ UNCHANGED <<loads, config, status, unread>>
          BY <2>1, Zenon DEF StoreDomains, routeVars
    <2>3. Listing(loads, d) # {} /\ \A i \in Listing(loads, d) : Ready(d, i)
          BY <2>2, Zenon DEF Reloading
    <2>4. loads \in Nat /\ loads > 0 /\ RouteCount(loads) \in Nat /\ si \in Nat
          BY <2>2, LoadingRoutes, Zenon DEF TableInv, ProxyInv, Typed
    <2>5. PICK i \in Listing(loads, d) : Match(loads, d) = <<loads, i>>
          BY <2>3, <2>4, MatchIs, Zenon
    <2>6. i < si /\ <<loads, i>> # NoRoute
          BY <2>2, <2>4 DEF Listing, NoRoute
    <2>7. status[<<loads, i>>] > Missing \/ <<loads, i>> \in unread
          BY <2>3, <2>6, Zenon DEF Ready
    <2>8. Match(domains, d)' = Match(loads, d)
      <3> PICK v : v = loads
          BY Zenon
      <3>1. RouteCount(v)' = RouteCount(v)
            BY <2>2, Zenon DEF RouteCount
      <3>2. Listing(v, d)' = Listing(v, d)
            BY <2>2, <3>1, Zenon DEF Listing
      <3>3. Match(v, d)' = Match(v, d)
            BY <3>2 DEF Match
      <3> QED
            BY <2>2, <3>3, Zenon
    <2> QED
          BY <2>2, <2>5, <2>6, <2>7, <2>8, Zenon DEF Serves
  <1>2. Init => Reloading
        BY Zenon DEF Init, Reloading
  <1>3. TableInv /\ Reloading /\ [Next]_vars => Reloading'
        BY ReloadingKept, Zenon
  <1> QED
        BY <1>1, <1>2, <1>3, TableInvariant, PTL DEF Spec, ReloadKeepsServing
=============================================================================
