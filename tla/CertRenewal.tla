----------------------------- MODULE CertRenewal -----------------------------
(***************************************************************************)
(* Obtaining and renewing certificates: certificate.Manager.GetCertificate *)
(* (certificate/manager.go) run by several workers, each the checking      *)
(* goroutine of one Centauri instance, over a shared RedisStore            *)
(* (certificate/store_redis.go).  The lock taken around it is the lease    *)
(* lock that RedisLock implements (module LeaseLock), one per name.        *)
(*                                                                         *)
(* The hash of certificates has one field per provider and name; the       *)
(* fields of provider Legacy stand for certificates saved without one.     *)
(***************************************************************************)
EXTENDS Details

CONSTANTS
  Workers,       \* instances that check certificates
  Names,         \* what routes need certificates for
  Suppliers,     \* the configured certificate suppliers
  AcmeSuppliers, \* those that are ACME servers, the others are self-signed
  Legacy,        \* the empty provider
  NoCert,        \* a nil *Details, an absent hash field
  Corrupt,       \* a hash field that does not decode
  Nobody,        \* a free lease
  ShouldStaple,  \* Manager.shouldStaple
  Lifetime,      \* lifetime of a new certificate
  StapleLife,    \* lifetime of an OCSP response
  MinValidity,   \* Supplier.MinCertificateValidity
  MinStaple,     \* Supplier.MinStapleValidity
  AriOffsets,    \* how long before expiry an ACME server suggests renewal
  RetryAfter,    \* when it wants to be asked again
  MayLapse,      \* whether leases may lapse while their holder is inside
  MaxTime,       \* bound: when the clock stops
  MaxSerial      \* bound: how many certificates are issued

Providers == Suppliers \cup {Legacy}
Fields    == Providers \X Names
Serials   == 0..MaxSerial
Times     == 0..(MaxTime + Lifetime + StapleLife + RetryAfter)
Certs     == Cert(Serials, Times, Providers, Names)

ASSUME RenewalAssumption ==
  /\ Legacy \notin Suppliers
  /\ {NoCert, Corrupt} \cap Certs = {} /\ NoCert # Corrupt /\ NoCert \notin Serials
  /\ Nobody \notin Workers
  /\ ShouldStaple \in BOOLEAN /\ MayLapse \in BOOLEAN
  /\ AcmeSuppliers \subseteq Suppliers
  /\ {Lifetime, StapleLife, MinValidity, MinStaple, RetryAfter, MaxTime, MaxSerial} \subseteq Nat
  /\ MaxTime > 0 /\ MinValidity + 2 \in Times
  /\ AriOffsets \subseteq 0..Lifetime

VARIABLES
  now,         \* the wall clock
  hash,        \* Redis: field -> stored certificate
  serial,      \* the serial of the last certificate issued
  lease,       \* per name: the worker with the lease (LeaseLock)
  endangered,  \* per name: a lease was not renewed in time (LeaseLock)
  pc,          \* control state of each worker
  request,     \* the supplier and name a worker was asked for
  cert,        \* the local variable "cert"
  read,        \* the serial the store held when it was first read (history)
  prune,       \* local variable "pruneArgs": fields and values read
  failed       \* GetCertificate is about to return an error

storeVars == <<hash, serial>>
lockVars  == <<lease, endangered>>
localVars == <<pc, request, cert, read, prune, failed>>
vars      == <<now, storeVars, lockVars, localVars>>

PcStates == {"idle", "locking", "reading", "ari", "ariSaveRead", "ariSave", "deciding",
             "obtaining", "stapling", "saveRead", "save", "unlocking"}

(***************************************************************************)
(* Types.                                                                  *)
(***************************************************************************)
TypeOK ==
  /\ now \in 0..MaxTime
  /\ hash \in [Fields -> Certs \cup {NoCert, Corrupt}]
  /\ serial \in Serials
  /\ lease \in [Names -> Workers \cup {Nobody}]
  /\ endangered \in [Names -> BOOLEAN]
  /\ pc \in [Workers -> PcStates]
  /\ request \in [Workers -> (Suppliers \X Names) \cup {<<>>}]
  /\ cert \in [Workers -> Certs \cup {NoCert}]
  /\ read \in [Workers -> Serials \cup {NoCert}]
  /\ prune \in [Workers -> SUBSET (Fields \X (Certs \cup {Corrupt}))]
  /\ failed \in [Workers -> BOOLEAN]

OldCert(n) ==
  [serial |-> 0, provider |-> Legacy, name |-> n, notAfter |-> MinValidity + 2,
   mustStaple |-> FALSE, nextOcspUpdate |-> 0, ariNextUpdate |-> 0, ariRenewalTime |-> 0]

\* A store written before providers were tracked may hold a certificate for
\* a name, or an entry that no longer decodes.
Init ==
  /\ now = 1
  /\ hash \in {h \in [Fields -> {NoCert, Corrupt} \cup {OldCert(n) : n \in Names}] :
                 \A f \in Fields : h[f] \in IF f[1] = Legacy THEN {NoCert, Corrupt, OldCert(f[2])}
                                            ELSE {NoCert}}
  /\ serial = 0
  /\ lease = [n \in Names |-> Nobody]
  /\ endangered = [n \in Names |-> FALSE]
  /\ pc = [w \in Workers |-> "idle"]
  /\ request = [w \in Workers |-> <<>>]
  /\ cert = [w \in Workers |-> NoCert]
  /\ read = [w \in Workers |-> NoCert]
  /\ prune = [w \in Workers |-> {}]
  /\ failed = [w \in Workers |-> FALSE]

\* The supplier that Manager.supplier settled on, and the names to cover.
Supplier(w) == request[w][1]
Name(w)     == request[w][2]

SerialOf(c) == IF c = NoCert THEN NoCert ELSE c.serial

Goto(w, state) == pc' = [pc EXCEPT ![w] = state]

-----------------------------------------------------------------------------
(***************************************************************************)
(* RedisStore.GetCertificate on the decoded entries: the certificate of    *)
(* the provider, else one without a provider.                              *)
(***************************************************************************)
StoredCertificates == {hash[f] : f \in Fields} \ {NoCert, Corrupt}

StoredFor(provider, n) == {c \in StoredCertificates : IsFor(c, n) /\ c.provider = provider}

Lookup(provider, n) ==
  IF StoredFor(provider, n) # {} THEN CHOOSE c \in StoredFor(provider, n) : TRUE
  ELSE IF StoredFor(Legacy, n) # {} THEN CHOOSE c \in StoredFor(Legacy, n) : TRUE
  ELSE NoCert

(***************************************************************************)
(* Manager.GetExistingCertificate: the stored certificate if it can be     *)
(* served now, NoCert for its two errors.                                  *)
(***************************************************************************)
Existing(provider, n) ==
  LET c == Lookup(provider, n) IN
  IF c = NoCert \/ ~ValidFor(c, now, 0) \/ (RequiresStaple(c) /\ ~HasStapleFor(c, now, 0))
  THEN NoCert
  ELSE c

-----------------------------------------------------------------------------
(***************************************************************************)
(* Manager.GetCertificate.                                                 *)
(***************************************************************************)
GetCertificate(w, s, n) ==
  /\ pc[w] = "idle"
  /\ Goto(w, "locking")
  /\ request' = [request EXCEPT ![w] = <<s, n>>]
  /\ UNCHANGED <<now, storeVars, lockVars, cert, read, prune, failed>>

\* Mutant: the lock is not waited for.
LockNothing(w) ==
  /\ pc[w] = "locking"
  /\ lease' = [lease EXCEPT ![Name(w)] = w]
  /\ Goto(w, "reading")
  /\ UNCHANGED <<now, storeVars, endangered, request, cert, read, prune, failed>>

LockCertificate(w) ==
  /\ pc[w] = "locking"
  /\ lease[Name(w)] = Nobody
  /\ lease' = [lease EXCEPT ![Name(w)] = w]
  /\ Goto(w, "reading")
  /\ UNCHANGED <<now, storeVars, endangered, request, cert, read, prune, failed>>

\* The store is read; an error of Redis is a nil certificate.
GetStored(w) ==
  /\ pc[w] = "reading"
  /\ \E c \in {Lookup(Supplier(w), Name(w)), NoCert} :
       /\ cert' = [cert EXCEPT ![w] = c]
       /\ Goto(w, IF c = NoCert THEN "obtaining"
                  ELSE IF c.ariNextUpdate < now THEN "ari" ELSE "deciding")
  /\ read' = [read EXCEPT ![w] = SerialOf(Lookup(Supplier(w), Name(w)))]
  /\ UNCHANGED <<now, storeVars, lockVars, request, prune, failed>>

(***************************************************************************)
(* Supplier.UpdateRenewalInfo: what it can make of a certificate.  An ACME *)
(* server without ARI clears the renewal time.                             *)
(***************************************************************************)
WithRenewalInfo(s, c) ==
  IF s \in AcmeSuppliers
  THEN {[c EXCEPT !.ariRenewalTime = 0, !.ariNextUpdate = c.notAfter]} \cup
       {[c EXCEPT !.ariRenewalTime = c.notAfter - o, !.ariNextUpdate = now + RetryAfter] :
          o \in {o \in AriOffsets : o < c.notAfter}}
  ELSE {c}

\* updateRenewalInfo(save = true): a failure is only logged.
UpdateRenewalInfo(w) ==
  /\ pc[w] = "ari"
  /\ \/ Goto(w, "deciding") /\ UNCHANGED cert
     \/ \E c \in WithRenewalInfo(Supplier(w), cert[w]) :
          cert' = [cert EXCEPT ![w] = c] /\ Goto(w, "ariSaveRead")
  /\ UNCHANGED <<now, storeVars, lockVars, request, read, prune, failed>>

Decide(w) ==
  /\ pc[w] = "deciding"
  /\ Goto(w, IF ShouldRenew(cert[w], now, MinValidity) THEN "obtaining"
             ELSE IF RequiresStaple(cert[w]) /\ ~HasStapleFor(cert[w], now, MinStaple)
             THEN "stapling"
             ELSE "unlocking")
  /\ UNCHANGED <<now, storeVars, lockVars, request, cert, read, prune, failed>>

\* return nil, err
Fail(w) ==
  /\ failed' = [failed EXCEPT ![w] = TRUE]
  /\ cert' = [cert EXCEPT ![w] = NoCert]
  /\ Goto(w, "unlocking")

\* Supplier.GetCertificate of the two kinds of supplier.
LegoCert(s, n) ==
  [serial |-> serial + 1, provider |-> s, name |-> n, notAfter |-> now + Lifetime,
   mustStaple |-> ShouldStaple, nextOcspUpdate |-> IF ShouldStaple THEN now + StapleLife ELSE 0,
   ariNextUpdate |-> 0, ariRenewalTime |-> 0]

SelfSignedCert(s, n) ==
  [LegoCert(s, n) EXCEPT !.mustStaple = FALSE, !.nextOcspUpdate = now + Lifetime]

NewCert(s, n) == IF s \in AcmeSuppliers THEN LegoCert(s, n) ELSE SelfSignedCert(s, n)

\* obtain: the new certificate, with renewal information if it could be had,
\* goes to SaveCertificate.
Obtain(w) ==
  /\ pc[w] = "obtaining"
  /\ serial < MaxSerial
  /\ serial' = serial + 1
  /\ LET new == NewCert(Supplier(w), Name(w)) IN
       \E c \in {new} \cup WithRenewalInfo(Supplier(w), new) : cert' = [cert EXCEPT ![w] = c]
  /\ read' = [read EXCEPT ![w] = NoCert]
  /\ Goto(w, "saveRead")
  /\ UNCHANGED <<now, hash, lockVars, request, prune, failed>>

ObtainError(w) ==
  /\ pc[w] = "obtaining"
  /\ Fail(w)
  /\ UNCHANGED <<now, storeVars, lockVars, request, read, prune>>

UpdateStaple(c) == [c EXCEPT !.nextOcspUpdate = now + StapleLife]

Staple(w) ==
  /\ pc[w] = "stapling"
  /\ \/ /\ cert' = [cert EXCEPT ![w] = UpdateStaple(cert[w])]
        /\ Goto(w, "saveRead")
        /\ UNCHANGED failed
     \/ Fail(w)
  /\ UNCHANGED <<now, storeVars, lockVars, request, read, prune>>

-----------------------------------------------------------------------------
(***************************************************************************)
(* RedisStore.SaveCertificate: read all entries, remember the expired and  *)
(* corrupt ones, then prune them and store the certificate in one          *)
(* transaction.  After an ARI update its error is only logged.             *)
(***************************************************************************)
Expired(v) == v = Corrupt \/ (v # NoCert /\ ~ValidFor(v, now, 0))

\* Mutant: obtain and staple ignore the error as well.
SaveErrorIgnored(w) ==
  /\ Goto(w, IF pc[w] \in {"saveRead", "save"} THEN "unlocking" ELSE "deciding")
  /\ UNCHANGED <<failed, cert>>

SaveError(w) ==
  \/ pc[w] \in {"ariSaveRead", "ariSave"} /\ Goto(w, "deciding") /\ UNCHANGED <<failed, cert>>
  \/ pc[w] \in {"saveRead", "save"} /\ Fail(w)

ReadStored(w) ==
  /\ pc[w] \in {"ariSaveRead", "saveRead"}
  /\ prune' = [prune EXCEPT ![w] = {<<f, hash[f]>> : f \in {f \in Fields : Expired(hash[f])}}]
  /\ Goto(w, IF pc[w] = "saveRead" THEN "save" ELSE "ariSave")
  /\ UNCHANGED <<now, storeVars, lockVars, request, cert, read, failed>>

ReadStoredError(w) ==
  /\ pc[w] \in {"ariSaveRead", "saveRead"}
  /\ SaveError(w)
  /\ UNCHANGED <<now, storeVars, lockVars, request, read, prune>>

\* Mutant: HDEL without comparing the value.
PruneAll(h, args) ==
  [f \in Fields |-> IF \E a \in args : a[1] = f THEN NoCert ELSE h[f]]

\* pruneCertificatesScript: a field goes only if it still has the value read.
Pruned(h, args) ==
  [f \in Fields |-> IF <<f, h[f]>> \in args THEN NoCert ELSE h[f]]

\* The field of a certificate, its provider and names.
CertificateKey(c) == <<c.provider, c.name>>

Transaction(w) ==
  hash' = [Pruned(hash, prune[w]) EXCEPT ![CertificateKey(cert[w])] = cert[w]]

SaveCertificate(w) ==
  /\ pc[w] \in {"ariSave", "save"}
  /\ Transaction(w)
  /\ Goto(w, IF pc[w] = "save" THEN "unlocking" ELSE "deciding")
  /\ prune' = [prune EXCEPT ![w] = {}]
  /\ UNCHANGED <<now, serial, lockVars, request, cert, read, failed>>

\* The transaction failed, or was applied and its reply lost.
SaveCertificateError(w) ==
  /\ pc[w] \in {"ariSave", "save"}
  /\ SaveError(w)
  /\ Transaction(w) \/ UNCHANGED hash
  /\ prune' = [prune EXCEPT ![w] = {}]
  /\ UNCHANGED <<now, serial, lockVars, request, read>>

-----------------------------------------------------------------------------
\* Mutant: whoever stops waiting for a lock gives up the lease of its holder.
ForgetAnyLease(w) ==
  /\ Goto(w, "idle")
  /\ request' = [request EXCEPT ![w] = <<>>]
  /\ cert' = [cert EXCEPT ![w] = NoCert]
  /\ read' = [read EXCEPT ![w] = NoCert]
  /\ prune' = [prune EXCEPT ![w] = {}]
  /\ failed' = [failed EXCEPT ![w] = FALSE]
  /\ lease' = [lease EXCEPT ![Name(w)] = Nobody]

Forget(w) ==
  /\ Goto(w, "idle")
  /\ request' = [request EXCEPT ![w] = <<>>]
  /\ cert' = [cert EXCEPT ![w] = NoCert]
  /\ read' = [read EXCEPT ![w] = NoCert]
  /\ prune' = [prune EXCEPT ![w] = {}]
  /\ failed' = [failed EXCEPT ![w] = FALSE]
  /\ lease' = [n \in Names |-> IF lease[n] = w THEN Nobody ELSE lease[n]]

\* The deferred UnlockCertificate; GetCertificate returns.
UnlockCertificate(w) ==
  /\ pc[w] = "unlocking"
  /\ Forget(w)
  /\ UNCHANGED <<now, storeVars, endangered>>

\* The instance dies and starts again.
Crash(w) ==
  /\ pc[w] # "idle"
  /\ Forget(w)
  /\ UNCHANGED <<now, storeVars, endangered>>

\* The environment of the lock, as LeaseLock allows it.
Endanger(n) ==
  /\ MayLapse
  /\ lease[n] # Nobody
  /\ endangered' = [endangered EXCEPT ![n] = TRUE]
  /\ UNCHANGED <<now, storeVars, lease, localVars>>

Lapse(n) ==
  /\ endangered[n]
  /\ lease' = [lease EXCEPT ![n] = Nobody]
  /\ UNCHANGED <<now, storeVars, endangered, localVars>>

Tick ==
  /\ now < MaxTime
  /\ now' = now + 1
  /\ UNCHANGED <<storeVars, lockVars, localVars>>

Step(w) ==
  \/ GetStored(w) \/ UpdateRenewalInfo(w) \/ Decide(w)
  \/ Obtain(w) \/ ObtainError(w) \/ Staple(w)
  \/ ReadStored(w) \/ ReadStoredError(w)
  \/ SaveCertificate(w) \/ SaveCertificateError(w)
  \/ UnlockCertificate(w)

Next ==
  \/ \E w \in Workers :
       \/ \E s \in Suppliers, n \in Names : GetCertificate(w, s, n)
       \/ LockCertificate(w)
       \/ Step(w)
       \/ Crash(w)
  \/ \E n \in Names : Endanger(n) \/ Lapse(n)
  \/ Tick

Spec == Init /\ [][Next]_vars

-----------------------------------------------------------------------------
(***************************************************************************)
(* A certificate that is still valid never disappears from the store: the  *)
(* entry a save prunes is the expired one it read, never one that another  *)
(* instance renewed in between (pruneCertificatesScript), and a save never *)
(* touches the certificate of another provider or name.                    *)
(***************************************************************************)
PruneSparesValid ==
  [][\A f \in Fields :
       hash[f] \in Certs /\ ~Expired(hash[f]) /\ hash'[f] # hash[f]
         => /\ hash'[f] \in Certs
            /\ \E w \in Workers : pc[w] \in {"ariSave", "save"} /\ hash'[f] = cert[w]]_vars

(***************************************************************************)
(* While the lease of a name was never endangered, the certificate of that *)
(* name is never replaced by an older one, whatever errors, crashes and    *)
(* delays the instances suffer.                                            *)
(***************************************************************************)
NoRegression ==
  [][\A f \in Fields :
       ~endangered[f[2]] /\ hash[f] \in Certs /\ hash'[f] \in Certs
         => hash'[f].serial >= hash[f].serial]_vars

(***************************************************************************)
(* Under the same condition no certificate is issued on a stale decision:  *)
(* when the supplier is asked, the store holds nothing newer than what was *)
(* found missing or due for renewal under the lock.                        *)
(***************************************************************************)
NoStaleIssue ==
  [][\A w \in Workers :
       pc[w] = "obtaining" /\ pc'[w] = "saveRead" /\ ~endangered[Name(w)] =>
         LET c == Lookup(Supplier(w), Name(w)) IN
         c # NoCert => read[w] # NoCert /\ c.serial <= read[w]]_vars

(***************************************************************************)
(* Renewal makes progress: a certificate that ShouldRenew found due, with  *)
(* or without a time suggested by the server, is replaced by one that      *)
(* expires later, so a new certificate is not due again at once.  Only     *)
(* certificates that live no longer than MinCertificateValidity break it.  *)
(***************************************************************************)
RenewalGains ==
  [][\A w \in Workers :
       pc[w] = "obtaining" /\ pc'[w] = "saveRead" /\ cert[w] # NoCert /\ MinValidity < Lifetime
         => cert'[w].notAfter > cert[w].notAfter]_vars

(***************************************************************************)
(* A certificate that GetCertificate hands out survives a restart: as long *)
(* as it may be served, GetExistingCertificate finds that very certificate *)
(* with the same staple.                                                   *)
(***************************************************************************)
HandedOutIsStored ==
  \A w \in Workers :
    /\ pc[w] = "unlocking"
    /\ ~failed[w]
    /\ ~endangered[Name(w)]
    /\ ValidFor(cert[w], now, 0)
    /\ RequiresStaple(cert[w]) => HasStapleFor(cert[w], now, 0)
    => LET c == Existing(Supplier(w), Name(w)) IN
       /\ c # NoCert
       /\ c.serial = cert[w].serial
       /\ c.nextOcspUpdate = cert[w].nextOcspUpdate

(***************************************************************************)
(* Per name, the workers use the lock the way LeaseLock describes it: they *)
(* enter when the lease is free and give up only their own lease.          *)
(***************************************************************************)
Inside(n) == {w \in Workers : pc[w] \notin {"idle", "locking"} /\ Name(w) = n}

NameLock(n) == INSTANCE LeaseLock WITH
  Holders <- Workers, lease <- lease[n], inside <- Inside(n), endangered <- endangered[n]

UsesLeases ==
  /\ \A n \in Names : NameLock(n)!LeaseInit
  /\ [][\A n \in Names : [NameLock(n)!LeaseNext]_(NameLock(n)!leaseVars)]_vars
=============================================================================
