------------------------- MODULE CertRenewalProofs --------------------------
(***************************************************************************)
(* The inductive invariant of CertRenewal, for any workers, names,         *)
(* suppliers, durations and bounds that satisfy RenewalAssumption, the     *)
(* proof that every step preserves it, and the properties that follow.     *)
(***************************************************************************)
EXTENDS CertRenewal, TLAPS

IsCert(c) == c \in Certs

(***************************************************************************)
(* A renewal time suggested by the server lies within the last lifetime    *)
(* before the certificate expires.                                         *)
(***************************************************************************)
SoundAri(c) == c.ariRenewalTime # 0 => c.ariRenewalTime + Lifetime >= c.notAfter

(***************************************************************************)
(* Every certificate in the store is filed under its provider and name.    *)
(***************************************************************************)
Filed ==
  \A f \in Fields : IsCert(hash[f]) =>
    /\ hash[f].provider = f[1] /\ hash[f].name = f[2]
    /\ hash[f].serial <= serial
    /\ f[1] = Legacy => hash[f].serial = 0
    /\ SoundAri(hash[f])

StoreInv == TypeOK /\ Filed

(***************************************************************************)
(* A worker: what it was asked for, the lease it has and its certificate.  *)
(***************************************************************************)
HasLock(w)  == pc[w] \notin {"idle", "locking"}
Safe(w)     == HasLock(w) /\ ~endangered[Name(w)]
Examining   == {"ari", "ariSaveRead", "ariSave", "deciding"}
Changing    == {"stapling", "saveRead", "save"}

Asked(w) == pc[w] # "idle" => request[w] \in Suppliers \X Names

Locked(w) == Safe(w) => lease[Name(w)] = w

Carries(w) ==
  /\ pc[w] \in Examining \cup Changing => cert[w] # NoCert
  /\ pc[w] \in {"idle", "locking", "reading"} => cert[w] = NoCert
  /\ pc[w] = "unlocking" => failed[w] \/ cert[w] # NoCert
  /\ cert[w] # NoCert =>
       /\ cert[w].name = Name(w)
       /\ cert[w].provider \in {Supplier(w), Legacy}
       /\ cert[w].serial <= serial
       /\ cert[w].provider = Legacy => cert[w].serial = 0
       /\ SoundAri(cert[w])
  /\ pc[w] \in Examining => read[w] = cert[w].serial
  /\ pc[w] = "obtaining" /\ cert[w] # NoCert /\ MinValidity < Lifetime =>
       cert[w].notAfter < now + Lifetime

Prunes(w) == \A a \in prune[w] : Expired(a[2])

(***************************************************************************)
(* While its lease is safe, nothing in the store is newer than what the    *)
(* worker read or carries, and what it carries is what the store has.      *)
(***************************************************************************)
Own(w)    == <<Supplier(w), Name(w)>>
OldOne(w) == <<Legacy, Name(w)>>

Fresh(w) ==
  Safe(w) /\ pc[w] \in Examining \cup {"obtaining"} =>
    \A f \in {Own(w), OldOne(w)} :
      IsCert(hash[f]) => read[w] # NoCert /\ hash[f].serial <= read[w]

Newest(w) ==
  Safe(w) /\ cert[w] # NoCert =>
    /\ IsCert(hash[CertificateKey(cert[w])]) => hash[CertificateKey(cert[w])].serial <= cert[w].serial
    /\ cert[w].provider = Legacy => ~IsCert(hash[Own(w)])

SameButAri(c, d) ==
  /\ c.serial = d.serial
  /\ c.notAfter = d.notAfter
  /\ c.mustStaple = d.mustStaple
  /\ c.nextOcspUpdate = d.nextOcspUpdate

Kept(w) ==
  /\ Safe(w)
  /\ pc[w] \in Examining \cup {"stapling", "unlocking"}
  /\ cert[w] # NoCert
  /\ ValidFor(cert[w], now, 0)
  => /\ IsCert(hash[CertificateKey(cert[w])])
     /\ SameButAri(hash[CertificateKey(cert[w])], cert[w])

WorkerInv(w) ==
  Asked(w) /\ Locked(w) /\ Carries(w) /\ Prunes(w) /\ Fresh(w) /\ Newest(w) /\ Kept(w)

RenewalInv == StoreInv /\ \A w \in Workers : WorkerInv(w)

-----------------------------------------------------------------------------
(***************************************************************************)
(* The fields of a certificate.                                            *)
(***************************************************************************)
LEMMA CertFields ==
  ASSUME NEW c \in Certs
  PROVE  /\ c.serial \in Serials /\ c.provider \in Providers /\ c.name \in Names
         /\ c.notAfter \in Times /\ c.nextOcspUpdate \in Times /\ c.mustStaple \in BOOLEAN
         /\ c.ariNextUpdate \in Times /\ c.ariRenewalTime \in Times
         /\ CertificateKey(c) \in Fields
         /\ c # NoCert /\ c # Corrupt
  BY RenewalAssumption, Zenon DEF Certs, Cert, CertificateKey, Fields

(***************************************************************************)
(* The sets of numbers consist of natural numbers.                         *)
(***************************************************************************)
LEMMA Numbers ==
  /\ Serials \subseteq Nat /\ Times \subseteq Nat /\ 0 \in Serials /\ 0 \in Times
  /\ NoCert \notin Certs /\ Corrupt \notin Certs /\ NoCert # Corrupt
  /\ NoCert \notin Serials
  /\ Lifetime \in Nat /\ MinValidity \in Nat /\ MaxTime \in Nat /\ MaxSerial \in Nat
  BY RenewalAssumption DEF Serials, Times

(***************************************************************************)
(* The clock and the count of certificates are natural numbers.            *)
(***************************************************************************)
LEMMA Clock ==
  ASSUME TypeOK
  PROVE  now \in Nat /\ serial \in Nat
  <1>1. now \in 0..MaxTime /\ serial \in Serials
        BY Zenon DEF TypeOK
  <1> QED
        BY <1>1, Numbers

(***************************************************************************)
(* UpdateRenewalInfo changes nothing but the renewal information, and      *)
(* keeps it sound.                                                         *)
(***************************************************************************)
LEMMA AriKeeps ==
  ASSUME NEW s, NEW c \in Certs, SoundAri(c), now \in 0..MaxTime,
         NEW d \in WithRenewalInfo(s, c)
  PROVE  /\ d \in Certs
         /\ SameButAri(d, c)
         /\ d.provider = c.provider /\ d.name = c.name
         /\ SoundAri(d)
  <1>1. CASE d = c
        BY <1>1, Zenon DEF SameButAri
  <1>2. CASE d = [c EXCEPT !.ariRenewalTime = 0, !.ariNextUpdate = c.notAfter]
        BY <1>2, Numbers, Zenon DEF SameButAri, SoundAri, Certs, Cert
  <1>3. ASSUME NEW o \in AriOffsets, o < c.notAfter,
               d = [c EXCEPT !.ariRenewalTime = c.notAfter - o, !.ariNextUpdate = now + RetryAfter]
        PROVE  d \in Certs /\ SameButAri(d, c) /\ d.provider = c.provider /\ d.name = c.name /\ SoundAri(d)
    <2>0. c.notAfter \in Times /\ c.notAfter \in Nat
          BY CertFields, Numbers, Zenon
    <2>1. o \in Nat /\ o <= Lifetime
          BY RenewalAssumption
    <2>2. c.notAfter - o \in Times /\ now + RetryAfter \in Times
          BY <1>3, <2>0, <2>1, RenewalAssumption DEF Times
    <2>3. d \in Certs /\ SameButAri(d, c) /\ d.provider = c.provider /\ d.name = c.name
          BY <1>3, <2>2, Zenon DEF SameButAri, Certs, Cert
    <2>4. d.ariRenewalTime = c.notAfter - o /\ d.notAfter = c.notAfter
          BY <1>3, Zenon DEF Certs, Cert
    <2>5. c.notAfter - o + Lifetime >= c.notAfter
          BY <2>0, <2>1, Numbers
    <2>6. SoundAri(d)
          BY <2>4, <2>5, Zenon DEF SoundAri
    <2> QED
          BY <2>3, <2>6, Zenon
  <1> QED
        BY <1>1, <1>2, <1>3, Zenon DEF WithRenewalInfo

(***************************************************************************)
(* A new certificate is for whom it was asked, lives for Lifetime and has  *)
(* no renewal information.                                                 *)
(***************************************************************************)
LEMMA NewCertIs ==
  ASSUME NEW s \in Suppliers, NEW n \in Names, now \in 0..MaxTime, serial \in Serials, serial < MaxSerial
  PROVE  LET c == NewCert(s, n) IN
         /\ c \in Certs
         /\ c.serial = serial + 1 /\ c.provider = s /\ c.name = n
         /\ c.notAfter = now + Lifetime
         /\ SoundAri(c)
  <1>1. now + Lifetime \in Times /\ now + StapleLife \in Times /\ 0 \in Times /\ serial + 1 \in Serials
        BY RenewalAssumption DEF Times, Serials
  <1> QED
        BY <1>1, RenewalAssumption, Zenon DEF NewCert, LegoCert, SelfSignedCert, Certs, Cert, Providers, SoundAri

(***************************************************************************)
(* A new staple changes nothing else.                                      *)
(***************************************************************************)
LEMMA StapleKeeps ==
  ASSUME NEW c \in Certs, now \in 0..MaxTime
  PROVE  LET d == UpdateStaple(c) IN
         /\ d \in Certs
         /\ d.serial = c.serial /\ d.provider = c.provider /\ d.name = c.name
         /\ d.notAfter = c.notAfter /\ d.ariRenewalTime = c.ariRenewalTime
  <1>1. now + StapleLife \in Times
        BY RenewalAssumption DEF Times
  <1> QED
        BY <1>1, Zenon DEF UpdateStaple, Certs, Cert

(***************************************************************************)
(* The store is searched by field: RedisStore.GetCertificate finds the     *)
(* certificate of the provider, else the one without a provider.           *)
(***************************************************************************)
LEMMA LookupFinds ==
  ASSUME StoreInv, NEW s \in Suppliers, NEW n \in Names
  PROVE  Lookup(s, n) = IF IsCert(hash[<<s, n>>]) THEN hash[<<s, n>>]
                        ELSE IF IsCert(hash[<<Legacy, n>>]) THEN hash[<<Legacy, n>>]
                        ELSE NoCert
  <1>1. ASSUME NEW p \in Providers
        PROVE  StoredFor(p, n) = IF IsCert(hash[<<p, n>>]) THEN {hash[<<p, n>>]} ELSE {}
    <2>1. <<p, n>> \in Fields
          BY <1>1, Zenon DEF Fields
    <2>2. \A c \in StoredFor(p, n) : c = hash[<<p, n>>] /\ IsCert(c)
      <3> SUFFICES ASSUME NEW c \in StoredFor(p, n) PROVE c = hash[<<p, n>>] /\ IsCert(c)
          BY Zenon
      <3>1. PICK f \in Fields : c = hash[f] /\ c \notin {NoCert, Corrupt} /\ c.name = n /\ c.provider = p
            BY Zenon DEF StoredFor, StoredCertificates, IsFor
      <3>2. IsCert(hash[f])
            BY <3>1, Zenon DEF StoreInv, TypeOK, IsCert
      <3>3. f = <<p, n>>
            BY <3>1, <3>2 DEF StoreInv, Filed, Fields
      <3> QED
            BY <3>1, <3>2, <3>3, Zenon
    <2>3. IsCert(hash[<<p, n>>]) => hash[<<p, n>>] \in StoredFor(p, n)
          BY <2>1, Numbers, Zenon DEF StoredFor, StoredCertificates, IsFor, StoreInv, Filed, IsCert
    <2> QED
          BY <2>2, <2>3, Zenon
  <1>2. s \in Providers /\ Legacy \in Providers
        BY Zenon DEF Providers
  <1> QED
        BY <1>1, <1>2 DEF Lookup

-----------------------------------------------------------------------------
(***************************************************************************)
(* What a step leaves alone: a worker that the step does not concern.      *)
(***************************************************************************)
Same(v) == UNCHANGED <<pc[v], request[v], cert[v], read[v], prune[v], failed[v]>>

(***************************************************************************)
(* Time may pass and others may order certificates without a worker that   *)
(* does nothing losing its invariant.                                      *)
(***************************************************************************)
LEMMA Frame ==
  ASSUME StoreInv, NEW v \in Workers, WorkerInv(v), Same(v), hash' = hash,
         now' \in {now, now + 1}, serial' \in Serials, serial' >= serial,
         Safe(v)' => Safe(v), Locked(v)'
  PROVE  WorkerInv(v)'
  <1>0. Name(v)' = Name(v) /\ Supplier(v)' = Supplier(v)
        BY Zenon DEF Same, Name, Supplier
  <1>1. Asked(v)'
        BY Zenon DEF WorkerInv, Asked, Same
  <1>2. Carries(v)'
    <2>1. cert[v] # NoCert => cert[v].serial \in Nat /\ cert[v].notAfter \in Nat
          BY CertFields, Numbers, Zenon DEF StoreInv, TypeOK
    <2>2. serial \in Nat /\ serial' \in Nat /\ now \in Nat
          BY Clock, Numbers, Zenon DEF StoreInv
    <2> QED
          BY <1>0, <2>1, <2>2, Numbers DEF WorkerInv, Carries, Same, SoundAri, Examining, Changing
  <1>3. Prunes(v)'
    <2> SUFFICES ASSUME NEW a \in prune[v] PROVE Expired(a[2])'
        BY Zenon DEF Prunes, Same
    <2>1. Expired(a[2])
          BY Zenon DEF WorkerInv, Prunes
    <2>2. a[2] \in Certs \cup {Corrupt}
          BY DEF StoreInv, TypeOK
    <2>3. a[2] \in Certs => a[2].notAfter \in Nat
          BY CertFields, Numbers, Zenon
    <2>4. now \in Nat
          BY Clock, Zenon DEF StoreInv
    <2> QED
          BY <2>1, <2>2, <2>3, <2>4 DEF Expired, ValidFor
  <1>4. Fresh(v)'
        BY <1>0, Zenon DEF WorkerInv, Fresh, Same, Own, OldOne, Examining
  <1>5. Newest(v)'
        BY <1>0, Zenon DEF WorkerInv, Newest, Same, Own, CertificateKey
  <1>6. Kept(v)'
    <2>1. cert[v] # NoCert => cert[v].notAfter \in Nat
          BY CertFields, Numbers, Zenon DEF StoreInv, TypeOK
    <2>2. now \in Nat
          BY Clock, Zenon DEF StoreInv
    <2>3. ValidFor(cert[v], now', 0) /\ cert[v] # NoCert => ValidFor(cert[v], now, 0)
          BY <2>1, <2>2 DEF ValidFor
    <2> QED
          BY <1>0, <2>3, Zenon DEF WorkerInv, Kept, Same, CertificateKey, Examining
  <1> QED
        BY <1>1, <1>2, <1>3, <1>4, <1>5, <1>6, Zenon DEF WorkerInv

(***************************************************************************)
(* A step of one worker that does not touch the store.                     *)
(***************************************************************************)
LEMMA LocalStep ==
  ASSUME RenewalInv, NEW w \in Workers, \A v \in Workers \ {w} : Same(v),
         hash' = hash, now' = now, endangered' = endangered,
         \A v \in Workers \ {w} : \A n \in Names : lease[n] = v => lease'[n] = v,
         serial' \in {serial, serial + 1}, TypeOK', WorkerInv(w)'
  PROVE  RenewalInv'
  <1>0. serial' \in Serials /\ serial' >= serial
        BY Numbers DEF RenewalInv, StoreInv, TypeOK
  <1>1. Filed'
    <2> SUFFICES ASSUME NEW f \in Fields, IsCert(hash[f]) PROVE hash[f].serial <= serial'
        BY Zenon DEF Filed, RenewalInv, StoreInv, IsCert
    <2>1. hash[f].serial <= serial
          BY Zenon DEF RenewalInv, StoreInv, Filed
    <2>2. hash[f].serial \in Nat /\ serial \in Nat
          BY CertFields, Numbers, Zenon DEF RenewalInv, StoreInv, TypeOK, IsCert
    <2> QED
          BY <2>1, <2>2
  <1>2. ASSUME NEW v \in Workers \ {w} PROVE WorkerInv(v)'
    <2>1. Safe(v)' => Safe(v)
          BY <1>2, Zenon DEF Safe, HasLock, Same, Name
    <2>2. Locked(v)'
      <3>1. Safe(v) => Name(v) \in Names
            BY <1>2, Zenon DEF RenewalInv, WorkerInv, Asked, Safe, HasLock, Name
      <3> QED
            BY <1>2, <2>1, <3>1, SMTT(30) DEF RenewalInv, WorkerInv, Locked, Same, Name
    <2> QED
          BY <1>0, <1>2, <2>1, <2>2, Frame, Zenon DEF RenewalInv
  <1> QED
        BY <1>1, <1>2, Zenon DEF RenewalInv, StoreInv

-----------------------------------------------------------------------------
(***************************************************************************)
(* The steps that do not touch the store, one by one. GetCertificate is    *)
(* called: the worker has asked and has neither lock nor certificate.      *)
(***************************************************************************)
LEMMA CallKeeps ==
  ASSUME RenewalInv, NEW w \in Workers, NEW s \in Suppliers, NEW n \in Names, GetCertificate(w, s, n)
  PROVE  RenewalInv'
  <1>0. TypeOK /\ WorkerInv(w)
        BY Zenon DEF RenewalInv, StoreInv
  <1>1. TypeOK'
        BY <1>0, Zenon DEF TypeOK, GetCertificate, Goto, PcStates, storeVars, lockVars
  <1>2. WorkerInv(w)'
        BY <1>0, Zenon DEF TypeOK, GetCertificate, Goto, storeVars, lockVars, WorkerInv, Asked, Locked, Safe, HasLock,
               Carries, Prunes, Expired, Fresh, Newest, Kept, Examining, Changing
  <1>3. /\ \A v \in Workers \ {w} : Same(v)
        /\ UNCHANGED <<hash, now, endangered, lease, serial>>
        BY <1>0, Zenon DEF TypeOK, GetCertificate, Goto, storeVars, lockVars, Same
  <1> QED
        BY <1>1, <1>2, <1>3, LocalStep, Zenon

(***************************************************************************)
(* LockCertificate returns.                                                *)
(***************************************************************************)
LEMMA LockKeeps ==
  ASSUME RenewalInv, NEW w \in Workers, LockCertificate(w)
  PROVE  RenewalInv'
  <1>0. TypeOK /\ WorkerInv(w)
        BY Zenon DEF RenewalInv, StoreInv
  <1>1. Name(w) \in Names /\ Name(w)' = Name(w)
        BY <1>0, Zenon DEF WorkerInv, Asked, LockCertificate, Name
  <1>2. TypeOK'
        BY <1>0, <1>1, Zenon DEF TypeOK, LockCertificate, Goto, PcStates, storeVars
  <1>3. WorkerInv(w)'
        BY <1>0, <1>1 DEF TypeOK, LockCertificate, Goto, storeVars, WorkerInv, Asked, Locked, Safe, HasLock,
               Carries, Prunes, Expired, Fresh, Newest, Kept, Examining, Changing
  <1>4. /\ \A v \in Workers \ {w} : Same(v)
        /\ UNCHANGED <<hash, now, endangered, serial>>
        /\ \A v \in Workers \ {w} : \A n \in Names : lease[n] = v => lease'[n] = v
        BY <1>0, <1>1, RenewalAssumption, Zenon DEF TypeOK, LockCertificate, Goto, storeVars, Same
  <1> QED
        BY <1>2, <1>3, <1>4, LocalStep, Zenon

(***************************************************************************)
(* The store is read under the lock.                                       *)
(***************************************************************************)
LEMMA GetStoredKeeps ==
  ASSUME RenewalInv, NEW w \in Workers, GetStored(w)
  PROVE  RenewalInv'
  <1>0. StoreInv /\ TypeOK /\ WorkerInv(w)
        BY Zenon DEF RenewalInv, StoreInv
  <1>1. /\ Name(w) \in Names /\ Supplier(w) \in Suppliers
        /\ Name(w)' = Name(w) /\ Supplier(w)' = Supplier(w)
        BY <1>0, Zenon DEF WorkerInv, Asked, GetStored, Name, Supplier
  <1> DEFINE L == Lookup(Supplier(w), Name(w))
  <1>2. \/ L = NoCert /\ ~IsCert(hash[Own(w)]) /\ ~IsCert(hash[OldOne(w)])
        \/ L = hash[Own(w)] /\ IsCert(hash[Own(w)])
        \/ L = hash[OldOne(w)] /\ IsCert(hash[OldOne(w)]) /\ ~IsCert(hash[Own(w)])
        BY <1>0, <1>1, LookupFinds, Zenon DEF Own, OldOne
  <1>3. Own(w) \in Fields /\ OldOne(w) \in Fields /\ Own(w)' = Own(w) /\ OldOne(w)' = OldOne(w)
        BY <1>1, Zenon DEF Own, OldOne, Fields, Providers
  <1>4. L # NoCert =>
          /\ L \in Certs /\ L.serial \in Serials /\ L.name = Name(w)
          /\ L.provider \in {Supplier(w), Legacy} /\ L.serial <= serial /\ SoundAri(L)
          /\ L.provider = Legacy => L.serial = 0 /\ ~IsCert(hash[Own(w)])
          /\ hash[CertificateKey(L)] = L
    <2>1. CASE L = hash[Own(w)] /\ IsCert(hash[Own(w)])
          BY <1>0, <1>1, <1>3, <2>1, CertFields, RenewalAssumption
             DEF StoreInv, Filed, Own, CertificateKey, IsCert
    <2>2. CASE L = hash[OldOne(w)] /\ IsCert(hash[OldOne(w)]) /\ ~IsCert(hash[Own(w)])
          BY <1>0, <1>3, <2>2, CertFields, Zenon DEF StoreInv, Filed, OldOne, CertificateKey, IsCert
    <2> QED
          BY <1>2, <2>1, <2>2, Zenon
  <1>5. \A f \in {Own(w), OldOne(w)} : IsCert(hash[f]) => L # NoCert /\ hash[f].serial <= L.serial
    <2>1. \A f \in {Own(w), OldOne(w)} : IsCert(hash[f]) => hash[f].serial \in Nat
          BY CertFields, Numbers, Zenon DEF IsCert
    <2>2. IsCert(hash[OldOne(w)]) => hash[OldOne(w)].serial = 0
          BY <1>0, <1>3, Zenon DEF StoreInv, Filed, OldOne
    <2>3. \A f \in {Own(w), OldOne(w)} : IsCert(hash[f]) => hash[f] # NoCert
          BY Numbers, Zenon DEF IsCert
    <2> QED
          BY <1>2, <2>1, <2>2, <2>3
  <1> HIDE DEF L
  <1>6. PICK c \in {L, NoCert} :
          /\ cert' = [cert EXCEPT ![w] = c]
          /\ Goto(w, IF c = NoCert THEN "obtaining"
                     ELSE IF c.ariNextUpdate < now THEN "ari" ELSE "deciding")
        BY Zenon DEF GetStored, L
  <1>7. /\ pc[w] = "reading" /\ read' = [read EXCEPT ![w] = SerialOf(L)]
        /\ UNCHANGED <<now, storeVars, lockVars, request, prune, failed>>
        BY Zenon DEF GetStored, L
  <1>8. SerialOf(L) = IF L = NoCert THEN NoCert ELSE L.serial
        BY Zenon DEF SerialOf
  <1>9. /\ pc'[w] = IF c = NoCert THEN "obtaining" ELSE IF c.ariNextUpdate < now THEN "ari" ELSE "deciding"
        /\ cert'[w] = c /\ read'[w] = SerialOf(L) /\ hash' = hash /\ now' = now /\ serial' = serial
        /\ endangered' = endangered /\ lease' = lease
        /\ request'[w] = request[w] /\ prune'[w] = prune[w] /\ failed'[w] = failed[w]
        BY <1>0, <1>6, <1>7, Zenon DEF TypeOK, Goto, storeVars, lockVars
  <1>10. TypeOK'
        BY <1>0, <1>4, <1>6, <1>7, <1>8, Zenon DEF TypeOK, Goto, PcStates, storeVars, lockVars
  <1>11. WorkerInv(w)'
    <2>1. Asked(w)' /\ Locked(w)'
          BY <1>0, <1>1, <1>7, <1>9, Zenon DEF WorkerInv, Asked, Locked, Safe, HasLock
    <2>2. Carries(w)'
          BY <1>1, <1>4, <1>7, <1>8, <1>9, Zenon DEF Carries, Examining, Changing, SoundAri
    <2>3. Prunes(w)'
          BY <1>0, <1>9, Zenon DEF WorkerInv, Prunes, Expired
    <2>4. Fresh(w)'
          BY <1>3, <1>4, <1>5, <1>8, <1>9, Numbers, Zenon DEF Fresh, IsCert
    <2>5. Newest(w)' /\ Kept(w)'
      <3>1. L # NoCert => L.serial \in Nat
            BY <1>4, Numbers, Zenon
      <3> QED
            BY <1>3, <1>4, <1>9, <3>1, SMTT(30) DEF Newest, Kept, IsCert, SameButAri, CertificateKey
    <2> QED
          BY <2>1, <2>2, <2>3, <2>4, <2>5, Zenon DEF WorkerInv
  <1>12. \A v \in Workers \ {w} : Same(v)
        BY <1>0, <1>6, <1>7, Zenon DEF TypeOK, Goto, Same
  <1> QED
        BY <1>9, <1>10, <1>11, <1>12, LocalStep, Zenon

(***************************************************************************)
(* Renewal information is asked for, or cannot be had.                     *)
(***************************************************************************)
LEMMA AriStepKeeps ==
  ASSUME RenewalInv, NEW w \in Workers, UpdateRenewalInfo(w)
  PROVE  RenewalInv'
  <1>0. StoreInv /\ TypeOK /\ WorkerInv(w)
        BY Zenon DEF RenewalInv, StoreInv
  <1>1. /\ pc[w] = "ari" /\ cert[w] \in Certs /\ cert[w] # NoCert
        /\ UNCHANGED <<now, storeVars, lockVars, request, read, prune, failed>>
        BY <1>0, Zenon DEF UpdateRenewalInfo, TypeOK, WorkerInv, Carries, Examining
  <1>2. PICK c \in {cert[w]} \cup WithRenewalInfo(Supplier(w), cert[w]) :
          /\ cert' = [cert EXCEPT ![w] = c]
          /\ pc' = [pc EXCEPT ![w] = "deciding"] \/ pc' = [pc EXCEPT ![w] = "ariSaveRead"]
        BY <1>0 DEF UpdateRenewalInfo, Goto, TypeOK
  <1>3. /\ c \in Certs /\ c # NoCert /\ SameButAri(c, cert[w])
        /\ c.provider = cert[w].provider /\ c.name = cert[w].name /\ SoundAri(c)
    <2>1. SoundAri(cert[w]) /\ now \in 0..MaxTime
          BY <1>0, <1>1, Zenon DEF WorkerInv, Carries, TypeOK
    <2> QED
          BY <1>1, <2>1, AriKeeps, Numbers DEF SameButAri
  <1>4. /\ pc'[w] \in {"deciding", "ariSaveRead"} /\ cert'[w] = c
        /\ request'[w] = request[w] /\ read'[w] = read[w] /\ prune'[w] = prune[w] /\ failed'[w] = failed[w]
        /\ hash' = hash /\ now' = now /\ serial' = serial /\ endangered' = endangered /\ lease' = lease
        BY <1>0, <1>1, <1>2, Zenon DEF TypeOK, storeVars, lockVars
  <1>5. TypeOK'
        BY <1>0, <1>1, <1>2, <1>3, Zenon DEF TypeOK, PcStates, storeVars, lockVars
  <1>6. WorkerInv(w)'
    <2>1. /\ Name(w)' = Name(w) /\ Supplier(w)' = Supplier(w)
          /\ Own(w)' = Own(w) /\ OldOne(w)' = OldOne(w)
          /\ CertificateKey(c) = CertificateKey(cert[w])
          BY <1>3, <1>4, Zenon DEF Name, Supplier, Own, OldOne, CertificateKey
    <2>2. Asked(w)' /\ Locked(w)'
          BY <1>0, <1>1, <1>4, <2>1, Zenon DEF WorkerInv, Asked, Locked, Safe, HasLock
    <2>3. Carries(w)'
          BY <1>0, <1>1, <1>3, <1>4, <2>1, Zenon DEF WorkerInv, Carries, Examining, Changing, SameButAri, SoundAri
    <2>4. Prunes(w)'
          BY <1>0, <1>4, Zenon DEF WorkerInv, Prunes, Expired
    <2>5. Fresh(w)'
          BY <1>0, <1>1, <1>4, <2>1, Zenon DEF WorkerInv, Fresh, Safe, HasLock, Examining, IsCert
    <2>6. Newest(w)'
          BY <1>0, <1>1, <1>3, <1>4, <2>1, Zenon DEF WorkerInv, Newest, Safe, HasLock, IsCert, SameButAri, CertificateKey
    <2>7. Kept(w)'
          BY <1>0, <1>1, <1>3, <1>4, <2>1, Zenon
             DEF WorkerInv, Kept, Safe, HasLock, IsCert, SameButAri, CertificateKey, ValidFor, Examining
    <2> QED
          BY <2>2, <2>3, <2>4, <2>5, <2>6, <2>7, Zenon DEF WorkerInv
  <1>7. \A v \in Workers \ {w} : Same(v)
        BY <1>0, <1>1, <1>2, Zenon DEF TypeOK, Same
  <1> QED
        BY <1>4, <1>5, <1>6, <1>7, LocalStep, Zenon

(***************************************************************************)
(* GetCertificate decides whether to renew, to staple or to return.        *)
(***************************************************************************)
LEMMA DecideKeeps ==
  ASSUME RenewalInv, NEW w \in Workers, Decide(w)
  PROVE  RenewalInv'
  <1>0. StoreInv /\ TypeOK /\ WorkerInv(w)
        BY Zenon DEF RenewalInv, StoreInv
  <1>1. /\ pc[w] = "deciding" /\ cert[w] \in Certs /\ cert[w] # NoCert
        /\ UNCHANGED <<now, storeVars, lockVars, request, cert, read, prune, failed>>
        BY <1>0, Zenon DEF Decide, TypeOK, WorkerInv, Carries, Examining
  <1>2. PICK to \in {"obtaining", "stapling", "unlocking"} :
          /\ pc' = [pc EXCEPT ![w] = to]
          /\ to = "obtaining" => ShouldRenew(cert[w], now, MinValidity)
        BY Zenon DEF Decide, Goto
  <1>3. ShouldRenew(cert[w], now, MinValidity) /\ MinValidity < Lifetime => cert[w].notAfter < now + Lifetime
    <2>1. cert[w].notAfter \in Nat /\ cert[w].ariRenewalTime \in Nat
          BY <1>1, CertFields, Numbers, Zenon
    <2>2. now \in Nat
          BY <1>0, Clock, Zenon
    <2>3. SoundAri(cert[w])
          BY <1>0, <1>1, Zenon DEF WorkerInv, Carries
    <2> QED
          BY <2>1, <2>2, <2>3, Numbers DEF ShouldRenew, ValidFor, SoundAri
  <1>4. /\ pc'[w] = to /\ cert'[w] = cert[w]
        /\ request'[w] = request[w] /\ read'[w] = read[w] /\ prune'[w] = prune[w] /\ failed'[w] = failed[w]
        /\ hash' = hash /\ now' = now /\ serial' = serial /\ endangered' = endangered /\ lease' = lease
        BY <1>0, <1>1, <1>2, Zenon DEF TypeOK, storeVars, lockVars
  <1>5. TypeOK'
        BY <1>0, <1>1, <1>2, Zenon DEF TypeOK, PcStates, storeVars, lockVars
  <1>6. WorkerInv(w)'
    <2>1. /\ Name(w)' = Name(w) /\ Supplier(w)' = Supplier(w)
          /\ Own(w)' = Own(w) /\ OldOne(w)' = OldOne(w)
          BY <1>4, Zenon DEF Name, Supplier, Own, OldOne
    <2>2. Asked(w)' /\ Locked(w)'
          BY <1>0, <1>1, <1>4, <2>1, Zenon DEF WorkerInv, Asked, Locked, Safe, HasLock
    <2>3. Carries(w)'
          BY <1>0, <1>1, <1>2, <1>3, <1>4, <2>1, Zenon DEF WorkerInv, Carries, Examining, Changing, SoundAri
    <2>4. Prunes(w)'
          BY <1>0, <1>4, Zenon DEF WorkerInv, Prunes, Expired
    <2>5. Fresh(w)'
          BY <1>0, <1>1, <1>4, <2>1, Zenon DEF WorkerInv, Fresh, Safe, HasLock, Examining, IsCert
    <2>6. Newest(w)'
          BY <1>0, <1>1, <1>4, <2>1, Zenon DEF WorkerInv, Newest, Safe, HasLock, IsCert, CertificateKey
    <2>7. Kept(w)'
          BY <1>0, <1>1, <1>4, <2>1, Zenon
             DEF WorkerInv, Kept, Safe, HasLock, IsCert, SameButAri, CertificateKey, Examining
    <2> QED
          BY <2>2, <2>3, <2>4, <2>5, <2>6, <2>7, Zenon DEF WorkerInv
  <1>7. \A v \in Workers \ {w} : Same(v)
        BY <1>0, <1>1, <1>2, Zenon DEF TypeOK, Same
  <1> QED
        BY <1>4, <1>5, <1>6, <1>7, LocalStep, Zenon

(***************************************************************************)
(* A worker that fails lets go of its certificate.                         *)
(***************************************************************************)
LEMMA FailKeepsWorker ==
  ASSUME TypeOK, NEW w \in Workers, WorkerInv(w), HasLock(w), Fail(w),
         UNCHANGED <<now, lockVars, request>>, prune'[w] \in {prune[w], {}}
  PROVE  WorkerInv(w)'
  <1>1. pc'[w] = "unlocking" /\ cert'[w] = NoCert /\ failed'[w] = TRUE
        BY Zenon DEF TypeOK, Fail, Goto
  <1>2. Name(w)' = Name(w)
        BY Zenon DEF Name
  <1>3. Asked(w)' /\ Locked(w)' /\ Carries(w)'
        BY <1>1, <1>2, Zenon DEF WorkerInv, Asked, Locked, Carries, Safe, HasLock, lockVars, Examining, Changing
  <1>4. Prunes(w)'
        BY Zenon DEF WorkerInv, Prunes, Expired
  <1>5. Fresh(w)' /\ Newest(w)' /\ Kept(w)'
        BY <1>1, Zenon DEF Fresh, Newest, Kept, Examining
  <1> QED
        BY <1>3, <1>4, <1>5, Zenon DEF WorkerInv

(***************************************************************************)
(* A step of a worker that fails without touching the store.               *)
(***************************************************************************)
LEMMA FailKeeps ==
  ASSUME RenewalInv, NEW w \in Workers, HasLock(w), Fail(w),
         prune' = prune \/ prune' = [prune EXCEPT ![w] = {}],
         UNCHANGED <<now, storeVars, lockVars, request, read>>
  PROVE  RenewalInv'
  <1>0. TypeOK /\ WorkerInv(w)
        BY Zenon DEF RenewalInv, StoreInv
  <1>1. TypeOK'
        BY <1>0, Zenon DEF TypeOK, Fail, Goto, PcStates, storeVars, lockVars
  <1>2. WorkerInv(w)'
        BY <1>0, FailKeepsWorker, Zenon DEF TypeOK
  <1>3. /\ \A v \in Workers \ {w} : Same(v)
        /\ UNCHANGED <<hash, now, endangered, lease, serial>>
        BY <1>0, Zenon DEF TypeOK, Fail, Goto, Same, storeVars, lockVars
  <1> QED
        BY <1>1, <1>2, <1>3, LocalStep, Zenon

(***************************************************************************)
(* The supplier issues a certificate.                                      *)
(***************************************************************************)
LEMMA ObtainKeeps ==
  ASSUME RenewalInv, NEW w \in Workers, Obtain(w)
  PROVE  RenewalInv'
  <1>0. StoreInv /\ TypeOK /\ WorkerInv(w)
        BY Zenon DEF RenewalInv, StoreInv
  <1> DEFINE new == NewCert(Supplier(w), Name(w))
  <1>1. /\ pc[w] = "obtaining" /\ serial < MaxSerial /\ serial' = serial + 1
        /\ pc' = [pc EXCEPT ![w] = "saveRead"] /\ read' = [read EXCEPT ![w] = NoCert]
        /\ UNCHANGED <<now, hash, lockVars, request, prune, failed>>
        BY Zenon DEF Obtain, Goto
  <1>2. Supplier(w) \in Suppliers /\ Name(w) \in Names
        BY <1>0, <1>1, Zenon DEF WorkerInv, Asked, Supplier, Name
  <1>3. /\ new \in Certs /\ new.serial = serial + 1 /\ new.provider = Supplier(w)
        /\ new.name = Name(w) /\ new.notAfter = now + Lifetime /\ SoundAri(new)
        BY <1>0, <1>1, <1>2, NewCertIs, Zenon DEF TypeOK
  <1>4. PICK c \in {new} \cup WithRenewalInfo(Supplier(w), new) : cert' = [cert EXCEPT ![w] = c]
        BY Zenon DEF Obtain
  <1> HIDE DEF new
  <1>5. /\ c \in Certs /\ c # NoCert /\ c.serial = serial + 1 /\ c.provider = Supplier(w)
        /\ c.name = Name(w) /\ c.notAfter = now + Lifetime /\ SoundAri(c)
        BY <1>0, <1>3, <1>4, AriKeeps, Numbers DEF TypeOK, SameButAri
  <1>6. /\ pc'[w] = "saveRead" /\ cert'[w] = c /\ read'[w] = NoCert
        /\ request'[w] = request[w] /\ prune'[w] = prune[w] /\ failed'[w] = failed[w]
        /\ hash' = hash /\ now' = now /\ endangered' = endangered /\ lease' = lease
        BY <1>0, <1>1, <1>4, Zenon DEF TypeOK, lockVars
  <1>7. serial \in Nat /\ serial + 1 \in Serials
        BY <1>0, <1>1, Numbers DEF TypeOK, Serials
  <1>8. TypeOK'
        BY <1>0, <1>1, <1>4, <1>5, <1>7, Zenon DEF TypeOK, PcStates, lockVars
  <1>9. WorkerInv(w)'
    <2>1. /\ Name(w)' = Name(w) /\ Supplier(w)' = Supplier(w) /\ Supplier(w) # Legacy
          BY <1>2, <1>6, RenewalAssumption, Zenon DEF Name, Supplier
    <2>2. Asked(w)' /\ Locked(w)'
          BY <1>0, <1>1, <1>6, <2>1, Zenon DEF WorkerInv, Asked, Locked, Safe, HasLock
    <2>3. Carries(w)'
      <3>1. SoundAri(cert[w])'
            BY <1>5, <1>6, Zenon DEF SoundAri
      <3>2. cert'[w] # NoCert /\ cert'[w].serial <= serial' /\ cert'[w].provider = Supplier(w)
            BY <1>1, <1>5, <1>6, <1>7
      <3> QED
            BY <1>5, <1>6, <2>1, <3>1, <3>2, Zenon DEF Carries, Examining, Changing
    <2>4. Prunes(w)'
          BY <1>0, <1>6, Zenon DEF WorkerInv, Prunes, Expired
    <2>5. Fresh(w)' /\ Kept(w)'
          BY <1>6, Zenon DEF Fresh, Kept, Examining
    <2>6. Newest(w)'
      <3>1. CertificateKey(c) \in Fields
            BY <1>5, CertFields, Zenon
      <3>2. IsCert(hash[CertificateKey(c)]) => hash[CertificateKey(c)].serial <= serial
            BY <1>0, <3>1, Zenon DEF StoreInv, Filed
      <3>3. IsCert(hash[CertificateKey(c)]) => hash[CertificateKey(c)].serial \in Nat
            BY CertFields, Numbers, Zenon DEF IsCert
      <3>4. IsCert(hash[CertificateKey(c)]) => hash[CertificateKey(c)].serial <= serial + 1
            BY <1>7, <3>2, <3>3
      <3> QED
            BY <1>5, <1>6, <2>1, <3>4, Zenon DEF Newest, CertificateKey, IsCert
    <2> QED
          BY <2>2, <2>3, <2>4, <2>5, <2>6, Zenon DEF WorkerInv
  <1>10. \A v \in Workers \ {w} : Same(v)
        BY <1>0, <1>1, <1>4, Zenon DEF TypeOK, Same
  <1> QED
        BY <1>1, <1>6, <1>8, <1>9, <1>10, LocalStep, Zenon

(***************************************************************************)
(* A new staple is fetched.                                                *)
(***************************************************************************)
LEMMA StapleStepKeeps ==
  ASSUME RenewalInv, NEW w \in Workers, Staple(w)
  PROVE  RenewalInv'
  <1>0. StoreInv /\ TypeOK /\ WorkerInv(w)
        BY Zenon DEF RenewalInv, StoreInv
  <1>1. /\ pc[w] = "stapling" /\ cert[w] \in Certs /\ cert[w] # NoCert
        /\ UNCHANGED <<now, storeVars, lockVars, request, read, prune>>
        BY <1>0, Zenon DEF Staple, TypeOK, WorkerInv, Carries, Changing
  <1>2. CASE Fail(w)
        BY <1>1, <1>2, FailKeeps, Zenon DEF HasLock
  <1>3. CASE cert' = [cert EXCEPT ![w] = UpdateStaple(cert[w])] /\ Goto(w, "saveRead") /\ UNCHANGED failed
    <2> DEFINE c == UpdateStaple(cert[w])
    <2>1. /\ c \in Certs /\ c # NoCert /\ c.serial = cert[w].serial /\ c.provider = cert[w].provider
          /\ c.name = cert[w].name /\ c.notAfter = cert[w].notAfter /\ c.ariRenewalTime = cert[w].ariRenewalTime
          BY <1>0, <1>1, StapleKeeps, Numbers, Zenon DEF TypeOK
    <2>2. cert' = [cert EXCEPT ![w] = c] /\ pc' = [pc EXCEPT ![w] = "saveRead"] /\ UNCHANGED failed
          BY <1>3, Zenon DEF Goto
    <2> HIDE DEF c
    <2>3. /\ pc'[w] = "saveRead" /\ cert'[w] = c /\ read'[w] = read[w]
          /\ request'[w] = request[w] /\ prune'[w] = prune[w] /\ failed'[w] = failed[w]
          /\ hash' = hash /\ now' = now /\ serial' = serial /\ endangered' = endangered /\ lease' = lease
          BY <1>0, <1>1, <2>2, Zenon DEF TypeOK, storeVars, lockVars
    <2>4. TypeOK'
          BY <1>0, <1>1, <2>1, <2>2, Zenon DEF TypeOK, PcStates, storeVars, lockVars
    <2>5. WorkerInv(w)'
      <3>1. /\ Name(w)' = Name(w) /\ Supplier(w)' = Supplier(w) /\ Own(w)' = Own(w)
            /\ CertificateKey(c) = CertificateKey(cert[w])
            BY <2>1, <2>3, Zenon DEF Name, Supplier, Own, CertificateKey
      <3>2. Asked(w)' /\ Locked(w)'
            BY <1>0, <1>1, <2>3, <3>1, Zenon DEF WorkerInv, Asked, Locked, Safe, HasLock
      <3>3. Carries(w)'
            BY <1>0, <1>1, <2>1, <2>3, <3>1, Zenon DEF WorkerInv, Carries, Examining, Changing, SoundAri
      <3>4. Prunes(w)'
            BY <1>0, <2>3, Zenon DEF WorkerInv, Prunes, Expired
      <3>5. Fresh(w)' /\ Kept(w)'
            BY <2>3, Zenon DEF Fresh, Kept, Examining
      <3>6. Newest(w)'
            BY <1>0, <1>1, <2>1, <2>3, <3>1, Zenon DEF WorkerInv, Newest, Safe, HasLock, IsCert, CertificateKey
      <3> QED
            BY <3>2, <3>3, <3>4, <3>5, <3>6, Zenon DEF WorkerInv
    <2>6. \A v \in Workers \ {w} : Same(v)
          BY <1>0, <1>1, <2>2, Zenon DEF TypeOK, Same
    <2> QED
          BY <2>3, <2>4, <2>5, <2>6, LocalStep, Zenon
  <1> QED
        BY <1>2, <1>3, Zenon DEF Staple

-----------------------------------------------------------------------------
(***************************************************************************)
(* SaveCertificate: a worker goes on within the same phase.                *)
(***************************************************************************)
LEMMA MoveKeeps ==
  ASSUME RenewalInv, NEW w \in Workers, NEW to, NEW P, TypeOK',
         UNCHANGED <<now, storeVars, lockVars, request, cert, read, failed>>,
         pc' = [pc EXCEPT ![w] = to], prune' = [prune EXCEPT ![w] = P],
         (pc[w] \in Examining /\ to \in Examining) \/ (pc[w] = "saveRead" /\ to = "save"),
         \A a \in P : Expired(a[2])
  PROVE  RenewalInv'
  <1>0. TypeOK /\ WorkerInv(w)
        BY Zenon DEF RenewalInv, StoreInv
  <1>1. /\ pc'[w] = to /\ cert'[w] = cert[w] /\ read'[w] = read[w] /\ prune'[w] = P
        /\ request'[w] = request[w] /\ failed'[w] = failed[w]
        /\ hash' = hash /\ now' = now /\ serial' = serial /\ endangered' = endangered /\ lease' = lease
        BY <1>0, Zenon DEF TypeOK, storeVars, lockVars
  <1>2. Name(w)' = Name(w) /\ Supplier(w)' = Supplier(w) /\ Own(w)' = Own(w) /\ OldOne(w)' = OldOne(w)
        BY <1>1, Zenon DEF Name, Supplier, Own, OldOne
  <1>3. Asked(w)' /\ Locked(w)' /\ Carries(w)'
        BY <1>0, <1>1, <1>2, Zenon
           DEF WorkerInv, Asked, Locked, Carries, Safe, HasLock, Examining, Changing, SoundAri
  <1>4. Prunes(w)'
        BY <1>1, Zenon DEF Prunes, Expired
  <1>5. Fresh(w)' /\ Newest(w)' /\ Kept(w)'
        BY <1>0, <1>1, <1>2, Zenon
           DEF WorkerInv, Fresh, Newest, Kept, Safe, HasLock, Examining, IsCert, SameButAri, CertificateKey
  <1>6. WorkerInv(w)'
        BY <1>3, <1>4, <1>5, Zenon DEF WorkerInv
  <1>7. \A v \in Workers \ {w} : Same(v)
        BY <1>0, Zenon DEF TypeOK, Same
  <1> QED
        BY <1>1, <1>6, <1>7, LocalStep, Zenon

(***************************************************************************)
(* The entries are read, or cannot be read.                                *)
(***************************************************************************)
LEMMA ReadStoredKeeps ==
  ASSUME RenewalInv, NEW w \in Workers, ReadStored(w)
  PROVE  RenewalInv'
  <1>0. TypeOK
        BY Zenon DEF RenewalInv, StoreInv
  <1> DEFINE P == {<<f, hash[f]>> : f \in {f \in Fields : Expired(hash[f])}}
  <1>1. \A a \in P : Expired(a[2]) /\ a \in Fields \X (Certs \cup {Corrupt})
    <2> SUFFICES ASSUME NEW f \in Fields, Expired(hash[f]) PROVE hash[f] \in Certs \cup {Corrupt}
        OBVIOUS
    <2> QED
        BY <1>0, Numbers, Zenon DEF TypeOK, Expired
  <1>2. /\ prune' = [prune EXCEPT ![w] = P]
        /\ \/ pc[w] = "saveRead" /\ pc' = [pc EXCEPT ![w] = "save"]
           \/ pc[w] = "ariSaveRead" /\ pc' = [pc EXCEPT ![w] = "ariSave"]
        /\ UNCHANGED <<now, storeVars, lockVars, request, cert, read, failed>>
        BY Zenon DEF ReadStored, Goto
  <1> HIDE DEF P
  <1>3. TypeOK'
        BY <1>0, <1>1, <1>2, Zenon DEF TypeOK, PcStates, storeVars, lockVars
  <1> QED
        BY <1>1, <1>2, <1>3, MoveKeeps, Zenon DEF Examining

(***************************************************************************)
(* A save that fails before the transaction.                               *)
(***************************************************************************)
LEMMA SaveErrorKeeps ==
  ASSUME RenewalInv, NEW w \in Workers, SaveError(w),
         prune' = prune \/ prune' = [prune EXCEPT ![w] = {}],
         UNCHANGED <<now, storeVars, lockVars, request, read>>
  PROVE  RenewalInv'
  <1>0. TypeOK /\ WorkerInv(w)
        BY Zenon DEF RenewalInv, StoreInv
  <1>1. CASE pc[w] \in {"ariSaveRead", "ariSave"} /\ Goto(w, "deciding") /\ UNCHANGED <<failed, cert>>
    <2>1. TypeOK'
          BY <1>0, <1>1, Zenon DEF TypeOK, PcStates, Goto, storeVars, lockVars
    <2>2. PICK P \in {prune[w], {}} : prune' = [prune EXCEPT ![w] = P]
          BY <1>0, Zenon DEF TypeOK
    <2>3. \A a \in P : Expired(a[2])
          BY <1>0, Zenon DEF WorkerInv, Prunes
    <2> QED
          BY <1>1, <2>1, <2>2, <2>3, MoveKeeps, Zenon DEF Examining, Goto
  <1>2. CASE pc[w] \in {"saveRead", "save"} /\ Fail(w)
        BY <1>2, FailKeeps, Zenon DEF HasLock
  <1> QED
        BY <1>1, <1>2, Zenon DEF SaveError

(***************************************************************************)
(* What the transaction of a save does to the store: it stores the         *)
(* certificate in its field, and of the others at most expired ones go.    *)
(***************************************************************************)
Stores(k, c) ==
  /\ hash' \in [Fields -> Certs \cup {NoCert, Corrupt}]
  /\ hash'[k] = c
  /\ \A f \in Fields \ {k} : hash'[f] = hash[f] \/ (hash'[f] = NoCert /\ Expired(hash[f]))

(***************************************************************************)
(* The transaction of a save does that to the store with the certificate   *)
(* of its worker.                                                          *)
(***************************************************************************)
LEMMA TransactionStores ==
  ASSUME TypeOK, NEW w \in Workers, WorkerInv(w), cert[w] # NoCert, Transaction(w)
  PROVE  CertificateKey(cert[w]) \in Fields /\ Stores(CertificateKey(cert[w]), cert[w])
  <1>1. cert[w] \in Certs /\ CertificateKey(cert[w]) \in Fields
        BY CertFields, Zenon DEF TypeOK
  <1> DEFINE Left == Pruned(hash, prune[w])
  <1>2. /\ Left \in [Fields -> Certs \cup {NoCert, Corrupt}]
        /\ \A f \in Fields : Left[f] = hash[f] \/ (Left[f] = NoCert /\ Expired(hash[f]))
    <2>1. ASSUME NEW f \in Fields, <<f, hash[f]>> \in prune[w] PROVE Expired(hash[f])
          BY <2>1, Zenon DEF WorkerInv, Prunes
    <2>2. \A f \in Fields : Left[f] = IF <<f, hash[f]>> \in prune[w] THEN NoCert ELSE hash[f]
          BY Zenon DEF Pruned
    <2>3. \A f \in Fields : hash[f] \in Certs \cup {NoCert, Corrupt}
          BY Zenon DEF TypeOK
    <2>4. Left \in [Fields -> Certs \cup {NoCert, Corrupt}]
          BY <2>3, Zenon DEF Pruned
    <2>5. ASSUME NEW f \in Fields PROVE Left[f] = hash[f] \/ (Left[f] = NoCert /\ Expired(hash[f]))
          BY <2>1, <2>2, Zenon
    <2> HIDE DEF Left
    <2> QED
          BY <2>4, <2>5, Zenon
  <1> QED
        BY <1>1, <1>2, Zenon DEF Transaction, Stores

(***************************************************************************)
(* A save of worker w, seen by another worker: if the lease of the other   *)
(* one is safe, the save is for another name.                              *)
(***************************************************************************)
LEMMA SaveFrame ==
  ASSUME StoreInv, NEW w \in Workers, NEW v \in Workers \ {w}, WorkerInv(w), WorkerInv(v),
         HasLock(w), cert[w] # NoCert, NEW k \in Fields, k = CertificateKey(cert[w]), Stores(k, cert[w]),
         Same(v), UNCHANGED <<now, serial, lockVars>>
  PROVE  WorkerInv(v)'
  <1>0. /\ Name(v)' = Name(v) /\ Supplier(v)' = Supplier(v) /\ Own(v)' = Own(v) /\ OldOne(v)' = OldOne(v)
        /\ Safe(v)' = Safe(v)
        BY Zenon DEF Same, Name, Supplier, Own, OldOne, Safe, HasLock, lockVars
  <1>1. Asked(v)' /\ Locked(v)' /\ Carries(v)'
        BY <1>0, Zenon DEF WorkerInv, Asked, Locked, Carries, Same, lockVars, SoundAri, Examining, Changing
  <1>2. Prunes(v)'
        BY Zenon DEF WorkerInv, Prunes, Same, Expired
  <1>3. Safe(v) => Name(v) # Name(w) /\ Name(v) \in Names /\ Supplier(v) \in Suppliers
        BY Zenon DEF WorkerInv, Asked, Locked, Safe, HasLock, Name, Supplier
  <1>4. k[2] = Name(w)
        BY Zenon DEF WorkerInv, Carries, CertificateKey
  <1>5. ASSUME NEW f \in Fields, Safe(v), f[2] = Name(v)
        PROVE  /\ hash'[f] = hash[f] \/ (hash'[f] = NoCert /\ Expired(hash[f]))
               /\ ~IsCert(NoCert)
        BY <1>3, <1>4, <1>5, Numbers, Zenon DEF Stores, IsCert
  <1>6. Safe(v) => Own(v) \in Fields /\ OldOne(v) \in Fields /\ Own(v)[2] = Name(v) /\ OldOne(v)[2] = Name(v)
        BY <1>3, Zenon DEF Own, OldOne, Fields, Providers
  <1>7. Fresh(v)'
        BY <1>0, <1>5, <1>6, Zenon DEF WorkerInv, Fresh, Same, Examining, IsCert
  <1>8. Safe(v) /\ cert[v] # NoCert =>
          CertificateKey(cert[v]) \in Fields /\ CertificateKey(cert[v])[2] = Name(v)
        BY CertFields, Zenon DEF StoreInv, TypeOK, WorkerInv, Carries, CertificateKey
  <1>9. Newest(v)'
        BY <1>0, <1>5, <1>6, <1>8, Zenon DEF WorkerInv, Newest, Same, IsCert, CertificateKey
  <1>10. Kept(v)'
    <2> SUFFICES ASSUME Safe(v), pc[v] \in Examining \cup {"stapling", "unlocking"}, cert[v] # NoCert,
                        ValidFor(cert[v], now, 0)
                 PROVE  LET d == hash'[CertificateKey(cert[v])] IN IsCert(d) /\ SameButAri(d, cert[v])
        BY <1>0, Zenon DEF Kept, Same, SameButAri, CertificateKey, IsCert
    <2>1. /\ IsCert(hash[CertificateKey(cert[v])])
          /\ SameButAri(hash[CertificateKey(cert[v])], cert[v])
          BY Zenon DEF WorkerInv, Kept
    <2>2. ~Expired(hash[CertificateKey(cert[v])])
          BY <2>1, Numbers, Zenon DEF Expired, IsCert, SameButAri, ValidFor
    <2> QED
          BY <1>5, <1>8, <2>1, <2>2, Zenon
  <1> QED
        BY <1>1, <1>2, <1>7, <1>9, <1>10, Zenon DEF WorkerInv

(***************************************************************************)
(* The transaction is applied, whatever its worker learns of it.           *)
(***************************************************************************)
LEMMA TransactionKeeps ==
  ASSUME RenewalInv, NEW w \in Workers, pc[w] \in {"ariSave", "save"}, Transaction(w),
         TypeOK', WorkerInv(w)', \A v \in Workers \ {w} : Same(v),
         UNCHANGED <<now, serial, lockVars>>
  PROVE  RenewalInv'
  <1>0. StoreInv /\ TypeOK /\ WorkerInv(w)
        BY Zenon DEF RenewalInv, StoreInv
  <1> DEFINE k == CertificateKey(cert[w])
  <1>1. cert[w] # NoCert /\ HasLock(w)
        BY <1>0, Zenon DEF WorkerInv, Carries, HasLock, Examining, Changing
  <1>2. k \in Fields /\ Stores(k, cert[w])
        BY <1>0, <1>1, TransactionStores, Zenon
  <1>3. ASSUME NEW v \in Workers \ {w} PROVE WorkerInv(v)'
        BY <1>0, <1>1, <1>2, <1>3, SaveFrame, Zenon DEF RenewalInv
  <1>4. Filed'
    <2> SUFFICES ASSUME NEW f \in Fields, IsCert(hash'[f])
                 PROVE  /\ hash'[f].provider = f[1] /\ hash'[f].name = f[2] /\ hash'[f].serial <= serial
                        /\ f[1] = Legacy => hash'[f].serial = 0
                        /\ SoundAri(hash'[f])
        BY Zenon DEF Filed, IsCert, SoundAri
    <2>1. CASE f = k
          BY <1>0, <1>1, <1>2, <2>1, Zenon DEF WorkerInv, Carries, Stores, CertificateKey
    <2>2. CASE f # k
          BY <1>0, <1>2, <2>2, Numbers, SMTT(30) DEF StoreInv, Filed, Stores, IsCert
    <2> QED
          BY <2>1, <2>2, Zenon
  <1> QED
        BY <1>3, <1>4, Zenon DEF RenewalInv, StoreInv

(***************************************************************************)
(* A worker after its own save.                                            *)
(***************************************************************************)
LEMMA SavedKeepsWorker ==
  ASSUME StoreInv, NEW w \in Workers, WorkerInv(w), Transaction(w), NEW to,
         (pc[w] = "ariSave" /\ to = "deciding") \/ (pc[w] = "save" /\ to = "unlocking"),
         pc' = [pc EXCEPT ![w] = to], prune' = [prune EXCEPT ![w] = {}],
         UNCHANGED <<now, serial, lockVars, request, cert, read, failed>>
  PROVE  WorkerInv(w)'
  <1>0. TypeOK /\ cert[w] # NoCert /\ cert[w] \in Certs
        BY Zenon DEF StoreInv, TypeOK, WorkerInv, Carries, Examining, Changing
  <1> DEFINE k == CertificateKey(cert[w])
  <1>1. k \in Fields /\ Stores(k, cert[w])
        BY <1>0, TransactionStores, Zenon
  <1>2. /\ pc'[w] = to /\ cert'[w] = cert[w] /\ read'[w] = read[w] /\ prune'[w] = {}
        /\ request'[w] = request[w] /\ failed'[w] = failed[w]
        /\ now' = now /\ serial' = serial /\ endangered' = endangered /\ lease' = lease
        BY <1>0, Zenon DEF TypeOK, lockVars
  <1>3. /\ Name(w)' = Name(w) /\ Supplier(w)' = Supplier(w) /\ Own(w)' = Own(w) /\ OldOne(w)' = OldOne(w)
        /\ Safe(w)' = Safe(w)
        BY <1>2, Zenon DEF Name, Supplier, Own, OldOne, Safe, HasLock
  <1>4. Asked(w)' /\ Locked(w)' /\ Carries(w)' /\ Prunes(w)'
        BY <1>2, <1>3, Zenon DEF WorkerInv, Asked, Locked, Carries, Prunes, Examining, Changing, SoundAri
  <1>5. /\ Own(w) \in Fields /\ OldOne(w) \in Fields /\ Supplier(w) # Legacy
        /\ cert[w].serial \in Nat
        /\ ~IsCert(NoCert)
    <2>1. Supplier(w) \in Suppliers /\ Name(w) \in Names
          BY Zenon DEF WorkerInv, Asked, Supplier, Name
    <2>2. cert[w].serial \in Nat
          BY <1>0, CertFields, Numbers, Zenon
    <2> QED
          BY <2>1, <2>2, RenewalAssumption, Numbers, Zenon DEF Own, OldOne, Fields, Providers, IsCert
  <1>6. Fresh(w)'
    <2> SUFFICES ASSUME Safe(w), to = "deciding", NEW f \in {Own(w), OldOne(w)}, IsCert(hash'[f])
                 PROVE  read[w] # NoCert /\ hash'[f].serial <= read[w]
        BY <1>2, <1>3, Zenon DEF Fresh, Examining, IsCert
    <2>1. read[w] = cert[w].serial /\ read[w] # NoCert
          BY <1>0, CertFields, Numbers, Zenon DEF WorkerInv, Carries, Examining
    <2>2. CASE f = k
          BY <1>1, <1>5, <2>1, <2>2, SMTT(30) DEF Stores
    <2>3. CASE f # k
          BY <1>1, <1>5, <2>3, Zenon DEF Stores, WorkerInv, Fresh, Examining
    <2> QED
          BY <2>2, <2>3, Zenon
  <1>7. Newest(w)'
    <2>1. hash'[k].serial <= cert[w].serial
          BY <1>1, <1>5, SMTT(30) DEF Stores
    <2>2. cert[w].provider = Legacy /\ Safe(w) => ~IsCert(hash'[Own(w)])
      <3>1. cert[w].provider = Legacy => Own(w) # k
            BY <1>5, Zenon DEF Own, CertificateKey
      <3> QED
            BY <1>0, <1>1, <1>5, <3>1, Zenon DEF Stores, WorkerInv, Newest
    <2> QED
          BY <1>2, <1>3, <2>1, <2>2, Zenon DEF Newest, CertificateKey, IsCert
  <1>8. Kept(w)'
        BY <1>0, <1>1, <1>2, Zenon DEF Kept, Stores, CertificateKey, IsCert, SameButAri
  <1> QED
        BY <1>4, <1>6, <1>7, <1>8, Zenon DEF WorkerInv

(***************************************************************************)
(* The save succeeds.                                                      *)
(***************************************************************************)
LEMMA SaveKeeps ==
  ASSUME RenewalInv, NEW w \in Workers, SaveCertificate(w)
  PROVE  RenewalInv'
  <1>0. StoreInv /\ TypeOK /\ WorkerInv(w)
        BY Zenon DEF RenewalInv, StoreInv
  <1>1. PICK to : /\ (pc[w] = "ariSave" /\ to = "deciding") \/ (pc[w] = "save" /\ to = "unlocking")
                  /\ pc' = [pc EXCEPT ![w] = to]
        BY Zenon DEF SaveCertificate, Goto
  <1>2. /\ Transaction(w) /\ prune' = [prune EXCEPT ![w] = {}]
        /\ UNCHANGED <<now, serial, lockVars, request, cert, read, failed>>
        BY Zenon DEF SaveCertificate
  <1>3. WorkerInv(w)'
        BY <1>0, <1>1, <1>2, SavedKeepsWorker, Zenon
  <1>4. hash' \in [Fields -> Certs \cup {NoCert, Corrupt}]
        BY <1>0, <1>1, <1>2, TransactionStores, Zenon DEF Stores, WorkerInv, Carries, Examining, Changing
  <1>5. TypeOK'
        BY <1>0, <1>1, <1>2, <1>4, Zenon DEF TypeOK, PcStates, lockVars
  <1>6. \A v \in Workers \ {w} : Same(v)
        BY <1>0, <1>1, <1>2, Zenon DEF TypeOK, Same
  <1> QED
        BY <1>1, <1>2, <1>3, <1>5, <1>6, TransactionKeeps, Zenon

(***************************************************************************)
(* The save fails, perhaps after it was applied.                           *)
(***************************************************************************)
LEMMA SaveFailedKeeps ==
  ASSUME RenewalInv, NEW w \in Workers, SaveCertificateError(w)
  PROVE  RenewalInv'
  <1>0. StoreInv /\ TypeOK /\ WorkerInv(w)
        BY Zenon DEF RenewalInv, StoreInv
  <1>1. /\ pc[w] \in {"ariSave", "save"} /\ SaveError(w) /\ prune' = [prune EXCEPT ![w] = {}]
        /\ UNCHANGED <<now, serial, lockVars, request, read>>
        BY Zenon DEF SaveCertificateError
  <1>2. CASE UNCHANGED hash
        BY <1>1, <1>2, SaveErrorKeeps, Zenon DEF storeVars
  <1>3. CASE Transaction(w)
    <2>1. hash' \in [Fields -> Certs \cup {NoCert, Corrupt}]
          BY <1>0, <1>1, <1>3, TransactionStores, Zenon DEF Stores, WorkerInv, Carries, Examining, Changing
    <2>2. CASE pc[w] = "ariSave" /\ pc' = [pc EXCEPT ![w] = "deciding"] /\ UNCHANGED <<failed, cert>>
      <3>1. WorkerInv(w)'
            BY <1>0, <1>1, <1>3, <2>2, SavedKeepsWorker, Zenon
      <3>2. TypeOK'
            BY <1>0, <1>1, <2>1, <2>2, Zenon DEF TypeOK, PcStates, lockVars
      <3>3. \A v \in Workers \ {w} : Same(v)
            BY <1>0, <1>1, <2>2, Zenon DEF TypeOK, Same
      <3> QED
            BY <1>1, <1>3, <3>1, <3>2, <3>3, TransactionKeeps, Zenon
    <2>3. CASE Fail(w)
      <3>1. WorkerInv(w)'
            BY <1>0, <1>1, <2>3, FailKeepsWorker, Zenon DEF HasLock, TypeOK
      <3>2. TypeOK'
            BY <1>0, <1>1, <2>1, <2>3, Zenon DEF TypeOK, Fail, Goto, PcStates, lockVars
      <3>3. \A v \in Workers \ {w} : Same(v)
            BY <1>0, <1>1, <2>3, Zenon DEF TypeOK, Fail, Goto, Same
      <3> QED
            BY <1>1, <1>3, <3>1, <3>2, <3>3, TransactionKeeps, Zenon
    <2> QED
          BY <1>1, <2>2, <2>3, Zenon DEF SaveError, Goto
  <1> QED
        BY <1>2, <1>3, Zenon DEF SaveCertificateError

-----------------------------------------------------------------------------
(***************************************************************************)
(* GetCertificate returns, or the instance dies.                           *)
(***************************************************************************)
LEMMA ForgetKeeps ==
  ASSUME RenewalInv, NEW w \in Workers, Forget(w), UNCHANGED <<now, storeVars, endangered>>
  PROVE  RenewalInv'
  <1>0. TypeOK
        BY Zenon DEF RenewalInv, StoreInv
  <1>1. TypeOK'
        BY <1>0, Zenon DEF TypeOK, Forget, Goto, PcStates, storeVars
  <1>2. /\ pc'[w] = "idle" /\ cert'[w] = NoCert /\ prune'[w] = {}
        BY <1>0, Zenon DEF TypeOK, Forget, Goto
  <1>3. WorkerInv(w)'
        BY <1>2, Zenon DEF WorkerInv, Asked, Locked, Safe, HasLock, Carries, Prunes, Fresh, Newest, Kept, Examining, Changing
  <1>4. /\ \A v \in Workers \ {w} : Same(v)
        /\ UNCHANGED <<hash, now, endangered, serial>>
        /\ \A v \in Workers \ {w} : \A n \in Names : lease[n] = v => lease'[n] = v
        BY <1>0, Zenon DEF TypeOK, Forget, Goto, storeVars, Same
  <1> QED
        BY <1>1, <1>3, <1>4, LocalStep, Zenon

(***************************************************************************)
(* Time passes, a lease is endangered or lapses.                           *)
(***************************************************************************)
LEMMA EnvironmentKeeps ==
  ASSUME RenewalInv, Tick \/ \E n \in Names : Endanger(n) \/ Lapse(n)
  PROVE  RenewalInv'
  <1>0. StoreInv /\ TypeOK
        BY Zenon DEF RenewalInv, StoreInv
  <1>1. TypeOK'
    <2>1. CASE Tick
          BY <1>0, <2>1, Numbers DEF TypeOK, Tick, storeVars, lockVars, localVars
    <2>2. ASSUME NEW n \in Names, Endanger(n) \/ Lapse(n) PROVE TypeOK'
          BY <1>0, <2>2, Zenon DEF TypeOK, Endanger, Lapse, storeVars, localVars
    <2> QED
          BY <2>1, <2>2, Zenon
  <1>2. /\ \A v \in Workers : Same(v)
        /\ hash' = hash /\ serial' = serial /\ now' \in {now, now + 1}
        BY Zenon DEF Tick, Endanger, Lapse, Same, storeVars, localVars
  <1>3. \A n \in Names : ~endangered'[n] => ~endangered[n] /\ lease'[n] = lease[n]
        BY <1>0, Zenon DEF Tick, Endanger, Lapse, lockVars, TypeOK
  <1>4. ASSUME NEW v \in Workers PROVE WorkerInv(v)'
    <2>1. WorkerInv(v) /\ Same(v)
          BY <1>2, Zenon DEF RenewalInv
    <2>2. Name(v)' = Name(v) /\ (HasLock(v) => Name(v) \in Names) /\ HasLock(v)' = HasLock(v)
          BY <2>1, Zenon DEF Same, Name, HasLock, WorkerInv, Asked
    <2>3. (Safe(v)' => Safe(v)) /\ Locked(v)'
          BY <1>3, <2>1, <2>2, Zenon DEF Safe, WorkerInv, Locked
    <2>4. serial' \in Serials /\ serial' >= serial
          BY <1>0, <1>2, Numbers DEF TypeOK
    <2> QED
          BY <1>0, <1>2, <2>1, <2>3, <2>4, Frame, Zenon
  <1>5. Filed'
        BY <1>0, <1>2, Zenon DEF StoreInv, Filed, IsCert, SoundAri
  <1> QED
        BY <1>1, <1>4, <1>5, Zenon DEF RenewalInv, StoreInv

-----------------------------------------------------------------------------
(***************************************************************************)
(* RenewalInv holds initially.                                             *)
(***************************************************************************)
LEMMA RenewalInitially == Init => RenewalInv
  <1> SUFFICES ASSUME Init PROVE RenewalInv
      BY Zenon
  <1>1. \A n \in Names : OldCert(n) \in Certs
        BY RenewalAssumption, Numbers, Zenon DEF OldCert, Certs, Cert, Providers
  <1>2. /\ hash \in [Fields -> {NoCert, Corrupt} \cup {OldCert(n) : n \in Names}]
        /\ \A f \in Fields : IsCert(hash[f]) => f[1] = Legacy /\ hash[f] = OldCert(f[2])
        BY Numbers, Zenon DEF Init, IsCert
  <1>3. TypeOK
        BY <1>1, <1>2, RenewalAssumption, Numbers DEF Init, TypeOK, PcStates
  <1>4. Filed
        BY <1>2, Numbers, SMTT(30) DEF Init, Filed, OldCert, SoundAri, Fields
  <1>5. \A w \in Workers : WorkerInv(w)
        BY Zenon DEF Init, WorkerInv, Asked, Locked, Safe, HasLock, Carries, Prunes, Fresh, Newest, Kept, Examining, Changing
  <1> QED
        BY <1>3, <1>4, <1>5, Zenon DEF RenewalInv, StoreInv

(***************************************************************************)
(* RenewalInv is preserved by every step.                                  *)
(***************************************************************************)
LEMMA RenewalInductive == RenewalInv /\ [Next]_vars => RenewalInv'
  <1> SUFFICES ASSUME RenewalInv, [Next]_vars PROVE RenewalInv'
      BY Zenon
  <1>1. ASSUME NEW w \in Workers, NEW s \in Suppliers, NEW n \in Names, GetCertificate(w, s, n) PROVE RenewalInv'
        BY <1>1, CallKeeps, Zenon
  <1>2. ASSUME NEW w \in Workers, LockCertificate(w) PROVE RenewalInv'
        BY <1>2, LockKeeps, Zenon
  <1>3. ASSUME NEW w \in Workers, Step(w) PROVE RenewalInv'
    <2>1. CASE GetStored(w) \/ UpdateRenewalInfo(w) \/ Decide(w) \/ Obtain(w) \/ Staple(w)
          BY <2>1, GetStoredKeeps, AriStepKeeps, DecideKeeps, ObtainKeeps, StapleStepKeeps, Zenon
    <2>2. CASE ObtainError(w)
          BY <2>2, FailKeeps, Zenon DEF ObtainError, HasLock
    <2>3. CASE ReadStored(w) \/ SaveCertificate(w) \/ SaveCertificateError(w)
          BY <2>3, ReadStoredKeeps, SaveKeeps, SaveFailedKeeps, Zenon
    <2>4. CASE ReadStoredError(w)
          BY <2>4, SaveErrorKeeps, Zenon DEF ReadStoredError
    <2>5. CASE UnlockCertificate(w)
          BY <2>5, ForgetKeeps, Zenon DEF UnlockCertificate
    <2> QED
          BY <1>3, <2>1, <2>2, <2>3, <2>4, <2>5, Zenon DEF Step
  <1>4. ASSUME NEW w \in Workers, Crash(w) PROVE RenewalInv'
        BY <1>4, ForgetKeeps, Zenon DEF Crash
  <1>5. CASE Tick \/ \E n \in Names : Endanger(n) \/ Lapse(n)
        BY <1>5, EnvironmentKeeps, Zenon
  <1>6. CASE UNCHANGED vars
    <2>1. StoreInv'
          BY <1>6, Zenon DEF vars, storeVars, lockVars, localVars, RenewalInv, StoreInv, TypeOK, Filed, IsCert, SoundAri
    <2>2. ASSUME NEW w \in Workers PROVE WorkerInv(w)'
          BY <1>6, Zenon DEF vars, storeVars, lockVars, localVars, RenewalInv, WorkerInv, Asked, Locked, Safe, HasLock,
                      Name, Supplier, Own, OldOne, Carries, Prunes, Expired, Fresh, Newest, Kept, IsCert,
                      SoundAri, SameButAri, CertificateKey
    <2> QED
          BY <2>1, <2>2, Zenon DEF RenewalInv
  <1> QED
      BY <1>1, <1>2, <1>3, <1>4, <1>5, <1>6, Zenon DEF Next

(***************************************************************************)
(* RenewalInv is an invariant.                                             *)
(***************************************************************************)
THEOREM RenewalInvariant == Spec => []RenewalInv
  BY RenewalInitially, RenewalInductive, PTL DEF Spec

-----------------------------------------------------------------------------
(***************************************************************************)
(* Only the transaction of a save changes the store.                       *)
(***************************************************************************)
LEMMA OnlySavesChange ==
  ASSUME RenewalInv, [Next]_vars, hash' # hash
  PROVE  \E w \in Workers : /\ pc[w] \in {"ariSave", "save"} /\ cert[w] # NoCert
                            /\ WorkerInv(w) /\ CertificateKey(cert[w]) \in Fields
                            /\ Stores(CertificateKey(cert[w]), cert[w])
  <1>1. PICK w \in Workers : pc[w] \in {"ariSave", "save"} /\ Transaction(w)
    <2>1. \E w \in Workers : SaveCertificate(w) \/ SaveCertificateError(w)
          BY Zenon DEF Next, Step, GetCertificate, LockCertificate, GetStored, UpdateRenewalInfo, Decide, Obtain,
                 ObtainError, Staple, ReadStored, ReadStoredError, UnlockCertificate, Crash, Endanger, Lapse,
                 Tick, vars, storeVars
    <2> QED
          BY <2>1, Zenon DEF SaveCertificate, SaveCertificateError
  <1>2. WorkerInv(w) /\ TypeOK /\ cert[w] # NoCert
        BY <1>1, Zenon DEF RenewalInv, StoreInv, WorkerInv, Carries, Examining, Changing
  <1> QED
        BY <1>1, <1>2, TransactionStores, Zenon

(***************************************************************************)
(* A valid certificate never disappears from the store, whoever saves and  *)
(* prunes (SaveCertificate, pruneCertificatesScript).                      *)
(***************************************************************************)
THEOREM ValidSpared == Spec => PruneSparesValid
  <1> DEFINE Spared ==
        \A f \in Fields :
          hash[f] \in Certs /\ ~Expired(hash[f]) /\ hash'[f] # hash[f]
            => /\ hash'[f] \in Certs
               /\ \E w \in Workers : pc[w] \in {"ariSave", "save"} /\ hash'[f] = cert[w]
  <1>1. RenewalInv /\ [Next]_vars => Spared
    <2> SUFFICES ASSUME RenewalInv, [Next]_vars, NEW f \in Fields, hash[f] \in Certs, ~Expired(hash[f]),
                        hash'[f] # hash[f]
                 PROVE  /\ hash'[f] \in Certs
                        /\ \E w \in Workers : pc[w] \in {"ariSave", "save"} /\ hash'[f] = cert[w]
        BY Zenon
    <2>1. PICK w \in Workers : /\ pc[w] \in {"ariSave", "save"} /\ cert[w] # NoCert
                              /\ Stores(CertificateKey(cert[w]), cert[w])
          BY OnlySavesChange, Zenon
    <2>2. hash'[f] = cert[w]
          BY <2>1, Zenon DEF Stores
    <2>3. cert[w] \in Certs
          BY <2>1, Zenon DEF RenewalInv, StoreInv, TypeOK
    <2> QED
          BY <2>1, <2>2, <2>3, Zenon
  <1> QED
        BY RenewalInvariant, <1>1, PTL DEF Spec, PruneSparesValid

(***************************************************************************)
(* As long as the lease of a name is safe its certificates are never       *)
(* replaced by older ones (Manager.GetCertificate under LockCertificate).  *)
(***************************************************************************)
THEOREM NeverOlder == Spec => NoRegression
  <1> DEFINE NotOlder ==
        \A f \in Fields :
          ~endangered[f[2]] /\ hash[f] \in Certs /\ hash'[f] \in Certs
            => hash'[f].serial >= hash[f].serial
  <1>1. RenewalInv /\ [Next]_vars => NotOlder
    <2> SUFFICES ASSUME RenewalInv, [Next]_vars, NEW f \in Fields, ~endangered[f[2]], hash[f] \in Certs,
                        hash'[f] \in Certs
                 PROVE  hash'[f].serial >= hash[f].serial
        BY Zenon
    <2>1. hash[f].serial \in Nat /\ hash'[f].serial \in Nat /\ hash'[f] # NoCert
          BY CertFields, Numbers, Zenon
    <2>2. CASE hash'[f] = hash[f]
          BY <2>1, <2>2
    <2>3. CASE hash'[f] # hash[f]
      <3>1. PICK w \in Workers : /\ pc[w] \in {"ariSave", "save"} /\ cert[w] # NoCert
                                /\ WorkerInv(w) /\ Stores(CertificateKey(cert[w]), cert[w])
            BY <2>3, OnlySavesChange, Zenon
      <3>2. f = CertificateKey(cert[w]) /\ hash'[f] = cert[w]
            BY <2>1, <2>3, <3>1, Zenon DEF Stores
      <3>3. Safe(w)
            BY <3>1, <3>2, Zenon DEF Safe, HasLock, WorkerInv, Carries, CertificateKey
      <3>4. hash[f].serial <= cert[w].serial
            BY <3>1, <3>2, <3>3, Zenon DEF WorkerInv, Newest, IsCert
      <3> QED
            BY <2>1, <3>2, <3>4, Zenon
    <2> QED
          BY <2>2, <2>3, Zenon
  <1> QED
        BY RenewalInvariant, <1>1, PTL DEF Spec, NoRegression

(***************************************************************************)
(* As long as the lease is safe, nobody orders a certificate although a    *)
(* newer one than the one found due is stored (GetCertificate, obtain).    *)
(***************************************************************************)
THEOREM NothingNewerStored == Spec => NoStaleIssue
  <1> DEFINE NotStale ==
        \A w \in Workers :
          pc[w] = "obtaining" /\ pc'[w] = "saveRead" /\ ~endangered[Name(w)] =>
            LET c == Lookup(Supplier(w), Name(w)) IN
            c # NoCert => read[w] # NoCert /\ c.serial <= read[w]
  <1>1. RenewalInv => NotStale
    <2> SUFFICES ASSUME RenewalInv, NEW w \in Workers, pc[w] = "obtaining", ~endangered[Name(w)],
                        Lookup(Supplier(w), Name(w)) # NoCert
                 PROVE  read[w] # NoCert /\ Lookup(Supplier(w), Name(w)).serial <= read[w]
        BY Zenon
    <2>1. StoreInv /\ WorkerInv(w) /\ Supplier(w) \in Suppliers /\ Name(w) \in Names
          BY Zenon DEF RenewalInv, WorkerInv, Asked, Supplier, Name
    <2>2. \E f \in {Own(w), OldOne(w)} : IsCert(hash[f]) /\ Lookup(Supplier(w), Name(w)) = hash[f]
          BY <2>1, LookupFinds, Zenon DEF Own, OldOne
    <2>3. Safe(w)
          BY Zenon DEF Safe, HasLock
    <2> QED
          BY <2>1, <2>2, <2>3, Zenon DEF WorkerInv, Fresh
  <1> QED
        BY RenewalInvariant, <1>1, PTL DEF NoStaleIssue

(***************************************************************************)
(* A renewed certificate expires later than the one it replaces, if        *)
(* certificates live longer than the minimum validity (ShouldRenew).       *)
(***************************************************************************)
THEOREM RenewalProgress == Spec => RenewalGains
  <1> DEFINE Gains ==
        \A w \in Workers :
          pc[w] = "obtaining" /\ pc'[w] = "saveRead" /\ cert[w] # NoCert /\ MinValidity < Lifetime
            => cert'[w].notAfter > cert[w].notAfter
  <1>1. RenewalInv /\ [Next]_vars => Gains
    <2> SUFFICES ASSUME RenewalInv, [Next]_vars, NEW w \in Workers, pc[w] = "obtaining", pc'[w] = "saveRead",
                        cert[w] # NoCert, MinValidity < Lifetime
                 PROVE  cert'[w].notAfter > cert[w].notAfter
        BY Zenon
    <2>1. TypeOK /\ WorkerInv(w)
          BY Zenon DEF RenewalInv, StoreInv
    <2>2. Obtain(w)
      <3>1. ASSUME NEW v \in Workers, v # w,
                   (\E s \in Suppliers, n \in Names : GetCertificate(v, s, n))
                     \/ LockCertificate(v) \/ Step(v) \/ Crash(v)
            PROVE  pc'[w] = pc[w]
            BY <2>1, <3>1, Zenon DEF TypeOK, Step, GetCertificate, LockCertificate, GetStored, UpdateRenewalInfo, Decide,
                 Obtain, ObtainError, Staple, ReadStored, ReadStoredError, SaveCertificate, SaveCertificateError,
                 SaveError, UnlockCertificate, Crash, Forget, Fail, Goto
      <3>2. CASE Tick \/ (\E n \in Names : Endanger(n) \/ Lapse(n)) \/ UNCHANGED vars
            BY <3>2, Zenon DEF Tick, Endanger, Lapse, localVars, vars
      <3>3. CASE (\E s \in Suppliers, n \in Names : GetCertificate(w, s, n))
                   \/ LockCertificate(w) \/ Step(w) \/ Crash(w)
            BY <2>1, <3>3, Zenon DEF TypeOK, Step, GetCertificate, LockCertificate, GetStored, UpdateRenewalInfo, Decide,
                 ObtainError, Staple, ReadStored, ReadStoredError, SaveCertificate, SaveCertificateError,
                 UnlockCertificate, Crash, Forget, Fail, Goto
      <3> QED
            BY <3>1, <3>2, <3>3, Zenon DEF Next
    <2>3. Supplier(w) \in Suppliers /\ Name(w) \in Names /\ serial < MaxSerial
          BY <2>1, <2>2, Zenon DEF WorkerInv, Asked, Supplier, Name, Obtain
    <2> DEFINE new == NewCert(Supplier(w), Name(w))
    <2>4. new \in Certs /\ new.notAfter = now + Lifetime /\ SoundAri(new)
          BY <2>1, <2>3, NewCertIs, Zenon DEF TypeOK
    <2>5. PICK c \in {new} \cup WithRenewalInfo(Supplier(w), new) : cert' = [cert EXCEPT ![w] = c]
          BY <2>2, Zenon DEF Obtain
    <2> HIDE DEF new
    <2>6. c.notAfter = now + Lifetime
          BY <2>1, <2>4, <2>5, AriKeeps DEF TypeOK, SameButAri
    <2>7. cert'[w] = c
          BY <2>1, <2>5, Zenon DEF TypeOK
    <2>8. cert[w].notAfter < now + Lifetime
          BY <2>1, Zenon DEF WorkerInv, Carries
    <2>9. cert[w].notAfter \in Nat
          BY <2>1, CertFields, Numbers, Zenon DEF TypeOK
    <2>10. now + Lifetime \in Nat
          BY <2>1, Numbers DEF TypeOK
    <2> QED
          BY <2>6, <2>7, <2>8, <2>9, <2>10, Zenon
  <1> QED
        BY RenewalInvariant, <1>1, PTL DEF Spec, RenewalGains

(***************************************************************************)
(* What GetCertificate hands out under a safe lease is in the store, with  *)
(* the same staple, for as long as it may be served.                       *)
(***************************************************************************)
THEOREM HandedOutStored == Spec => []HandedOutIsStored
  <1>1. RenewalInv => HandedOutIsStored
    <2> SUFFICES ASSUME RenewalInv, NEW w \in Workers, pc[w] = "unlocking", ~failed[w], ~endangered[Name(w)],
                        ValidFor(cert[w], now, 0), RequiresStaple(cert[w]) => HasStapleFor(cert[w], now, 0)
                 PROVE  LET c == Existing(Supplier(w), Name(w)) IN
                        c # NoCert /\ c.serial = cert[w].serial /\ c.nextOcspUpdate = cert[w].nextOcspUpdate
        BY Zenon DEF HandedOutIsStored
    <2>1. StoreInv /\ WorkerInv(w) /\ Supplier(w) \in Suppliers /\ Name(w) \in Names /\ Safe(w)
          BY Zenon DEF RenewalInv, WorkerInv, Asked, Supplier, Name, Safe, HasLock
    <2>2. cert[w] # NoCert /\ cert[w].name = Name(w) /\ cert[w].provider \in {Supplier(w), Legacy}
          BY <2>1, Zenon DEF WorkerInv, Carries
    <2> DEFINE d == hash[CertificateKey(cert[w])]
    <2>3. IsCert(d) /\ SameButAri(d, cert[w])
          BY <2>1, <2>2, Zenon DEF WorkerInv, Kept
    <2>4. cert[w].provider = Legacy => ~IsCert(hash[Own(w)])
          BY <2>1, <2>2, Zenon DEF WorkerInv, Newest
    <2>5. Lookup(Supplier(w), Name(w)) = d
          BY <2>1, <2>2, <2>3, <2>4, LookupFinds, Zenon DEF Own, CertificateKey
    <2> HIDE DEF d
    <2>6. Existing(Supplier(w), Name(w)) = d
          BY <2>3, <2>5, Numbers, Zenon DEF Existing, SameButAri, ValidFor, RequiresStaple, HasStapleFor, IsCert
    <2> QED
          BY <2>3, <2>6, Numbers, Zenon DEF SameButAri, IsCert
  <1> QED
        BY RenewalInvariant, <1>1, PTL

-----------------------------------------------------------------------------
(***************************************************************************)
(* A lease belongs to a worker that is inside for that name.               *)
(***************************************************************************)
Leased == \A n \in Names : lease[n] # Nobody => lease[n] \in Inside(n)

(***************************************************************************)
(* How a step changes leases and critical sections: a worker enters or     *)
(* leaves, or the environment interferes.                                  *)
(***************************************************************************)
LEMMA Crossing ==
  ASSUME RenewalInv, [Next]_vars
  PROVE  \/ \E w \in Workers : /\ LockCertificate(w) /\ Name(w) \in Names
                               /\ \A n \in Names : Inside(n)' = IF n = Name(w) THEN Inside(n) \cup {w} ELSE Inside(n)
         \/ \E w \in Workers : /\ Forget(w) /\ UNCHANGED endangered
                               /\ \A n \in Names : Inside(n)' = Inside(n) \ {w}
         \/ (\E n \in Names : Endanger(n) \/ Lapse(n)) /\ \A n \in Names : Inside(n)' = Inside(n)
         \/ UNCHANGED lockVars /\ \A n \in Names : Inside(n)' = Inside(n)
  <1>0. TypeOK
        BY Zenon DEF RenewalInv, StoreInv
  <1>1. ASSUME NEW w \in Workers, LockCertificate(w)
        PROVE  /\ Name(w) \in Names
               /\ \A n \in Names : Inside(n)' = IF n = Name(w) THEN Inside(n) \cup {w} ELSE Inside(n)
    <2>1. Name(w) \in Names /\ pc[w] = "locking"
          BY <1>1, Zenon DEF RenewalInv, WorkerInv, Asked, LockCertificate, Name
    <2>2. pc' = [pc EXCEPT ![w] = "reading"] /\ request' = request
          BY <1>1, Zenon DEF LockCertificate, Goto
    <2> QED
          BY <1>0, <2>1, <2>2, Zenon DEF Inside, Name, TypeOK
  <1>2. ASSUME NEW w \in Workers, Forget(w) PROVE \A n \in Names : Inside(n)' = Inside(n) \ {w}
        BY <1>0, <1>2, Zenon DEF Forget, Goto, Inside, Name, TypeOK
  <1>3. ASSUME NEW n \in Names, Endanger(n) \/ Lapse(n) PROVE \A m \in Names : Inside(m)' = Inside(m)
        BY <1>3, Zenon DEF Endanger, Lapse, localVars, Inside, Name
  <1>4. CASE Tick \/ UNCHANGED vars
        BY <1>4, Zenon DEF Tick, vars, lockVars, localVars, Inside, Name
  <1>5. ASSUME NEW w \in Workers, Step(w), ~UnlockCertificate(w)
        PROVE  UNCHANGED lockVars /\ \A n \in Names : Inside(n)' = Inside(n)
    <2>1. UNCHANGED lockVars /\ request' = request
          BY <1>5, Zenon DEF Step, GetStored, UpdateRenewalInfo, Decide, Obtain, ObtainError, Staple, ReadStored,
                      ReadStoredError, SaveCertificate, SaveCertificateError
    <2>2. PICK to \in PcStates \ {"idle", "locking"} : pc' = [pc EXCEPT ![w] = to]
          BY <1>5, Zenon DEF Step, GetStored, UpdateRenewalInfo, Decide, Obtain, ObtainError, Staple, ReadStored,
                      ReadStoredError, SaveCertificate, SaveCertificateError, SaveError, Fail, Goto, PcStates
    <2>3. pc[w] \notin {"idle", "locking"}
          BY <1>5, Zenon DEF Step, GetStored, UpdateRenewalInfo, Decide, Obtain, ObtainError, Staple, ReadStored,
                      ReadStoredError, SaveCertificate, SaveCertificateError
    <2> QED
          BY <1>0, <2>1, <2>2, <2>3, Zenon DEF Inside, Name, TypeOK
  <1>6. ASSUME NEW w \in Workers, NEW s \in Suppliers, NEW n \in Names, GetCertificate(w, s, n)
        PROVE  UNCHANGED lockVars /\ \A m \in Names : Inside(m)' = Inside(m)
        BY <1>0, <1>6, Zenon DEF GetCertificate, Goto, Inside, Name, TypeOK
  <1> QED
        BY <1>1, <1>2, <1>3, <1>4, <1>5, <1>6, Zenon DEF Next, UnlockCertificate, Crash, Step

(***************************************************************************)
(* Leased is an invariant.                                                 *)
(***************************************************************************)
LEMMA LeasedInvariant == Spec => []Leased
  <1>1. Init => Leased
        BY DEF Init, Leased
  <1>2. Leased /\ RenewalInv /\ [Next]_vars => Leased'
    <2> SUFFICES ASSUME Leased, RenewalInv, [Next]_vars PROVE Leased'
        BY Zenon
    <2>0. TypeOK
          BY Zenon DEF RenewalInv, StoreInv
    <2>1. ASSUME NEW w \in Workers, LockCertificate(w), Name(w) \in Names,
                 \A n \in Names : Inside(n)' = IF n = Name(w) THEN Inside(n) \cup {w} ELSE Inside(n)
          PROVE  Leased'
          BY <2>0, <2>1, Zenon DEF LockCertificate, Leased, TypeOK
    <2>2. ASSUME NEW w \in Workers, Forget(w), \A n \in Names : Inside(n)' = Inside(n) \ {w}
          PROVE  Leased'
          BY <2>0, <2>2, Zenon DEF Forget, Leased, TypeOK
    <2>3. CASE (\E n \in Names : Endanger(n) \/ Lapse(n)) /\ \A n \in Names : Inside(n)' = Inside(n)
          BY <2>0, <2>3, Zenon DEF Endanger, Lapse, Leased, TypeOK
    <2>4. CASE UNCHANGED lockVars /\ \A n \in Names : Inside(n)' = Inside(n)
          BY <2>4, Zenon DEF lockVars, Leased
    <2> QED
          BY <2>1, <2>2, <2>3, <2>4, Crossing, Zenon
  <1> QED
        BY <1>1, <1>2, RenewalInvariant, PTL DEF Spec

(***************************************************************************)
(* Per name the workers enter and leave as LeaseLock describes it          *)
(* (LockCertificate, UnlockCertificate and the death of an instance).      *)
(***************************************************************************)
THEOREM LeasesUsed == Spec => UsesLeases
  <1>1. Init => \A n \in Names : NameLock(n)!LeaseInit
        BY DEF Init, NameLock!LeaseInit, Inside
  <1>2. Leased /\ RenewalInv /\ [Next]_vars =>
          \A n \in Names : [NameLock(n)!LeaseNext]_(NameLock(n)!leaseVars)
    <2> SUFFICES ASSUME Leased, RenewalInv, [Next]_vars, NEW n \in Names
                 PROVE  [NameLock(n)!LeaseNext]_(NameLock(n)!leaseVars)
        BY Zenon
    <2>0. TypeOK
          BY Zenon DEF RenewalInv, StoreInv
    <2> DEFINE Unchanged == lease'[n] = lease[n] /\ Inside(n)' = Inside(n) /\ endangered'[n] = endangered[n]
    <2>1. Unchanged => UNCHANGED NameLock(n)!leaseVars
          BY Zenon DEF NameLock!leaseVars
    <2>2. ASSUME NEW w \in Workers, LockCertificate(w), Name(w) \in Names,
                 \A m \in Names : Inside(m)' = IF m = Name(w) THEN Inside(m) \cup {w} ELSE Inside(m)
          PROVE  NameLock(n)!LeaseNext \/ Unchanged
      <3>1. CASE n = Name(w)
        <4>1. w \notin Inside(n)
              BY <2>2, Zenon DEF LockCertificate, Inside
        <4>2. lease[n] = Nobody /\ lease'[n] = w /\ endangered'[n] = endangered[n]
              BY <2>0, <2>2, <3>1, Zenon DEF LockCertificate, TypeOK
        <4>3. NameLock(n)!Enter(w)
              BY <2>2, <3>1, <4>1, <4>2, Zenon DEF NameLock!Enter
        <4> QED
              BY <4>3, Zenon DEF NameLock!LeaseNext
      <3>2. CASE n # Name(w)
            BY <2>0, <2>2, <3>2, Zenon DEF LockCertificate, TypeOK
      <3> QED
            BY <3>1, <3>2, Zenon
    <2>3. ASSUME NEW w \in Workers, Forget(w), UNCHANGED endangered,
                 \A m \in Names : Inside(m)' = Inside(m) \ {w}
          PROVE  NameLock(n)!LeaseNext \/ Unchanged
      <3>1. CASE w \in Inside(n)
        <4>1. lease'[n] = IF lease[n] \in {w} THEN Nobody ELSE lease[n]
              BY <2>0, <2>3, Zenon DEF Forget, TypeOK
        <4>2. {w} \subseteq Inside(n) /\ Inside(n)' = Inside(n) \ {w} /\ endangered'[n] = endangered[n]
              BY <2>3, <3>1, Zenon
        <4>3. NameLock(n)!Leave({w})
              BY <4>1, <4>2, Zenon DEF NameLock!Leave
        <4>4. {w} \in SUBSET Workers
              BY Zenon
        <4> QED
              BY <4>3, <4>4, Zenon DEF NameLock!LeaseNext
      <3>2. CASE w \notin Inside(n)
        <4>1. lease[n] # w
              BY <3>2, RenewalAssumption, Zenon DEF Leased
        <4>2. lease'[n] = lease[n]
              BY <2>0, <2>3, <4>1, Zenon DEF Forget, TypeOK
        <4> QED
              BY <2>3, <3>2, <4>2, Zenon
      <3> QED
            BY <3>1, <3>2, Zenon
    <2>4. ASSUME NEW m \in Names, Endanger(m) \/ Lapse(m), Inside(n)' = Inside(n)
          PROVE  NameLock(n)!LeaseNext \/ Unchanged
      <3>1. CASE m # n
            BY <2>0, <2>4, <3>1, Zenon DEF Endanger, Lapse, TypeOK
      <3>2. CASE m = n /\ Endanger(m)
        <4>1. endangered'[n] = TRUE /\ lease'[n] = lease[n]
              BY <2>0, <3>2, Zenon DEF Endanger, TypeOK
        <4> QED
              BY <2>4, <4>1, Zenon DEF NameLock!LeaseNext, NameLock!Endanger
      <3>3. CASE m = n /\ Lapse(m)
        <4>1. endangered[n] /\ lease'[n] = Nobody /\ endangered'[n] = endangered[n]
              BY <2>0, <3>3, Zenon DEF Lapse, TypeOK
        <4> QED
              BY <2>4, <4>1, Zenon DEF NameLock!LeaseNext, NameLock!Lapse
      <3> QED
            BY <2>4, <3>1, <3>2, <3>3, Zenon
    <2>5. ASSUME UNCHANGED lockVars, Inside(n)' = Inside(n) PROVE Unchanged
          BY <2>5, Zenon DEF lockVars
    <2>6. NameLock(n)!LeaseNext \/ Unchanged
          BY <2>2, <2>3, <2>4, <2>5, Crossing, Zenon
    <2> QED
          BY <2>1, <2>6, Zenon
  <1> QED
        BY <1>1, <1>2, LeasedInvariant, RenewalInvariant, PTL DEF Spec, UsesLeases
=============================================================================
