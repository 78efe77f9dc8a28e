------------------------------- MODULE Details -------------------------------
(***************************************************************************)
(* certificate/details.go: a stored certificate and the questions asked of *)
(* it.  Times are natural numbers, 0 is the zero time.Time.                *)
(*                                                                         *)
(* The names of a certificate (subject and alternative names, the latter   *)
(* in any order) are one value: IsFor compares them as a whole.  Key       *)
(* material is a serial number.                                            *)
(***************************************************************************)
EXTENDS Naturals

Cert(serials, times, providers, names) ==
  [serial : serials, provider : providers, name : names, notAfter : times,
   mustStaple : BOOLEAN, nextOcspUpdate : times, ariNextUpdate : times,
   ariRenewalTime : times]

\* NotAfter.After(time.Now().Add(period))
ValidFor(cert, now, period) == cert.notAfter > now + period

HasStapleFor(cert, now, period) == cert.nextOcspUpdate > now + period

\* Mutant: a renewal time that lies ahead is taken for one that has passed.
RenewAhead(cert, now, minimumValidity) ==
  IF cert.ariRenewalTime = 0
  THEN ~ValidFor(cert, now, minimumValidity)
  ELSE now < cert.ariRenewalTime

ShouldRenew(cert, now, minimumValidity) ==
  IF cert.ariRenewalTime = 0
  THEN ~ValidFor(cert, now, minimumValidity)
  ELSE now > cert.ariRenewalTime

RequiresStaple(cert) == cert.mustStaple

IsFor(cert, name) == cert.name = name
=============================================================================
