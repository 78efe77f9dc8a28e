-------------------------- MODULE RequestPathProofs --------------------------
(***************************************************************************)
(* Proofs about RouteTable and RequestPath, for any configurations, names, *)
(* clients and number of loads.                                            *)
(***************************************************************************)
EXTENDS RequestPath, WellFoundedInduction, TLAPS

(***************************************************************************)
(* The fallback lags behind the map of domains by at most one load.        *)
(***************************************************************************)
TableInv ==
  /\ config \in Seq(Configs)
  /\ domains \in 0..Len(config)
  /\ installed \in 0..domains
  /\ fallback = installed
  /\ domains # 0 => config[domains].valid
  /\ installed # 0 => config[installed].valid

(***************************************************************************)
(* TableInv holds initially.                                               *)
(***************************************************************************)
LEMMA TableInitially == TableInit => TableInv
  BY DEF TableInit, TableInv

(***************************************************************************)
(* Every change of the table preserves TableInv, and the fallback in place *)
(* is never replaced by an older one.                                      *)
(***************************************************************************)
LEMMA TableInductive ==
  TableInv /\ [TableNext]_tableVars => TableInv' /\ fallback' >= fallback
  <1> SUFFICES ASSUME TableInv, [TableNext]_tableVars PROVE TableInv' /\ fallback' >= fallback
      BY Zenon
  <1> USE DEF TableInv
  <1>1. ASSUME NEW c \in Configs, Refuse(c) PROVE TableInv' /\ fallback' >= fallback
        BY <1>1 DEF Refuse
  <1>2. ASSUME NEW c \in Configs, PublishDomains(c) PROVE TableInv' /\ fallback' >= fallback
        BY <1>2 DEF PublishDomains, Publishing
  <1>3. CASE PublishFallback
        BY <1>3 DEF PublishFallback, Publishing
  <1>4. CASE Check
        BY <1>4 DEF Check
  <1>5. CASE UNCHANGED tableVars
        BY <1>5 DEF tableVars
  <1> QED
      BY <1>1, <1>2, <1>3, <1>4, <1>5, Zenon DEF TableNext

(***************************************************************************)
(* A lookup remembers a configuration that is not newer than the fallback  *)
(* it will read.                                                           *)
(***************************************************************************)
Fields ==
  {"pc", "host", "tls", "client", "missed", "since", "route", "out", "upstream", "mapping",
   "told", "got", "resp", "counted", "location", "steady"}

LookupInv ==
  /\ DOMAIN req = Fields
  /\ req.missed \in BOOLEAN
  /\ req.missed => req.pc \in Looking /\ req.since \in 0..fallback

(***************************************************************************)
(* From the count to the answer the status stays that of the response      *)
(* before error pages, and at most one label with it is counted.           *)
(***************************************************************************)
Tracked == {"page", "fetch", "headers", "answered"}

CountInv ==
  /\ req.pc \in Tracked \cup {"count"} =>
       /\ req.resp.status = req.got.status
       /\ {"status", "body", "headers", "hop"} \subseteq DOMAIN req.resp
  /\ req.pc \notin Tracked => req.counted = <<>>
  /\ req.pc \in Tracked =>
       /\ Len(req.counted) <= 1
       /\ \A i \in DOMAIN req.counted : req.counted[i][2] = req.got.status

RequestInv == TableInv /\ LookupInv /\ CountInv

(***************************************************************************)
(* A new request satisfies the two invariants about requests.              *)
(***************************************************************************)
LEMMA NewRequestInv ==
  ASSUME NEW pc \in {"idle", "plain", "hello", "redirector"}, NEW host, NEW tls, NEW client,
         req' = NewRequest(pc, host, tls, client) \/ req' = NoRequest
  PROVE  LookupInv' /\ CountInv'
  <1>1. CASE req' = NewRequest(pc, host, tls, client)
        BY <1>1, Zenon DEF NewRequest, LookupInv, CountInv, Fields, Tracked
  <1>2. CASE req' = NoRequest
        BY <1>2, Zenon DEF NoRequest, NewRequest, LookupInv, CountInv, Fields, Tracked
  <1> QED
        BY <1>1, <1>2, Zenon

(***************************************************************************)
(* RequestInv holds initially.                                             *)
(***************************************************************************)
LEMMA RequestInitially == Init => RequestInv
  BY TableInitially, SMT DEF Init, RequestInv, NoRequest, NewRequest, LookupInv, CountInv, Fields, Tracked

(***************************************************************************)
(* Every step of a request preserves the invariants about requests.        *)
(***************************************************************************)
LEMMA StepInductive ==
  RequestInv /\ RequestStep => LookupInv' /\ CountInv'
  <1> SUFFICES ASSUME RequestInv, RequestStep PROVE LookupInv' /\ CountInv'
      BY Zenon
  <1> USE DEF RequestInv, TableInv, tableVars, Looking, Fields
  <1>1. CASE Miss
    <2>1. LookupInv'
          BY <1>1 DEF LookupInv, Miss, At
    <2>2. CountInv'
          BY <1>1, Zenon DEF LookupInv, CountInv, Tracked, Miss, At
    <2> QED
          BY <2>1, <2>2, Zenon
  <1>2. CASE Hello
    <2>1. LookupInv'
          BY <1>2, Zenon DEF LookupInv, Hello, At, Looked
    <2>2. CountInv'
          BY <1>2, Zenon DEF LookupInv, CountInv, Tracked, Hello, At, Looked
    <2> QED
          BY <2>1, <2>2, Zenon
  <1>3. CASE HttpRedirect
    <2>1. LookupInv'
          BY <1>3, Zenon DEF LookupInv, HttpRedirect, RedirectTo
    <2>2. CountInv'
          BY <1>3, Zenon DEF LookupInv, CountInv, Tracked, HttpRedirect, RedirectTo
    <2> QED
          BY <2>1, <2>2, Zenon
  <1>4. CASE DomainRedirect
    <2>1. LookupInv'
          BY <1>4, Zenon DEF LookupInv, DomainRedirect, At, Looked, RedirectTo
    <2>2. CountInv'
          BY <1>4, Zenon DEF LookupInv, CountInv, Tracked, DomainRedirect, At, Looked, RedirectTo
    <2> QED
          BY <2>1, <2>2, Zenon
  <1>5. CASE RewriteRequest
    <2>1. BadGateway.status = 502 /\ DOMAIN BadGateway = {"status", "body", "headers", "hop"}
          BY Zenon DEF BadGateway, Response
    <2>2. req.pc = "rewrite" /\ UNCHANGED <<tableVars, frontend>>
          BY <1>5, Zenon DEF RewriteRequest, At
    <2>3. CASE req' = [Looked EXCEPT !.pc = "count", !.got = BadGateway, !.resp = BadGateway]
      <3>1. LookupInv'
            BY <2>2, <2>3, Zenon DEF LookupInv, Looked
      <3>2. req'.resp = BadGateway /\ req'.got = BadGateway /\ req'.pc = "count" /\ req'.counted = req.counted
            BY <2>3, Zenon DEF LookupInv, Looked
      <3> QED
            BY <2>1, <2>2, <3>1, <3>2 DEF CountInv, Tracked
    <2>4. ASSUME NEW u,
                 req' = [Looked EXCEPT !.pc = "upstream", !.out = <<Decorate(Incoming)>>, !.upstream = u]
          PROVE  LookupInv' /\ CountInv'
          BY <2>2, <2>4, Zenon DEF LookupInv, CountInv, Tracked, Looked
    <2> QED
          BY <1>5, <2>3, <2>4, Zenon DEF RewriteRequest
  <1>6. CASE RoundTrip
    <2>1. LookupInv'
          BY <1>6 DEF LookupInv, RoundTrip, BadGateway, Response
    <2>2. CountInv'
          BY <1>6 DEF LookupInv, CountInv, Tracked, RoundTrip, BadGateway, Response
    <2> QED
          BY <2>1, <2>2, Zenon
  <1>7. CASE Track
    <2>1. LookupInv'
          BY <1>7, Zenon DEF LookupInv, Track, At, Looked
    <2>2. CountInv'
          BY <1>7 DEF LookupInv, CountInv, Tracked, Track, At, Looked
    <2> QED
          BY <2>1, <2>2, Zenon
  <1>8. CASE FetchErrorPage
    <2>1. LookupInv'
          BY <1>8, Zenon DEF LookupInv, FetchErrorPage, At, Looked
    <2>2. CountInv'
          BY <1>8, Zenon DEF LookupInv, CountInv, Tracked, FetchErrorPage, At, Looked
    <2> QED
          BY <2>1, <2>2, Zenon
  <1>9. CASE ErrorRoundTrip
    <2> DEFINE page == Replace(req.resp, ErrorPage)
    <2>1. page.status = req.resp.status /\ {"status", "body", "headers", "hop"} \subseteq DOMAIN page
          BY Zenon DEF Replace, ErrorPage, Response
    <2>2. PICK resp \in {req.resp, page} :
            req' = [req EXCEPT !.pc = "headers", !.resp = resp,
                               !.told = <<IF req.out = <<>> THEN None ELSE req.out[1].host>>]
          BY <1>9, Zenon DEF ErrorRoundTrip
    <2>3. req.pc = "fetch" /\ UNCHANGED <<tableVars, frontend>>
          BY <1>9, Zenon DEF ErrorRoundTrip
    <2> HIDE DEF page
    <2> QED
          BY <2>1, <2>2, <2>3, Zenon DEF LookupInv, CountInv, Tracked
  <1>10. CASE Answer
    <2>1. LookupInv'
          BY <1>10, Zenon DEF LookupInv, Answer, At, Looked
    <2>2. CountInv'
          BY <1>10, Zenon DEF LookupInv, CountInv, Tracked, Answer, At, Looked
    <2> QED
          BY <2>1, <2>2, Zenon
  <1>11. CASE Follow
        BY <1>11, NewRequestInv, Zenon DEF Follow, Entry
  <1> QED
      BY <1>1, <1>2, <1>3, <1>4, <1>5, <1>6, <1>7, <1>8, <1>9, <1>10, <1>11, Zenon DEF RequestStep

(***************************************************************************)
(* RequestInv is preserved by every step.                                  *)
(***************************************************************************)
LEMMA RequestInductive == RequestInv /\ [Next]_vars => RequestInv'
  <1> SUFFICES ASSUME RequestInv, [Next]_vars PROVE RequestInv'
      BY Zenon
  <1>1. CASE RequestStep
    <2>1. UNCHANGED tableVars
          BY <1>1, Zenon DEF RequestStep, Miss, Hello, HttpRedirect, DomainRedirect, RewriteRequest,
                      RoundTrip, Track, FetchErrorPage, ErrorRoundTrip, Answer, Follow
    <2> QED
          BY <1>1, <2>1, StepInductive, TableInductive, Zenon DEF RequestInv
  <1>2. ASSUME NEW host \in Asked, NEW tls \in BOOLEAN, NEW client \in Clients,
               Arrive(host, tls, client)
        PROVE  RequestInv'
        BY <1>2, NewRequestInv, TableInductive, Zenon DEF Arrive, Entry, RequestInv
  <1>3. CASE Leave
        BY <1>3, NewRequestInv, TableInductive, Zenon DEF Leave, RequestInv
  <1>4. CASE TableStep
    <2>1. TableInv' /\ fallback' >= fallback
          BY <1>4, TableInductive, Zenon DEF TableStep, RequestInv
    <2>2. req' = [req EXCEPT !.steady = req.pc = "idle"]
          BY <1>4, Zenon DEF TableStep
    <2>3. LookupInv'
          BY <2>1, <2>2 DEF RequestInv, LookupInv, TableInv, Fields
    <2>4. CountInv'
          BY <2>2, Zenon DEF RequestInv, LookupInv, CountInv, Fields, Tracked
    <2> QED
          BY <2>1, <2>3, <2>4, Zenon DEF RequestInv
  <1>5. CASE UNCHANGED vars
        BY <1>5, Zenon DEF vars, tableVars, RequestInv, TableInv, LookupInv, CountInv
  <1> QED
      BY <1>1, <1>2, <1>3, <1>4, <1>5, Zenon DEF Next

(***************************************************************************)
(* RequestInv is an invariant.                                             *)
(***************************************************************************)
THEOREM RequestInvariant == Spec => []RequestInv
  BY RequestInitially, RequestInductive, PTL DEF Spec

(***************************************************************************)
(* The client gets the status that was counted and that the upstream or    *)
(* the proxy came up with, also with an error page (TrackResponse,         *)
(* RewriteResponse, RewriteError).                                         *)
(***************************************************************************)
THEOREM StatusCounted == Spec => []CountedAsSent
  <1>1. RequestInv => CountedAsSent
        BY Zenon DEF RequestInv, CountInv, Tracked, CountedAsSent
  <1> QED
        BY RequestInvariant, <1>1, PTL

(***************************************************************************)
(* A lookup that falls back gets the fallback of a configuration that was  *)
(* accepted and in place during the lookup (routeFor, SetRoutes).          *)
(***************************************************************************)
THEOREM LookupCurrent == Spec => LookupIsCurrent
  <1> DEFINE Current ==
        req.missed /\ ~req'.missed =>
          \E v \in req.since..domains :
            /\ v = 0 \/ config[v].valid
            /\ req'.route = FallbackOf(v)
  <1>1. RequestInv /\ [Next]_vars => Current \/ UNCHANGED vars
    <2> SUFFICES ASSUME RequestInv, Next, req.missed, ~req'.missed PROVE Current
        BY Zenon DEF vars
    <2>1. req.pc \in Looking
          BY Zenon DEF RequestInv, LookupInv
    <2>2. req'.route = FallbackOf(fallback)
      <3> USE <2>1 DEF RequestInv, LookupInv, Looking, Fields
      <3>1. RouteFor = FallbackOf(fallback)
            BY Zenon DEF RouteFor
      <3>2. Looked.route = FallbackOf(fallback) /\ DOMAIN Looked = Fields
            BY <3>1, Zenon DEF Looked
      <3>3. CASE RequestStep
            BY <3>2, <3>3, Zenon DEF RequestStep, Miss, Hello, HttpRedirect, DomainRedirect, RedirectTo, RewriteRequest,
                      RoundTrip, Track, FetchErrorPage, ErrorRoundTrip, Answer, Follow
      <3>4. CASE TableStep
            BY <3>4, Zenon DEF TableStep
      <3>5. ~Leave /\ \A host, tls, client : ~Arrive(host, tls, client)
            BY Zenon DEF Leave, Arrive, Ended
      <3> QED
            BY <3>3, <3>4, <3>5, Zenon DEF Next
    <2>3. fallback \in req.since..domains /\ (fallback = 0 \/ config[fallback].valid)
          BY DEF RequestInv, LookupInv, TableInv
    <2> QED
          BY <2>2, <2>3, Zenon
  <1> QED
        BY RequestInvariant, <1>1, PTL DEF Spec, LookupIsCurrent

-----------------------------------------------------------------------------
\* What the decorators make of the headers for an upstream.
Told(out) ==
  /\ out.host = req.host \/ (req.client.trusted /\ out.host = req.client.forwarded)
  /\ out.login = IF frontend # "tcp" /\ req.client.known THEN "whois" ELSE "none"
  /\ out.agent # "none"

(***************************************************************************)
(* An upstream is chosen for a request that is decorated, and an error     *)
(* upstream is told what the decorators have made of it.                   *)
(***************************************************************************)
InformInv ==
  /\ req.out # <<>> => Told(req.out[1])
  /\ req.upstream # None => req.out # <<>>
  /\ req.told # <<>> =>
       /\ req.pc \in {"headers", "answered"}
       /\ req.told = <<IF req.out = <<>> THEN None ELSE req.out[1].host>>

(***************************************************************************)
(* NewRewriter's decorators and tailscale's, one after the other.          *)
(***************************************************************************)
LEMMA Decorated == Told(Decorate(Incoming))
  <1>1. Incoming = [host |-> None, login |-> req.client.login, agent |-> req.client.agent]
        BY Zenon DEF Incoming
  <1> DEFINE h == IF req.client.trusted /\ req.client.forwarded # None
                  THEN req.client.forwarded ELSE req.host
             a == IF req.client.agent = "none" THEN "empty" ELSE req.client.agent
  <1>2. Forwarded(Incoming) = [host |-> h, login |-> req.client.login, agent |-> req.client.agent]
        BY <1>1 DEF Forwarded
  <1>3. Banned(Forwarded(Incoming)) = [host |-> h, login |-> "none", agent |-> req.client.agent]
        BY <1>2 DEF Banned
  <1>4. UserAgent(Banned(Forwarded(Incoming))) = [host |-> h, login |-> "none", agent |-> a]
        BY <1>3 DEF UserAgent
  <1>5. Decorate(Incoming) =
          [host |-> h, login |-> IF frontend # "tcp" /\ req.client.known THEN "whois" ELSE "none", agent |-> a]
        BY <1>4 DEF Decorate, Tailscale
  <1> QED
        BY <1>5 DEF Told

(***************************************************************************)
(* Steps that do not touch what upstreams are told preserve InformInv.     *)
(***************************************************************************)
LEMMA InformOn ==
  ASSUME InformInv, UNCHANGED <<frontend, req.host, req.client, req.out, req.upstream, req.told>>,
         req.pc \in {"headers", "answered"} => req'.pc \in {"headers", "answered"}
  PROVE  InformInv'
  BY Zenon DEF InformInv, Told

(***************************************************************************)
(* A new request has not been told to anyone.                              *)
(***************************************************************************)
LEMMA NewRequestUntold ==
  ASSUME NEW pc, NEW host, NEW tls, NEW client,
         req' = NewRequest(pc, host, tls, client) \/ req' = NoRequest
  PROVE  InformInv'
  <1>1. req'.out = <<>> /\ req'.told = <<>> /\ req'.upstream = None
    <2>1. CASE req' = NewRequest(pc, host, tls, client)
          BY <2>1, Zenon DEF NewRequest
    <2>2. CASE req' = NoRequest
          BY <2>2, Zenon DEF NoRequest, NewRequest
    <2> QED
          BY <2>1, <2>2, Zenon
  <1> QED
        BY <1>1, Zenon DEF InformInv

(***************************************************************************)
(* InformInv is inductive, given the fields of a request.                  *)
(***************************************************************************)
LEMMA InformInductive ==
  ASSUME LookupInv, InformInv, [Next]_vars
  PROVE  InformInv'
  <1> USE DEF LookupInv, Fields
  <1>1. CASE Miss
        BY <1>1, InformOn, Zenon DEF Miss
  <1>2. CASE Hello
        BY <1>2, InformOn, Zenon DEF Hello, At, Looked
  <1>3. CASE HttpRedirect
        BY <1>3, InformOn, Zenon DEF HttpRedirect, RedirectTo
  <1>4. CASE DomainRedirect
        BY <1>4, InformOn, Zenon DEF DomainRedirect, At, Looked, RedirectTo
  <1>5. CASE RewriteRequest
    <2>1. req.pc = "rewrite" /\ UNCHANGED frontend
          BY <1>5, Zenon DEF RewriteRequest, At
    <2>2. CASE req' = [Looked EXCEPT !.pc = "count", !.got = BadGateway, !.resp = BadGateway]
          BY <2>1, <2>2, InformOn, Zenon DEF Looked
    <2>3. ASSUME NEW u,
                 req' = [Looked EXCEPT !.pc = "upstream", !.out = <<Decorate(Incoming)>>, !.upstream = u]
          PROVE  InformInv'
      <3>1. /\ req'.out = <<Decorate(Incoming)>> /\ UNCHANGED <<req.host, req.client, req.told>>
            BY <2>3, Zenon DEF Looked
      <3>2. req.told = <<>>
            BY <2>1, Zenon DEF InformInv
      <3>3. req'.out # <<>> /\ req'.out[1] = Decorate(Incoming)
            BY <3>1
      <3>4. Told(Decorate(Incoming))
            BY Decorated, Zenon
      <3> QED
            BY <2>1, <3>1, <3>2, <3>3, <3>4, Zenon DEF InformInv, Told
    <2> QED
          BY <1>5, <2>2, <2>3, Zenon DEF RewriteRequest
  <1>6. CASE RoundTrip
        BY <1>6, InformOn, Zenon DEF RoundTrip
  <1>7. CASE Track
        BY <1>7, InformOn, Zenon DEF Track, At, Looked
  <1>8. CASE FetchErrorPage
        BY <1>8, InformOn, Zenon DEF FetchErrorPage, At, Looked
  <1>9. CASE ErrorRoundTrip
    <2>1. /\ UNCHANGED <<frontend, req.host, req.client, req.out, req.upstream>> /\ req'.pc = "headers"
          /\ req'.told = <<IF req.out = <<>> THEN None ELSE req.out[1].host>>
          BY <1>9, Zenon DEF ErrorRoundTrip
    <2> QED
          BY <2>1, Zenon DEF InformInv, Told
  <1>10. CASE Answer
        BY <1>10, InformOn, Zenon DEF Answer, At, Looked
  <1>11. CASE Follow \/ Leave
        BY <1>11, NewRequestUntold, Zenon DEF Follow, Leave
  <1>12. ASSUME NEW host \in Asked, NEW tls \in BOOLEAN, NEW client \in Clients, Arrive(host, tls, client)
         PROVE  InformInv'
        BY <1>12, NewRequestUntold, Zenon DEF Arrive
  <1>13. CASE TableStep
        BY <1>13, InformOn, Zenon DEF TableStep
  <1>14. CASE UNCHANGED vars
        BY <1>14, InformOn, Zenon DEF vars
  <1> QED
        BY <1>1, <1>2, <1>3, <1>4, <1>5, <1>6, <1>7, <1>8, <1>9, <1>10, <1>11, <1>12, <1>13, <1>14, Zenon
           DEF Next, RequestStep

(***************************************************************************)
(* Upstreams and error upstreams are told what Centauri found out about    *)
(* the client or a trusted downstream said (the decorators of NewRewriter, *)
(* tailscale's decorator, forwardedHeaders).                               *)
(***************************************************************************)
THEOREM UpstreamsTold == Spec => []UpstreamsInformed
  <1>1. Init => InformInv
    <2> SUFFICES ASSUME Init PROVE InformInv
        BY Zenon
    <2>1. req.out = <<>> /\ req.told = <<>> /\ req.upstream = None
          BY Zenon DEF Init, NoRequest, NewRequest
    <2> QED
          BY <2>1, Zenon DEF InformInv
  <1>2. RequestInv /\ InformInv /\ [Next]_vars => InformInv'
        BY InformInductive, Zenon DEF RequestInv
  <1>3. InformInv => UpstreamsInformed
        BY Zenon DEF InformInv, Told, UpstreamsInformed
  <1> QED
        BY <1>1, <1>2, <1>3, RequestInvariant, PTL DEF Spec

-----------------------------------------------------------------------------
\* The route for the requested host, and what it leaves of a request.
Target == Resolve(req.host.name)

\* The target does not redirect this host to its primary domain.
Passed == Target # NoRoute => ~MustRedirect(Conf(Target), req.host.name)

\* The upstream is one of the target, or there is none and the answer is 502.
Chosen ==
  IF Target = NoRoute THEN req.upstream = None /\ req.got = BadGateway
  ELSE \/ req.upstream \in ToSet(Conf(Target).upstreams)
       \/ Conf(Target).upstreams = <<>> /\ req.got = BadGateway

\* The body is the error page of the target for this answer.
Paged(body) == Target # NoRoute /\ PageFor(Conf(Target), body)

\* The request is counted for the first domain of its route, with the status
\* it got.
Labelled ==
  LET c == Resolve(CountKey) IN
  req.counted = IF c = NoRoute THEN <<>> ELSE <<<<Conf(c).domains[1], req.got.status>>>>

\* What the client gets: the answer or the error page, with the rules of the
\* route applied.
Sent ==
  IF Target = NoRoute THEN req.resp = BadGateway
  ELSE \/ /\ req.resp.body = req.got.body
          /\ req.resp.headers = RewriteHeaders(Conf(Target).headers, req.got.headers)
       \/ /\ Paged(req.resp.body)
          /\ req.resp.headers = RewriteHeaders(Conf(Target).headers, ErrorPage.headers)

\* A redirect leads to the first domain of the target.
Redirected ==
  Entry(req.tls) # "plain" =>
    /\ Target # NoRoute /\ Conf(Target).redirect
    /\ req.location = [name |-> Conf(Target).domains[1], tls |-> req.tls]

(***************************************************************************)
(* While the table does not change, each step adds what the one route for  *)
(* the host wants, and a lookup that missed would miss again.              *)
(***************************************************************************)
Begun     == {"hello", "redirector", "rewrite"}
\* The steps at which there is a response.
Responded == {"count", "page", "fetch", "headers", "answered"}

\* What holds while the routes of a request stay what they were when it came
\* in.
Steady ==
  /\ req.missed => Get(domains, Key) = NoRoute
  /\ req.pc \in {"rewrite", "upstream"} \cup Responded => Passed
  /\ req.pc = "upstream" => Target # NoRoute /\ req.upstream \in ToSet(Conf(Target).upstreams)
  /\ req.pc \in Responded => Chosen /\ ~req.resp.hop
  /\ req.pc \in {"count", "page", "fetch"} => req.resp = req.got
  /\ req.pc \in {"page", "fetch"} => req.got.status >= 400
  /\ req.pc = "fetch" => Paged(req.mapping)
  /\ req.pc = "headers" => \/ req.resp = req.got
                           \/ Paged(req.resp.body) /\ req.resp.headers = ErrorPage.headers
  /\ req.pc = "answered" => Sent
  /\ req.pc \in Tracked => Labelled
  /\ req.pc = "redirected" => Redirected

\* Steady, for the requests no configuration change has met.
SteadyInv ==
  /\ req.pc = "plain" => Entry(req.tls) = "plain"
  /\ req.pc \in Begun => req.upstream = None
  /\ req.steady => Steady

(***************************************************************************)
(* The least-number principle, for the first mapping of a status.          *)
(***************************************************************************)
LEMMA Least ==
  ASSUME NEW S \in SUBSET Nat, S # {}
  PROVE  \E m \in S : \A j \in S : m <= j
  <1> DEFINE R == OpToRel(<, Nat)
  <1>1. PICK m \in S : \A j \in S : ~(<<j, m>> \in R)
    <2>1. IsWellFoundedOn(R, Nat)
          BY NatLessThanWellFounded
    <2> HIDE DEF R
    <2> QED
          BY <2>1, WFMin
  <1>2. ASSUME NEW j \in S PROVE ~(j < m)
        BY <1>1, <1>2 DEF OpToRel
  <1> QED
        BY <1>2

(***************************************************************************)
(* ErrorMappingForStatus finds the first mapping for a status.             *)
(***************************************************************************)
LEMMA MappingIsFirst ==
  ASSUME NEW route, NEW status, ErrorMappingForStatus(route, status) # 0
  PROVE  LET m == ErrorMappingForStatus(route, status) IN
         /\ m \in 1..Len(route.errors) /\ route.errors[m].status = status
         /\ \A j \in 1..m - 1 : route.errors[j].status # status
  <1> DEFINE S == {i \in 1..Len(route.errors) : route.errors[i].status = status}
             m == ErrorMappingForStatus(route, status)
  <1>1. S # {} /\ m = Min(S)
        BY Zenon DEF ErrorMappingForStatus, SelectInSeq
  <1>2. S \in SUBSET Nat
        OBVIOUS
  <1> HIDE DEF m
  <1>3. m \in S /\ \A j \in S : m <= j
    <2> HIDE DEF S
    <2>1. \E x \in S : \A y \in S : x <= y
          BY <1>1, <1>2, Least, Zenon
    <2> QED
          BY <1>1, <2>1, Zenon DEF Min
  <1>4. ASSUME NEW j \in 1..m - 1 PROVE route.errors[j].status # status
    <2>1. m \in 1..Len(route.errors) /\ m \in Nat
          BY <1>2, <1>3
    <2>2. j \in 1..Len(route.errors) /\ ~(m <= j)
          BY <1>4, <2>1
    <2> QED
          BY <1>3, <2>2, Zenon
  <1>5. m \in 1..Len(route.errors) /\ route.errors[m].status = status
        BY <1>3, Zenon
  <1> QED
        BY <1>4, <1>5, Zenon DEF m

(***************************************************************************)
(* In a table that does not change a lookup of two steps finds the route   *)
(* for its name.                                                           *)
(***************************************************************************)
LEMMA LookupResolves ==
  ASSUME LookupInv, Steady, NEW pc, At(pc)
  PROVE  RouteForDomain(RouteFor) = Resolve(Key)
  <1>1. CASE req.missed
    <2>1. RouteFor = FallbackOf(fallback) /\ Get(domains, Key) = NoRoute
          BY <1>1, Zenon DEF RouteFor, Steady
    <2> QED
          BY <2>1, Zenon DEF Resolve
  <1>2. CASE ~req.missed
    <2>1. RouteFor = Get(domains, Key) /\ RouteFor # NoRoute
          BY <1>2, Zenon DEF RouteFor, At
    <2> QED
          BY <2>1, Zenon DEF Resolve
  <1> QED
        BY <1>1, <1>2, Zenon

(***************************************************************************)
(* The table that a step does not change resolves names as before.         *)
(***************************************************************************)
LEMMA SameTable ==
  ASSUME UNCHANGED tableVars
  PROVE  /\ \A n : Resolve(n)' = Resolve(n)
         /\ \A r : Conf(r)' = Conf(r)
         /\ \A n : Get(domains, n)' = Get(domains, n)
  <1>1. UNCHANGED <<config, domains, fallback, serving>>
        BY Zenon DEF tableVars
  <1>2. \A r : Conf(r)' = Conf(r)
        BY <1>1, Zenon DEF Conf
  <1>3. ASSUME NEW n, NEW v PROVE Get(v, n)' = Get(v, n)
        BY <1>1, Zenon DEF Get
  <1>4. ASSUME NEW v PROVE FallbackOf(v)' = FallbackOf(v)
        BY <1>1, Zenon DEF FallbackOf
  <1>5. ASSUME NEW r PROVE RouteForDomain(r)' = RouteForDomain(r)
        BY <1>1, Zenon DEF RouteForDomain
  <1>6. ASSUME NEW n PROVE Get(domains, n)' = Get(domains, n)
        BY <1>1, <1>3, Zenon
  <1>7. FallbackOf(fallback)' = FallbackOf(fallback)
        BY <1>1, <1>4, Zenon
  <1>8. ASSUME NEW n PROVE Resolve(n)' = Resolve(n)
    <2> DEFINE r == IF Get(domains, n) # NoRoute THEN Get(domains, n) ELSE FallbackOf(fallback)
    <2>1. r' = r
          BY <1>6, <1>7, Zenon
    <2>2. Resolve(n) = RouteForDomain(r) /\ Resolve(n)' = RouteForDomain(r)'
          BY Zenon DEF Resolve
    <2> HIDE DEF r
    <2>3. RouteForDomain(r)' = RouteForDomain(r)
          BY <1>1, <2>1, Zenon DEF RouteForDomain
    <2> QED
          BY <2>2, <2>3, Zenon
  <1> QED
        BY <1>2, <1>6, <1>8, Zenon

(***************************************************************************)
(* For a request for the same host in the same table nothing of what the   *)
(* route wants changes.                                                    *)
(***************************************************************************)
LEMMA SameTarget ==
  ASSUME UNCHANGED <<tableVars, req.host>>
  PROVE  /\ Target' = Target /\ Conf(Target)' = Conf(Target)
         /\ Passed => Passed'
         /\ UNCHANGED <<req.upstream, req.got>> /\ Chosen => Chosen'
         /\ UNCHANGED req.got => \A body : Paged(body) => Paged(body)'
         /\ UNCHANGED <<req.got, req.out, req.counted>> /\ Labelled => Labelled'
  <1>1. /\ \A n : Resolve(n)' = Resolve(n)
        /\ \A r : Conf(r)' = Conf(r)
        BY SameTable, Zenon
  <1>2. Target' = Target
        BY <1>1, Zenon DEF Target
  <1>3. Conf(Target)' = Conf(Target)
        BY <1>1, <1>2, Zenon
  <1>4. Passed => Passed'
        BY <1>2, <1>3, Zenon DEF Passed, MustRedirect
  <1>5. UNCHANGED <<req.upstream, req.got>> /\ Chosen => Chosen'
        BY <1>2, <1>3, Zenon DEF Chosen, BadGateway
  <1>6. ASSUME UNCHANGED req.got, NEW body, Paged(body) PROVE Paged(body)'
        BY <1>2, <1>3, <1>6, Zenon DEF Paged, PageFor
  <1>7. ASSUME UNCHANGED <<req.got, req.out, req.counted>>, Labelled PROVE Labelled'
    <2>1. CountKey' = CountKey
          BY <1>7, Zenon DEF CountKey
    <2>2. Resolve(CountKey)' = Resolve(CountKey)
          BY <1>1, <2>1, Zenon
    <2>3. Conf(Resolve(CountKey))' = Conf(Resolve(CountKey))
          BY <1>1, <2>2, Zenon
    <2> QED
          BY <1>7, <2>2, <2>3, Zenon DEF Labelled
  <1> QED
        BY <1>2, <1>3, <1>4, <1>5, <1>6, <1>7, Zenon

(***************************************************************************)
(* Requests that have not been looked up a second time, or have ended      *)
(* without an answer, have nothing to keep to yet.                         *)
(***************************************************************************)
LEMMA SteadyTrivially ==
  ASSUME ~req'.missed, req'.pc \in {"idle", "plain", "hello", "redirector", "refused", "closed"},
         req'.pc = "plain" => Entry(req.tls)' = "plain",
         req'.pc \in Begun => req'.upstream = None
  PROVE  SteadyInv'
  BY Zenon DEF SteadyInv, Steady, Tracked, Responded

(***************************************************************************)
(* A new request, also one that follows a redirect, begins like that.      *)
(***************************************************************************)
LEMMA NewRequestSteady ==
  ASSUME NEW host, NEW tls, NEW client, UNCHANGED frontend,
         req' = NewRequest(Entry(tls), host, tls, client) \/ req' = NoRequest
  PROVE  SteadyInv'
  <1>1. CASE req' = NewRequest(Entry(tls), host, tls, client)
    <2>1. ~req'.missed /\ req'.pc = Entry(tls) /\ req'.tls = tls /\ req'.upstream = None
          BY <1>1, Zenon DEF NewRequest
    <2>2. Entry(req.tls)' = Entry(tls)
          BY <2>1, Zenon DEF Entry
    <2>3. Entry(tls) \in {"plain", "hello", "redirector"}
          BY Zenon DEF Entry
    <2> QED
          BY <2>1, <2>2, <2>3, SteadyTrivially, Zenon
  <1>2. CASE req' = NoRequest
    <2>1. ~req'.missed /\ req'.pc = "idle" /\ req'.upstream = None
          BY <1>2, Zenon DEF NoRequest, NewRequest
    <2> QED
          BY <2>1, SteadyTrivially, Zenon
  <1> QED
        BY <1>1, <1>2, Zenon

(***************************************************************************)
(* What a request keeps to stays so while neither the table nor the        *)
(* request changes, except for a lookup that misses.                       *)
(***************************************************************************)
LEMMA SteadySame ==
  ASSUME UNCHANGED <<tableVars, frontend, req.pc, req.host, req.tls, req.out, req.upstream, req.mapping,
                     req.got, req.resp, req.counted, req.location>>,
         req'.missed => Get(domains, Key)' = NoRoute, Steady
  PROVE  Steady'
  <1>1. /\ Target' = Target /\ Conf(Target)' = Conf(Target)
        /\ Passed => Passed'
        /\ Chosen => Chosen'
        /\ Labelled => Labelled'
        /\ \A body : Paged(body) => Paged(body)'
        BY SameTarget, Zenon
  <1>2. (ErrorPage.headers)' = ErrorPage.headers /\ BadGateway' = BadGateway /\ Entry(req.tls)' = Entry(req.tls)
        BY Zenon DEF ErrorPage, BadGateway, Entry
  <1>3. /\ Paged(req.resp.body) => Paged(req.resp.body)'
        /\ Paged(req.mapping) => Paged(req.mapping)'
        BY <1>1, Zenon
  <1>4. Sent => Sent'
    <2>1. /\ RewriteHeaders(Conf(Target).headers, req.got.headers)' = RewriteHeaders(Conf(Target).headers, req.got.headers)
          /\ RewriteHeaders(Conf(Target).headers, ErrorPage.headers)' = RewriteHeaders(Conf(Target).headers, ErrorPage.headers)
          BY <1>1, <1>2, Zenon
    <2> QED
          BY <1>1, <1>2, <1>3, <2>1, Zenon DEF Sent
  <1>5. Redirected => Redirected'
        BY <1>1, <1>2, Zenon DEF Redirected
  <1>6. (req.pc = "upstream" => Target # NoRoute /\ req.upstream \in ToSet(Conf(Target).upstreams))'
        BY <1>1, Zenon DEF Steady
  <1>7. (req.pc = "headers" =>
           req.resp = req.got \/ (Paged(req.resp.body) /\ req.resp.headers = ErrorPage.headers))'
        BY <1>2, <1>3, Zenon DEF Steady
  <1>8. /\ (req.pc \in {"rewrite", "upstream"} \cup Responded => Passed)'
        /\ (req.pc \in Responded => Chosen /\ ~req.resp.hop)'
        /\ (req.pc \in Tracked => Labelled)'
        /\ (req.pc = "fetch" => Paged(req.mapping))'
    <2>1. Responded' = Responded /\ Tracked' = Tracked
          BY Zenon DEF Responded, Tracked
    <2>2. req'.pc = req.pc /\ req'.resp = req.resp /\ req'.mapping = req.mapping
          BY Zenon
    <2>3. (req.pc \in {"rewrite", "upstream"} \cup Responded => Passed)'
          BY <1>1, <2>1, <2>2, Zenon DEF Steady
    <2>4. (req.pc \in Responded => Chosen /\ ~req.resp.hop)'
          BY <1>1, <2>1, <2>2, Zenon DEF Steady
    <2>5. (req.pc \in Tracked => Labelled)'
          BY <1>1, <2>1, <2>2, Zenon DEF Steady
    <2>6. (req.pc = "fetch" => Paged(req.mapping))'
          BY <1>3, <2>2, Zenon DEF Steady
    <2> QED
          BY <2>3, <2>4, <2>5, <2>6, Zenon
  <1>9. /\ (req.pc \in {"count", "page", "fetch"} => req.resp = req.got)'
        /\ (req.pc \in {"page", "fetch"} => req.got.status >= 400)'
        /\ (req.pc = "answered" => Sent)'
        /\ (req.pc = "redirected" => Redirected)'
        BY <1>4, <1>5, Zenon DEF Steady
  <1> QED
        BY <1>6, <1>7, <1>8, <1>9, Zenon DEF Steady

(***************************************************************************)
(* The first steps: lookups that miss, the hello and the redirects.        *)
(***************************************************************************)
LEMMA SteadyBegins ==
  ASSUME LookupInv, SteadyInv, Miss \/ Hello \/ HttpRedirect \/ DomainRedirect
  PROVE  SteadyInv'
  <1> USE DEF LookupInv, Fields
  <1>0. UNCHANGED <<tableVars, frontend>>
        BY Zenon DEF Miss, Hello, HttpRedirect, DomainRedirect
  <1>1. CASE Miss
    <2>1. /\ UNCHANGED <<req.pc, req.host, req.tls, req.out, req.upstream, req.mapping, req.got, req.resp,
                         req.counted, req.location, req.steady>>
          /\ Get(domains, Key) = NoRoute
          BY <1>1, Zenon DEF Miss
    <2>2. Entry(req.tls)' = Entry(req.tls) /\ Key' = Key
          BY <1>0, <2>1, Zenon DEF Entry, Key, CountKey
    <2>3. Get(domains, Key)' = NoRoute
          BY <1>0, <2>1, <2>2, SameTable, Zenon
    <2>4. Steady => Steady'
          BY <1>0, <2>1, <2>3, SteadySame, Zenon
    <2> QED
          BY <2>1, <2>2, <2>4, Zenon DEF SteadyInv
  <1>2. CASE Hello
    <2>1. ~req'.missed /\ req'.pc \in {"redirector", "closed"} /\ req'.upstream = req.upstream /\ req.pc = "hello"
          BY <1>2, Zenon DEF Hello, At, Looked
    <2>2. req.upstream = None
          BY <2>1, Zenon DEF SteadyInv, Begun
    <2> QED
          BY <2>1, <2>2, SteadyTrivially, Zenon
  <1>3. CASE HttpRedirect
    <2>1. req.pc = "plain" /\ ~req.missed /\ Entry(req.tls) = "plain"
          BY <1>3, Zenon DEF HttpRedirect, SteadyInv, Looking
    <2>2. ~req'.missed /\ req'.tls = req.tls /\ req'.pc \in {"refused", "redirected"}
          BY <1>3, <2>1, Zenon DEF HttpRedirect, RedirectTo
    <2>3. Entry(req.tls)' = "plain"
          BY <1>0, <2>1, <2>2, Zenon DEF Entry
    <2> QED
          BY <2>2, <2>3, Zenon DEF SteadyInv, Steady, Begun, Tracked, Responded, Redirected
  <1>4. CASE DomainRedirect
    <2> DEFINE r == RouteForDomain(RouteFor)
               to == r # NoRoute /\ MustRedirect(Conf(r), req.host.name)
    <2>1. At("redirector") /\ req.pc = "redirector" /\ req.upstream = None
          BY <1>4, Zenon DEF DomainRedirect, At, SteadyInv, Begun
    <2>2. /\ ~req'.missed /\ UNCHANGED <<req.host, req.tls, req.upstream, req.steady>>
          /\ to => req'.pc = "redirected" /\ req'.location = [name |-> Conf(r).domains[1], tls |-> req.tls]
          /\ ~to => req'.pc = "rewrite"
          BY <1>4, Zenon DEF DomainRedirect, Looked, RedirectTo
    <2>3. ASSUME req.steady PROVE r = Target
      <3>1. r = Resolve(Key) /\ Key = req.host.name
            BY <2>1, <2>3, LookupResolves, Zenon DEF SteadyInv, Key
      <3> QED
            BY <3>1, Zenon DEF Target
    <2>4. Target' = Target /\ Conf(Target)' = Conf(Target) /\ (Passed => Passed')
          BY <1>0, <2>2, SameTarget, Zenon
    <2> HIDE DEF r
    <2>5. CASE to
          BY <2>2, <2>3, <2>4, <2>5, Zenon DEF SteadyInv, Steady, Begun, Tracked, Responded, Redirected, MustRedirect
    <2>6. CASE ~to
      <3>1. req.steady => Passed
            BY <2>3, <2>6, Zenon DEF Passed
      <3> QED
            BY <2>1, <2>2, <2>4, <2>6, <3>1, Zenon DEF SteadyInv, Steady, Tracked, Responded
    <2> QED
          BY <2>5, <2>6, Zenon
  <1> QED
        BY <1>1, <1>2, <1>3, <1>4, Zenon

(***************************************************************************)
(* The request goes to an upstream of the route, or to none.               *)
(***************************************************************************)
LEMMA SteadySends ==
  ASSUME LookupInv, SteadyInv, RewriteRequest \/ RoundTrip
  PROVE  SteadyInv'
  <1> USE DEF LookupInv, Fields
  <1>0. UNCHANGED <<tableVars, frontend>>
        BY Zenon DEF RewriteRequest, RoundTrip
  <1>1. ~BadGateway.hop
        BY Zenon DEF BadGateway, Response
  <1>2. CASE RewriteRequest
    <2> DEFINE r == RouteForDomain(RouteFor)
    <2>1. At("rewrite") /\ req.pc = "rewrite" /\ req.upstream = None
          BY <1>2, Zenon DEF RewriteRequest, At, SteadyInv, Begun
    <2>2. ASSUME req.steady PROVE r = Target /\ Passed
      <3>1. r = Resolve(Key) /\ Key = req.host.name
            BY <2>1, <2>2, LookupResolves, Zenon DEF SteadyInv, Key
      <3> QED
            BY <2>1, <2>2, <3>1, Zenon DEF Target, SteadyInv, Steady
    <2> HIDE DEF r
    <2>3. ASSUME r = NoRoute \/ Conf(r).upstreams = <<>>,
                 req' = [Looked EXCEPT !.pc = "count", !.got = BadGateway, !.resp = BadGateway]
          PROVE  SteadyInv'
      <3>1. /\ ~req'.missed /\ req'.pc = "count" /\ req'.got = BadGateway /\ req'.resp = BadGateway
            /\ UNCHANGED <<req.host, req.upstream, req.steady>>
            BY <2>3, Zenon DEF Looked
      <3>2. Target' = Target /\ Conf(Target)' = Conf(Target) /\ (Passed => Passed')
            BY <1>0, <3>1, SameTarget, Zenon
      <3>3. ASSUME req.steady PROVE Chosen'
        <4>1. BadGateway' = BadGateway
              BY Zenon DEF BadGateway
        <4> QED
              BY <2>1, <2>2, <2>3, <3>1, <3>2, <3>3, <4>1, Zenon DEF Chosen
      <3> QED
            BY <1>1, <2>2, <3>1, <3>2, <3>3, Zenon DEF SteadyInv, Steady, Begun, Tracked, Responded
    <2>4. ASSUME ~(r = NoRoute \/ Conf(r).upstreams = <<>>), NEW u \in ToSet(Conf(r).upstreams),
                 req' = [Looked EXCEPT !.pc = "upstream", !.out = <<Decorate(Incoming)>>, !.upstream = u]
          PROVE  SteadyInv'
      <3>1. /\ ~req'.missed /\ req'.pc = "upstream" /\ req'.upstream = u
            /\ UNCHANGED <<req.host, req.steady>>
            BY <2>4, Zenon DEF Looked
      <3>2. Target' = Target /\ Conf(Target)' = Conf(Target) /\ (Passed => Passed')
            BY <1>0, <3>1, SameTarget, Zenon
      <3>3. ASSUME req.steady
            PROVE  Target' # NoRoute /\ req'.upstream \in ToSet(Conf(Target).upstreams)'
            BY <2>2, <2>4, <3>1, <3>2, <3>3, Zenon
      <3> QED
            BY <2>2, <3>1, <3>2, <3>3, Zenon DEF SteadyInv, Steady, Begun, Tracked, Responded
    <2> QED
          BY <1>2, <2>3, <2>4, Zenon DEF RewriteRequest, r
  <1>3. CASE RoundTrip
    <2>1. PICK resp \in {Response(s, "upstream", <<<<"up">>>>) : s \in Statuses} \cup {BadGateway} :
            req' = [req EXCEPT !.pc = "count", !.got = resp, !.resp = resp]
          BY <1>3, Zenon DEF RoundTrip
    <2>2. ~resp.hop
      <3>1. ASSUME NEW s, resp = Response(s, "upstream", <<<<"up">>>>) PROVE ~resp.hop
            BY <3>1, Zenon DEF Response
      <3> QED
            BY <1>1, <3>1, Zenon
    <2>3. /\ req.pc = "upstream" /\ ~req.missed
          BY <1>3, Zenon DEF RoundTrip, Looking
    <2>4. /\ ~req'.missed /\ req'.pc = "count" /\ req'.got = resp /\ req'.resp = resp
          /\ UNCHANGED <<req.host, req.upstream, req.steady>>
          BY <2>1, <2>3, Zenon
    <2>5. Target' = Target /\ Conf(Target)' = Conf(Target) /\ (Passed => Passed')
          BY <1>0, <2>4, SameTarget, Zenon
    <2>6. ASSUME req.steady PROVE Chosen' /\ Passed'
          BY <2>3, <2>4, <2>5, <2>6, Zenon DEF SteadyInv, Steady, Chosen
    <2> QED
          BY <2>2, <2>4, <2>6, Zenon DEF SteadyInv, Steady, Begun, Tracked, Responded
  <1> QED
        BY <1>2, <1>3, Zenon

(***************************************************************************)
(* The count is for the route of the forwarded host.                       *)
(***************************************************************************)
LEMMA SteadyTracks ==
  ASSUME LookupInv, CountInv, SteadyInv, Track
  PROVE  SteadyInv'
  <1> USE DEF LookupInv, Fields
  <1> DEFINE r == RouteForDomain(RouteFor)
             label == <<Conf(r).domains[1], req.resp.status>>
  <1>1. At("count") /\ req.pc = "count" /\ req.counted = <<>> /\ UNCHANGED tableVars
        BY Zenon DEF Track, At, CountInv, Tracked
  <1>2. /\ ~req'.missed /\ UNCHANGED <<req.host, req.out, req.upstream, req.got, req.resp, req.steady>>
        /\ req'.pc = IF req.resp.status >= 400 THEN "page" ELSE "headers"
        /\ req'.counted = IF r = NoRoute THEN req.counted ELSE Append(req.counted, label)
        BY Zenon DEF Track, Looked
  <1>3. ASSUME req.steady PROVE r = Resolve(CountKey)
        BY <1>1, <1>3, LookupResolves, Zenon DEF SteadyInv, Key
  <1> HIDE DEF r
  <1>4. req'.counted = IF r = NoRoute THEN <<>> ELSE <<label>>
    <2>1. Append(<<>>, label) = <<label>>
      <3> HIDE DEF label
      <3> QED
          OBVIOUS
    <2> QED
          BY <1>1, <1>2, <2>1, Zenon
  <1>5. /\ Passed => Passed'
        /\ Chosen => Chosen'
        BY <1>1, <1>2, SameTarget, Zenon
  <1>6. ASSUME req.steady PROVE Labelled'
    <2>1. CountKey' = CountKey
          BY <1>2, Zenon DEF CountKey
    <2>2. Resolve(CountKey)' = r
          BY <1>1, <1>3, <1>6, <2>1, SameTable, Zenon
    <2>3. Conf(Resolve(CountKey))' = Conf(r)
          BY <1>1, <2>2, SameTable, Zenon
    <2>4. req.resp = req.got
          BY <1>1, <1>6, Zenon DEF SteadyInv, Steady
    <2> QED
          BY <1>2, <1>4, <2>2, <2>3, <2>4, Zenon DEF Labelled
  <1>7. ASSUME req.steady PROVE Passed' /\ Chosen' /\ ~req'.resp.hop /\ req'.resp = req'.got
        BY <1>1, <1>2, <1>5, <1>7, Zenon DEF SteadyInv, Steady, Responded
  <1>8. ASSUME req.steady, req'.pc = "page" PROVE req'.got.status >= 400
        BY <1>2, <1>7, <1>8, Zenon
  <1>9. req'.pc \in {"page", "headers"}
        BY <1>2, Zenon
  <1> QED
        BY <1>2, <1>6, <1>7, <1>8, <1>9, Zenon DEF SteadyInv, Steady, Begun

(***************************************************************************)
(* The error page is that of the first mapping of the route for the status. *)
(***************************************************************************)
LEMMA SteadyPages ==
  ASSUME LookupInv, CountInv, SteadyInv, FetchErrorPage \/ ErrorRoundTrip
  PROVE  SteadyInv'
  <1> USE DEF LookupInv, Fields
  <1>1. CASE FetchErrorPage
    <2> DEFINE r == RouteForDomain(RouteFor)
               m == IF r = NoRoute THEN 0 ELSE ErrorMappingForStatus(Conf(r), req.resp.status)
    <2>1. At("page") /\ req.pc = "page" /\ UNCHANGED tableVars
          BY <1>1, Zenon DEF FetchErrorPage, At
    <2>2. /\ ~req'.missed
          /\ UNCHANGED <<req.host, req.out, req.upstream, req.got, req.resp, req.counted, req.steady>>
          /\ IF m = 0 THEN req'.pc = "headers"
             ELSE req'.pc = "fetch" /\ req'.mapping = Conf(r).errors[m].upstream
          BY <1>1, Zenon DEF FetchErrorPage, Looked
    <2>3. ASSUME req.steady
          PROVE  /\ r = Target /\ Passed /\ Chosen /\ Labelled /\ ~req.resp.hop
                 /\ req.resp = req.got /\ req.got.status >= 400
      <3>1. r = Resolve(Key) /\ Key = req.host.name
            BY <2>1, <2>3, LookupResolves, Zenon DEF SteadyInv, Key
      <3> QED
            BY <2>1, <2>3, <3>1, Zenon DEF Target, SteadyInv, Steady, Responded, Tracked
    <2>4. ASSUME req.steady, m # 0 PROVE Paged(req'.mapping)
      <3>1. r # NoRoute /\ m = ErrorMappingForStatus(Conf(r), req.got.status)
            BY <2>3, <2>4, Zenon
      <3>2. /\ m \in 1..Len(Conf(r).errors) /\ Conf(r).errors[m].status = req.got.status
            /\ \A j \in 1..m - 1 : Conf(r).errors[j].status # req.got.status
        <4> HIDE DEF m, r
        <4> QED
              BY <2>4, <3>1, MappingIsFirst, Zenon
      <3> HIDE DEF m, r
      <3>3. req'.mapping = Conf(r).errors[m].upstream
            BY <2>2, <2>4, Zenon
      <3> QED
            BY <2>3, <2>4, <3>1, <3>2, <3>3, Zenon DEF Paged, PageFor
    <2> HIDE DEF m, r
    <2>5. /\ Passed => Passed'
          /\ Chosen => Chosen'
          /\ Labelled => Labelled'
          /\ \A body : Paged(body) => Paged(body)'
          BY <2>1, <2>2, SameTarget, Zenon
    <2>6. ASSUME req.steady, m # 0 PROVE Paged(req.mapping)'
      <3>1. PICK body : body = req'.mapping
            OBVIOUS
      <3>2. Paged(body)'
            BY <2>4, <2>5, <2>6, <3>1, Zenon
      <3> QED
            BY <3>1, <3>2, Zenon
    <2>7. req'.pc \in {"headers", "fetch"} /\ (req'.pc = "fetch" => m # 0)
          BY <2>2, Zenon
    <2>8. ASSUME req.steady
          PROVE  Passed' /\ Chosen' /\ Labelled' /\ ~req'.resp.hop /\ req'.resp = req'.got /\ req'.got.status >= 400
          BY <2>2, <2>3, <2>5, <2>8, Zenon
    <2> QED
          BY <2>2, <2>6, <2>7, <2>8, Zenon DEF SteadyInv, Steady, Begun
  <1>2. CASE ErrorRoundTrip
    <2> DEFINE page == Replace(req.resp, ErrorPage)
    <2>1. page.body = req.mapping /\ page.headers = Header(<<<<"page">>>>) /\ ~page.hop
          BY Zenon DEF Replace, ErrorPage, Response
    <2>2. PICK resp \in {req.resp, page} :
            req' = [req EXCEPT !.pc = "headers", !.resp = resp,
                               !.told = <<IF req.out = <<>> THEN None ELSE req.out[1].host>>]
          BY <1>2, Zenon DEF ErrorRoundTrip
    <2>3. req.pc = "fetch" /\ ~req.missed /\ UNCHANGED tableVars
          BY <1>2, Zenon DEF ErrorRoundTrip, Looking
    <2> HIDE DEF page
    <2>4. /\ ~req'.missed /\ req'.pc = "headers" /\ req'.resp = resp
          /\ UNCHANGED <<req.host, req.out, req.upstream, req.got, req.counted, req.steady>>
          BY <2>2, <2>3, Zenon
    <2>5. ASSUME req.steady
          PROVE  /\ Passed /\ Chosen /\ Labelled /\ ~req.resp.hop /\ req.resp = req.got /\ Paged(req.mapping)
          BY <2>3, <2>5, Zenon DEF SteadyInv, Steady, Responded, Tracked
    <2>6. /\ Passed => Passed'
          /\ Chosen => Chosen'
          /\ Labelled => Labelled'
          /\ \A body : Paged(body) => Paged(body)'
          BY <2>3, <2>4, SameTarget, Zenon
    <2>7. (ErrorPage.headers)' = Header(<<<<"page">>>>)
          BY Zenon DEF ErrorPage, Response, Header
    <2>8. ASSUME req.steady, resp = page PROVE Paged(req.resp.body)' /\ (req.resp.headers = ErrorPage.headers)'
      <3>1. Paged(page.body)
            BY <2>1, <2>5, <2>8, Zenon
      <3>2. req'.resp.body = page.body
            BY <2>4, <2>8, Zenon
      <3>3. Paged(req.resp.body)'
        <4>1. PICK body : body = page.body
              OBVIOUS
        <4>2. Paged(body)'
              BY <2>6, <3>1, <4>1, Zenon
        <4> QED
              BY <3>2, <4>1, <4>2, Zenon
      <3> QED
            BY <2>1, <2>4, <2>7, <2>8, <3>3, Zenon
    <2>9. ASSUME req.steady PROVE ~req'.resp.hop
          BY <2>1, <2>4, <2>5, <2>9, Zenon
    <2> QED
          BY <2>4, <2>5, <2>6, <2>8, <2>9, Zenon DEF SteadyInv, Steady, Begun
  <1> QED
        BY <1>1, <1>2, Zenon

(***************************************************************************)
(* rewriteHeaders applies the rules of the route to what is sent.          *)
(***************************************************************************)
LEMMA SteadyAnswers ==
  ASSUME LookupInv, CountInv, SteadyInv, Answer
  PROVE  SteadyInv'
  <1> USE DEF LookupInv, Fields
  <1> DEFINE r == RouteForDomain(RouteFor)
             h == IF r = NoRoute THEN req.resp.headers ELSE RewriteHeaders(Conf(r).headers, req.resp.headers)
  <1>1. At("headers") /\ req.pc = "headers" /\ UNCHANGED tableVars
        BY Zenon DEF Answer, At
  <1>2. {"status", "body", "headers", "hop"} \subseteq DOMAIN req.resp
        BY <1>1, Zenon DEF CountInv, Tracked
  <1>3. /\ ~req'.missed /\ req'.pc = "answered"
        /\ UNCHANGED <<req.host, req.out, req.upstream, req.got, req.counted, req.steady>>
        /\ req'.resp = [req.resp EXCEPT !.headers = h]
        BY Zenon DEF Answer, Looked
  <1>4. ASSUME req.steady
        PROVE  /\ r = Target /\ Passed /\ Chosen /\ Labelled /\ ~req.resp.hop
               /\ req.resp = req.got \/ (Paged(req.resp.body) /\ req.resp.headers = ErrorPage.headers)
    <2>1. r = Resolve(Key) /\ Key = req.host.name
          BY <1>1, <1>4, LookupResolves, Zenon DEF SteadyInv, Key
    <2> QED
          BY <1>1, <1>4, <2>1, Zenon DEF Target, SteadyInv, Steady, Responded, Tracked
  <1> HIDE DEF r
  <1>5. req'.resp.body = req.resp.body /\ req'.resp.hop = req.resp.hop /\ req'.resp.headers = h
    <2> HIDE DEF h
    <2> QED
        BY <1>2, <1>3, Zenon
  <1>6. /\ Target' = Target /\ Conf(Target)' = Conf(Target)
        /\ Passed => Passed'
        /\ Chosen => Chosen'
        /\ Labelled => Labelled'
        /\ \A body : Paged(body) => Paged(body)'
        BY <1>1, <1>3, SameTarget, Zenon
  <1>7. ASSUME req.steady PROVE Sent'
    <2>1. CASE Target = NoRoute
      <3>1. req.got = BadGateway
            BY <1>4, <1>7, <2>1, Zenon DEF Chosen
      <3>2. req.resp = BadGateway
            BY <1>4, <1>7, <2>1, <3>1, Zenon DEF Paged
      <3>3. req'.resp = [BadGateway EXCEPT !.headers = BadGateway.headers]
            BY <1>3, <1>4, <1>7, <2>1, <3>2, Zenon
      <3>4. [BadGateway EXCEPT !.headers = BadGateway.headers] = BadGateway
            BY DEF BadGateway, Response
      <3>5. BadGateway' = BadGateway
            BY Zenon DEF BadGateway
      <3> QED
            BY <1>6, <2>1, <3>3, <3>4, <3>5, Zenon DEF Sent
    <2>2. CASE Target # NoRoute
      <3>1. h = RewriteHeaders(Conf(Target).headers, req.resp.headers)
            BY <1>4, <1>7, <2>2, Zenon
      <3>2. Target' # NoRoute
            BY <1>6, <2>2, Zenon
      <3>3. RewriteHeaders(Conf(Target).headers, req.got.headers)' = RewriteHeaders(Conf(Target).headers, req.got.headers)
            BY <1>3, <1>6, Zenon
      <3>4. CASE req.resp = req.got
        <4>1. req'.resp.body = req'.got.body
              BY <1>3, <1>5, <3>4, Zenon
        <4>2. req'.resp.headers = RewriteHeaders(Conf(Target).headers, req.got.headers)'
              BY <1>5, <3>1, <3>3, <3>4, Zenon
        <4> QED
              BY <3>2, <4>1, <4>2, Zenon DEF Sent
      <3>5. CASE Paged(req.resp.body) /\ req.resp.headers = ErrorPage.headers
        <4>1. (ErrorPage.headers)' = ErrorPage.headers
              BY Zenon DEF ErrorPage, Response, Header
        <4>2. Paged(req.resp.body)'
          <5>1. PICK body : body = req.resp.body
                OBVIOUS
          <5>2. Paged(body)'
                BY <1>6, <3>5, <5>1, Zenon
          <5> QED
                BY <1>5, <5>1, <5>2, Zenon
        <4>3. RewriteHeaders(Conf(Target).headers, ErrorPage.headers)' = RewriteHeaders(Conf(Target).headers, ErrorPage.headers)
              BY <1>6, <4>1, Zenon
        <4>4. req'.resp.headers = RewriteHeaders(Conf(Target).headers, ErrorPage.headers)'
              BY <1>5, <3>1, <3>5, <4>3, Zenon
        <4> QED
              BY <3>2, <4>2, <4>4, Zenon DEF Sent
      <3> QED
            BY <1>4, <1>7, <3>4, <3>5, Zenon
    <2> QED
          BY <2>1, <2>2, Zenon
  <1>8. ASSUME req.steady PROVE Passed' /\ Chosen' /\ Labelled' /\ ~req'.resp.hop
        BY <1>4, <1>5, <1>6, <1>8, Zenon
  <1> QED
        BY <1>3, <1>7, <1>8, Zenon DEF SteadyInv, Steady, Begun

(***************************************************************************)
(* SteadyInv is preserved by every step; a change of the table ends it for *)
(* the request that is on its way.                                         *)
(***************************************************************************)
LEMMA SteadyInductive ==
  ASSUME RequestInv, SteadyInv, [Next]_vars
  PROVE  SteadyInv'
  <1> USE DEF RequestInv
  <1>1. CASE Miss \/ Hello \/ HttpRedirect \/ DomainRedirect
        BY <1>1, SteadyBegins, Zenon
  <1>2. CASE RewriteRequest \/ RoundTrip
        BY <1>2, SteadySends, Zenon
  <1>3. CASE Track
        BY <1>3, SteadyTracks, Zenon
  <1>4. CASE FetchErrorPage \/ ErrorRoundTrip
        BY <1>4, SteadyPages, Zenon
  <1>5. CASE Answer
        BY <1>5, SteadyAnswers, Zenon
  <1>6. CASE Follow \/ Leave
        BY <1>6, NewRequestSteady, Zenon DEF Follow, Leave
  <1>7. ASSUME NEW host \in Asked, NEW tls \in BOOLEAN, NEW client \in Clients, Arrive(host, tls, client)
        PROVE  SteadyInv'
        BY <1>7, NewRequestSteady, Zenon DEF Arrive
  <1>8. CASE TableStep
    <2>1. /\ UNCHANGED <<frontend, req.pc, req.tls, req.upstream, req.missed>>
          /\ req'.steady = (req.pc = "idle")
          BY <1>8, Zenon DEF TableStep, LookupInv, Fields
    <2>2. Entry(req.tls)' = Entry(req.tls)
          BY <2>1, Zenon DEF Entry
    <2>3. CASE req.pc = "idle"
      <3>1. ~req'.missed
            BY <2>1, <2>3, Zenon DEF LookupInv, Looking
      <3> QED
            BY <2>1, <2>3, <3>1, SteadyTrivially, Zenon DEF Begun
    <2>4. CASE req.pc # "idle"
          BY <2>1, <2>2, <2>4, Zenon DEF SteadyInv
    <2> QED
          BY <2>3, <2>4, Zenon
  <1>9. CASE UNCHANGED vars
    <2>1. UNCHANGED <<tableVars, frontend, req>>
          BY <1>9, Zenon DEF vars
    <2>2. Entry(req.tls)' = Entry(req.tls) /\ Key' = Key
          BY <2>1, Zenon DEF Entry, Key, CountKey
    <2>3. Get(domains, Key)' = Get(domains, Key)
          BY <2>1, <2>2, SameTable, Zenon
    <2>4. Steady => Steady'
      <3>1. req.missed /\ Steady => Get(domains, Key) = NoRoute
            BY Zenon DEF Steady
      <3> QED
            BY <2>1, <2>3, <3>1, SteadySame, Zenon
    <2> QED
          BY <2>1, <2>2, <2>4, Zenon DEF SteadyInv
  <1> QED
        BY <1>1, <1>2, <1>3, <1>4, <1>5, <1>6, <1>7, <1>8, <1>9, Zenon DEF Next, RequestStep

(***************************************************************************)
(* Unless the table changes meanwhile, a request is answered or redirected *)
(* by one route (RewriteRequest, RewriteResponse, RewriteError,            *)
(* DomainRedirector and the counters, which each look the route up).       *)
(***************************************************************************)
THEOREM OneRouteHandles == Spec => []HandledByOneRoute
  <1>1. Init => SteadyInv
    <2> SUFFICES ASSUME Init PROVE SteadyInv
        BY Zenon
    <2>1. req.pc = "idle" /\ req.missed = FALSE
          BY Zenon DEF Init, NoRequest, NewRequest
    <2> QED
          BY <2>1, Zenon DEF SteadyInv, Steady, Begun, Responded, Tracked
  <1>2. RequestInv /\ SteadyInv /\ [Next]_vars => SteadyInv'
        BY SteadyInductive, Zenon
  <1>3. SteadyInv => HandledByOneRoute
    <2> SUFFICES ASSUME SteadyInv PROVE HandledByOneRoute
        BY Zenon
    <2>1. ASSUME req.steady, req.pc = "answered"
          PROVE  /\ IF Target = NoRoute THEN Unrouted ELSE RoutedBy(Conf(Target))
                 /\ Labelled
      <3>1. Passed /\ Chosen /\ Sent /\ Labelled /\ ~req.resp.hop
            BY <2>1, Zenon DEF SteadyInv, Steady, Responded, Tracked
      <3>2. CASE Target = NoRoute
            BY <3>1, <3>2, Zenon DEF Chosen, Sent, Unrouted
      <3>3. CASE Target # NoRoute
            BY <3>1, <3>3, Zenon DEF Passed, Chosen, Sent, Paged, RoutedBy
      <3> QED
            BY <3>1, <3>2, <3>3, Zenon
    <2>2. ASSUME req.steady, req.pc = "redirected" PROVE Redirected
          BY <2>2, Zenon DEF SteadyInv, Steady
    <2> QED
          BY <2>1, <2>2, Zenon DEF HandledByOneRoute, Redirected, Labelled, Target, CountKey
  <1> QED
        BY <1>1, <1>2, <1>3, RequestInvariant, PTL DEF Spec

-----------------------------------------------------------------------------
(***************************************************************************)
(* What is served is in the table.                                         *)
(***************************************************************************)
ServingInv ==
  /\ Len(config) <= MaxLoads
  /\ serving \subseteq RoutesOf(domains) \cup RoutesOf(fallback)

(***************************************************************************)
(* A new configuration leaves the earlier ones alone.                      *)
(***************************************************************************)
LEMMA OlderRoutes ==
  ASSUME TableInv, NEW c, config' = Append(config, c), NEW v \in 0..Len(config)
  PROVE  (v = 0 \/ config'[v] = config[v]) /\ config'[Len(config) + 1] = c /\ Len(config') = Len(config) + 1
  <1>1. config \in Seq(Configs)
        BY Zenon DEF TableInv
  <1> QED
        BY <1>1

(***************************************************************************)
(* A configuration change keeps ServingInv.                                *)
(***************************************************************************)
LEMMA ServingInductive ==
  ASSUME TableInv, ServingInv, [TableNext]_tableVars
  PROVE  ServingInv'
  <1>1. fallback \in 0..Len(config) /\ domains \in 0..Len(config) /\ Len(config) \in Nat
        BY DEF TableInv
  <1>2. ASSUME NEW c \in Configs, config' = Append(config, c), Len(config) < MaxLoads
        PROVE  /\ Len(config') <= MaxLoads /\ Len(config') = Len(config) + 1 /\ Len(config') # 0
               /\ config'[Len(config')] = c
               /\ domains = 0 \/ config'[domains] = config[domains]
               /\ fallback = 0 \/ config'[fallback] = config[fallback]
    <2>1. /\ config'[Len(config) + 1] = c /\ Len(config') = Len(config) + 1
          /\ domains = 0 \/ config'[domains] = config[domains]
          /\ fallback = 0 \/ config'[fallback] = config[fallback]
          BY <1>1, <1>2, OlderRoutes, Zenon
    <2>2. Len(config) + 1 <= MaxLoads /\ Len(config) + 1 # 0
          BY <1>1, <1>2, RequestAssumption
    <2> QED
          BY <2>1, <2>2, Zenon
  <1>3. ASSUME NEW c \in Configs, Refuse(c) PROVE ServingInv'
    <2>1. config' = Append(config, c) /\ Len(config) < MaxLoads /\ UNCHANGED <<domains, fallback, serving>>
          BY <1>3, Zenon DEF Refuse
    <2>2. /\ Len(config') <= MaxLoads
          /\ domains = 0 \/ config'[domains] = config[domains]
          /\ fallback = 0 \/ config'[fallback] = config[fallback]
          BY <1>2, <2>1, Zenon
    <2> QED
          BY <2>1, <2>2, Zenon DEF ServingInv, RoutesOf
  <1>4. ASSUME NEW c \in Configs, PublishDomains(c) PROVE ServingInv'
    <2>1. config' = Append(config, c) /\ Len(config) < MaxLoads /\ domains' = Len(config') /\ fallback' = fallback
          BY <1>4, Zenon DEF PublishDomains
    <2>2. PICK new \in SUBSET (DOMAIN c.routes) :
            serving' = (serving \cap RoutesOf(fallback)) \cup {<<domains', i>> : i \in new}
          BY <1>4, Zenon DEF PublishDomains
    <2>3. /\ Len(config') <= MaxLoads /\ domains' # 0 /\ config'[domains'] = c
          /\ fallback = 0 \/ config'[fallback] = config[fallback]
          BY <1>2, <2>1, Zenon
    <2>4. RoutesOf(fallback) \subseteq RoutesOf(fallback)'
          BY <2>1, <2>3, Zenon DEF RoutesOf
    <2>5. RoutesOf(domains)' = {<<domains', i>> : i \in DOMAIN c.routes}
          BY <2>3, Zenon DEF RoutesOf
    <2>6. {<<domains', i>> : i \in new} \subseteq RoutesOf(domains)'
          BY <2>5, Zenon
    <2> QED
          BY <2>2, <2>3, <2>4, <2>6, Zenon DEF ServingInv
  <1>5. CASE PublishFallback
        BY <1>5, Zenon DEF PublishFallback, ServingInv, RoutesOf
  <1>6. CASE Check
    <2>1. UNCHANGED <<config, domains, fallback>>
          BY <1>6, Zenon DEF Check
    <2>2. PICK r \in RoutesOf(domains) \cup RoutesOf(fallback) :
            serving' = IF r \in serving THEN serving \ {r} ELSE serving \cup {r}
          BY <1>6, Zenon DEF Check
    <2>3. serving' \subseteq RoutesOf(domains) \cup RoutesOf(fallback)
          BY <2>2, Zenon DEF ServingInv
    <2>4. \A v : RoutesOf(v)' = RoutesOf(v)
          BY <2>1, Zenon DEF RoutesOf
    <2> QED
          BY <2>1, <2>3, <2>4, Zenon DEF ServingInv
  <1>7. CASE UNCHANGED tableVars
        BY <1>7, Zenon DEF tableVars, ServingInv, RoutesOf
  <1> QED
      BY <1>3, <1>4, <1>5, <1>6, <1>7, Zenon DEF TableNext

(***************************************************************************)
(* Handlers pass a request on with a response exactly from the upstream's  *)
(* answer on, and redirect it to a name.                                   *)
(***************************************************************************)
Places    == {"idle", "plain", "upstream", "fetch", "redirected"} \cup Looking \cup Ended

PathInv ==
  /\ frontend \in Frontends
  /\ req.pc \in Places
  /\ req.pc # "idle" => req.host \in Hosts
  /\ IF req.pc \in Responded THEN req.resp.status \in 100..599 ELSE req.resp = NoResponse
  /\ IF req.pc = "redirected" THEN req.location.name \in Names ELSE req.location = NoLocation

(***************************************************************************)
(* Steps that leave host, response and location alone.                     *)
(***************************************************************************)
LEMMA PathOn ==
  ASSUME PathInv, UNCHANGED <<frontend, req.host, req.resp, req.location>>,
         req.pc \notin {"idle", "redirected"}, req'.pc \in Places \ {"idle", "redirected"},
         req.pc \in Responded <=> req'.pc \in Responded
  PROVE  PathInv'
  BY Zenon DEF PathInv

(***************************************************************************)
(* A request that has come in, or has ended, satisfies PathInv.            *)
(***************************************************************************)
LEMMA NewRequestPath ==
  ASSUME PathInv, frontend' = frontend,
         \/ req' = NoRequest
         \/ \E host \in Hosts : \E tls, client : req' = NewRequest(Entry(tls), host, tls, client)
  PROVE  PathInv'
  <1>1. CASE req' = NoRequest
    <2>1. req'.pc = "idle" /\ req'.resp = NoResponse /\ req'.location = NoLocation
          BY <1>1, Zenon DEF NoRequest, NewRequest
    <2> QED
          BY <2>1, Zenon DEF PathInv, Places, Responded
  <1>2. ASSUME NEW tls, NEW host \in Hosts, NEW client, req' = NewRequest(Entry(tls), host, tls, client)
        PROVE  PathInv'
    <2>1. req'.pc = Entry(tls) /\ req'.resp = NoResponse /\ req'.location = NoLocation /\ req'.host = host
          BY <1>2, Zenon DEF NewRequest
    <2>2. Entry(tls) \in {"hello", "redirector", "plain"}
          BY Zenon DEF Entry
    <2> QED
          BY <2>1, <2>2, Zenon DEF PathInv, Places, Responded, Looking
  <1> QED
        BY <1>1, <1>2, Zenon

(***************************************************************************)
(* The first domain of a route that is served is a name.                   *)
(***************************************************************************)
LEMMA ServedNames ==
  ASSUME TableInv, ServingInv, NEW r \in serving
  PROVE  Conf(r).domains[1] \in Names
  <1>1. PICK v \in {domains, fallback} : r \in RoutesOf(v)
        BY Zenon DEF ServingInv
  <1>2. v # 0
        BY <1>1, Zenon DEF RoutesOf
  <1>3. PICK i \in DOMAIN config[v].routes : r = <<v, i>>
        BY <1>1, <1>2, Zenon DEF RoutesOf
  <1>4. config[v] \in Configs
        BY <1>2 DEF TableInv
  <1>5. config[v].routes[i].domains \in Seq(Names) \ {<<>>}
        BY <1>3, <1>4, RequestAssumption, Zenon
  <1>6. Conf(r) = config[v].routes[i]
        BY <1>3 DEF Conf
  <1> DEFINE ds == config[v].routes[i].domains
  <1> HIDE DEF ds
  <1>7. ds[1] \in Names
    <2>1. ds \in Seq(Names) \ {<<>>}
          BY <1>5, Zenon DEF ds
    <2> QED
        BY <2>1
  <1> QED
        BY <1>6, <1>7, Zenon DEF ds

(***************************************************************************)
(* Every step of a request keeps PathInv.                                  *)
(***************************************************************************)
LEMMA PathStep ==
  ASSUME RequestInv, ServingInv, PathInv, RequestStep
  PROVE  PathInv'
  <1> USE DEF RequestInv, LookupInv, Fields
  <1>1. CASE Miss
    <2>1. UNCHANGED <<frontend, req.host, req.resp, req.location, req.pc>> /\ req.pc \in Looking
          BY <1>1, Zenon DEF Miss
    <2>2. req.pc \in Places \ {"idle", "redirected"}
          BY <2>1, Zenon DEF Looking, Places
    <2> QED
          BY <2>1, <2>2, PathOn, Zenon
  <1>2. CASE Hello
    <2>1. /\ UNCHANGED <<frontend, req.host, req.resp, req.location>>
          /\ req.pc = "hello" /\ req'.pc \in {"closed", "redirector"}
          BY <1>2, Zenon DEF Hello, At, Looked
    <2> QED
          BY <2>1, PathOn, Zenon DEF Places, Responded, Looking, Ended
  <1>3. CASE HttpRedirect
    <2>1. req.pc = "plain" /\ UNCHANGED frontend
          BY <1>3, Zenon DEF HttpRedirect
    <2>2. CASE req' = [req EXCEPT !.pc = "refused"]
      <3>1. UNCHANGED <<req.host, req.resp, req.location>> /\ req'.pc = "refused"
            BY <2>2, Zenon
      <3> QED
            BY <2>1, <3>1, PathOn, Zenon DEF Places, Responded, Looking, Ended
    <2>3. CASE req' = RedirectTo(req, req.host.name, TRUE)
      <3>1. req'.location = [name |-> req.host.name, tls |-> TRUE] /\ req'.pc = "redirected"
            /\ req'.host = req.host /\ req'.resp = req.resp
            BY <2>3, Zenon DEF RedirectTo
      <3>2. req.host \in Hosts /\ req.resp = NoResponse
            BY <2>1, Zenon DEF PathInv, Responded
      <3>3. req'.location.name \in Names
            BY <3>1, <3>2 DEF Hosts
      <3> QED
            BY <2>1, <3>1, <3>2, <3>3, Zenon DEF PathInv, Places, Responded
    <2> QED
          BY <1>3, <2>2, <2>3, Zenon DEF HttpRedirect
  <1>4. CASE DomainRedirect
    <2> DEFINE r == RouteForDomain(RouteFor)
    <2>1. req.pc = "redirector" /\ UNCHANGED frontend
          BY <1>4, Zenon DEF DomainRedirect, At
    <2>2. CASE r # NoRoute /\ req' = RedirectTo(Looked, Conf(r).domains[1], req.tls)
      <3>1. r \in serving
            BY <2>2, Zenon DEF RouteForDomain
      <3> HIDE DEF r
      <3>2. Conf(r).domains[1] \in Names
            BY <3>1, ServedNames, Zenon
      <3> DEFINE name == Conf(r).domains[1]
      <3> HIDE DEF name
      <3>3. req'.location = [name |-> name, tls |-> req.tls] /\ req'.pc = "redirected"
            /\ req'.host = req.host /\ req'.resp = req.resp
            BY <2>2, Zenon DEF RedirectTo, Looked, name
      <3>4. req'.location.name \in Names
        <4>1. [name |-> name, tls |-> req.tls].name = name
              BY Zenon
        <4>2. req'.location.name = name
              BY <3>3, <4>1, Zenon
        <4> QED
            BY <3>2, <4>2, Zenon DEF name
      <3>5. req.host \in Hosts /\ req.resp = NoResponse
            BY <2>1, Zenon DEF PathInv, Responded
      <3> QED
            BY <2>1, <3>3, <3>4, <3>5, Zenon DEF PathInv, Places, Responded
    <2>3. CASE req' = [Looked EXCEPT !.pc = "rewrite"]
      <3>1. UNCHANGED <<req.host, req.resp, req.location>> /\ req'.pc = "rewrite"
            BY <2>3, Zenon DEF Looked
      <3> QED
            BY <2>1, <3>1, PathOn, Zenon DEF Places, Responded, Looking, Ended
    <2> QED
          BY <1>4, <2>2, <2>3, Zenon DEF DomainRedirect
  <1>5. CASE RewriteRequest
    <2>1. req.pc = "rewrite" /\ UNCHANGED frontend
          BY <1>5, Zenon DEF RewriteRequest, At
    <2>2. CASE req' = [Looked EXCEPT !.pc = "count", !.got = BadGateway, !.resp = BadGateway]
      <3>1. req'.resp = BadGateway /\ req'.pc = "count" /\ req'.host = req.host /\ req'.location = req.location
            BY <2>2, Zenon DEF Looked
      <3>2. BadGateway.status \in 100..599
            BY DEF BadGateway, Response
      <3> QED
            BY <2>1, <3>1, <3>2, Zenon DEF PathInv, Places, Responded, Looking
    <2>3. ASSUME NEW u,
                 req' = [Looked EXCEPT !.pc = "upstream", !.out = <<Decorate(Incoming)>>, !.upstream = u]
          PROVE  PathInv'
      <3>1. UNCHANGED <<req.host, req.resp, req.location>> /\ req'.pc = "upstream"
            BY <2>3, Zenon DEF Looked
      <3> QED
            BY <2>1, <3>1, PathOn, Zenon DEF Places, Responded, Looking, Ended
    <2> QED
          BY <1>5, <2>2, <2>3, Zenon DEF RewriteRequest
  <1>6. CASE RoundTrip
    <2>1. req.pc = "upstream" /\ UNCHANGED frontend
          BY <1>6, Zenon DEF RoundTrip
    <2>2. PICK r \in {Response(s, "upstream", <<<<"up">>>>) : s \in Statuses} \cup {BadGateway} :
            req' = [req EXCEPT !.pc = "count", !.got = r, !.resp = r]
          BY <1>6, Zenon DEF RoundTrip
    <2>3. r.status \in 100..599
      <3>1. BadGateway.status \in 100..599
            BY DEF BadGateway, Response
      <3>2. \A s \in Statuses : Response(s, "upstream", <<<<"up">>>>).status \in 100..599
            BY RequestAssumption, Zenon DEF Response
      <3> QED
            BY <2>2, <3>1, <3>2, Zenon
    <2>4. req'.resp = r /\ req'.pc = "count" /\ req'.host = req.host /\ req'.location = req.location
          BY <2>2, Zenon
    <2> QED
          BY <2>1, <2>3, <2>4, Zenon DEF PathInv, Places, Responded, Looking
  <1>7. CASE Track
    <2>1. /\ UNCHANGED <<frontend, req.host, req.resp, req.location>>
          /\ req.pc = "count" /\ req'.pc \in {"page", "headers"}
          BY <1>7, Zenon DEF Track, At, Looked
    <2> QED
          BY <2>1, PathOn, Zenon DEF Places, Responded, Looking, Ended
  <1>8. CASE FetchErrorPage
    <2>1. /\ UNCHANGED <<frontend, req.host, req.resp, req.location>>
          /\ req.pc = "page" /\ req'.pc \in {"fetch", "headers"}
          BY <1>8, Zenon DEF FetchErrorPage, At, Looked
    <2> QED
          BY <2>1, PathOn, Zenon DEF Places, Responded, Looking, Ended
  <1>9. CASE ErrorRoundTrip
    <2> DEFINE page == Replace(req.resp, ErrorPage)
    <2>1. page.status = req.resp.status
          BY Zenon DEF Replace, ErrorPage, Response
    <2>2. req.pc = "fetch" /\ UNCHANGED frontend
          BY <1>9, Zenon DEF ErrorRoundTrip
    <2>3. /\ req'.resp \in {req.resp, page} /\ req'.pc = "headers"
          /\ req'.host = req.host /\ req'.location = req.location
          BY <1>9, Zenon DEF ErrorRoundTrip
    <2> HIDE DEF page
    <2> QED
          BY <2>1, <2>2, <2>3, Zenon DEF PathInv, Places, Responded, Looking
  <1>10. CASE Answer
    <2>1. req.pc = "headers" /\ UNCHANGED frontend
          BY <1>10, Zenon DEF Answer, At
    <2>2. {"status", "body", "headers", "hop"} \subseteq DOMAIN req.resp
          BY <2>1, Zenon DEF CountInv, Tracked
    <2>3. /\ req'.resp.status = req.resp.status /\ req'.pc = "answered"
          /\ req'.host = req.host /\ req'.location = req.location
          BY <1>10, <2>2, Zenon DEF Answer, Looked
    <2> QED
          BY <2>1, <2>3, Zenon DEF PathInv, Places, Responded, Ended
  <1>11. CASE Follow
    <2>1. req.location.name \in Names
          BY <1>11, Zenon DEF Follow, PathInv
    <2>2. [name |-> Lower[req.location.name], port |-> FALSE] \in Hosts
          BY <2>1, RequestAssumption DEF Hosts
    <2> QED
          BY <1>11, <2>2, NewRequestPath, Zenon DEF Follow
  <1> QED
      BY <1>1, <1>2, <1>3, <1>4, <1>5, <1>6, <1>7, <1>8, <1>9, <1>10, <1>11, Zenon DEF RequestStep

(***************************************************************************)
(* Every step of the system keeps ServingInv and PathInv.                  *)
(***************************************************************************)
LEMMA PathInductive ==
  ASSUME RequestInv, ServingInv, PathInv, [Next]_vars
  PROVE  ServingInv' /\ PathInv'
  <1>1. CASE RequestStep
    <2>1. UNCHANGED tableVars
          BY <1>1, Zenon DEF RequestStep, Miss, Hello, HttpRedirect, DomainRedirect, RewriteRequest,
                      RoundTrip, Track, FetchErrorPage, ErrorRoundTrip, Answer, Follow
    <2> QED
          BY <1>1, <2>1, PathStep, ServingInductive, Zenon DEF RequestInv
  <1>2. ASSUME NEW host \in Asked, NEW tls \in BOOLEAN, NEW client \in Clients, Arrive(host, tls, client)
        PROVE  ServingInv' /\ PathInv'
    <2>1. host \in Hosts
          BY RequestAssumption, Zenon
    <2> QED
        BY <1>2, <2>1, NewRequestPath, ServingInductive, Zenon DEF Arrive, RequestInv
  <1>3. CASE Leave
        BY <1>3, NewRequestPath, ServingInductive, Zenon DEF Leave, RequestInv
  <1>4. CASE TableStep
    <2>1. ServingInv'
          BY <1>4, ServingInductive, Zenon DEF TableStep, RequestInv
    <2>2. UNCHANGED <<frontend, req.host, req.resp, req.location, req.pc>>
          BY <1>4, Zenon DEF TableStep, RequestInv, LookupInv, Fields
    <2>3. PathInv'
          BY <2>2, Zenon DEF PathInv
    <2> QED
          BY <2>1, <2>3, Zenon
  <1>5. CASE UNCHANGED vars
    <2>1. PathInv'
          BY <1>5, Zenon DEF vars, PathInv
    <2> QED
        BY <1>5, <2>1, ServingInductive, Zenon DEF vars, RequestInv
  <1> QED
      BY <1>1, <1>2, <1>3, <1>4, <1>5, Zenon DEF Next

(***************************************************************************)
(* A request keeps its types: at every step of its path it has the parts   *)
(* that the step uses.                                                     *)
(***************************************************************************)
THEOREM RequestTyped == Spec => []TypeOK
  <1>1. Init => ServingInv /\ PathInv
    <2> SUFFICES ASSUME Init PROVE ServingInv /\ PathInv
        BY Zenon
    <2>1. ServingInv
      <3>1. Len(<<>>) <= MaxLoads
            BY RequestAssumption
      <3> QED
          BY <3>1, Zenon DEF Init, TableInit, ServingInv
    <2>2. frontend \in Frontends /\ req.pc = "idle" /\ req.resp = NoResponse /\ req.location = NoLocation
          BY Zenon DEF Init, NoRequest, NewRequest
    <2> QED
          BY <2>1, <2>2, Zenon DEF PathInv, Places, Responded
  <1>2. RequestInv /\ ServingInv /\ PathInv /\ [Next]_vars => ServingInv' /\ PathInv'
        BY PathInductive, Zenon
  <1>3. RequestInv /\ ServingInv /\ PathInv /\ InformInv => TypeOK
    <2> SUFFICES ASSUME RequestInv, ServingInv, PathInv, InformInv PROVE TypeOK
        BY Zenon
    <2>1. TableTypeOK
      <3>1. config \in Seq(Configs) /\ domains \in 0..Len(config) /\ installed \in 0..domains /\ fallback = installed
            BY Zenon DEF RequestInv, TableInv
      <3>2. \A v \in DOMAIN config : config[v] \in Configs
            BY <3>1
      <3>3. \A v \in {domains, fallback, installed} : v = 0 \/ v \in DOMAIN config
            BY <3>1
      <3>4. \A v \in {domains, fallback, installed} : v = 0 \/ config[v].valid
        <4>1. /\ domains # 0 => config[domains].valid
              /\ installed # 0 => config[installed].valid
              BY Zenon DEF RequestInv, TableInv
        <4> QED
            BY <3>1, <4>1, Zenon
      <3> QED
            BY <3>2, <3>3, <3>4, Zenon DEF TableTypeOK, ServingInv
    <2>2. req.pc \in Responded <=> req.resp # NoResponse
      <3>1. NoResponse.status \notin 100..599
            BY DEF NoResponse, Response
      <3> QED
            BY <3>1, Zenon DEF PathInv
    <2> QED
          BY <2>1, <2>2, Zenon DEF TypeOK, PathInv, InformInv, RequestInv, LookupInv, Responded, Places
  <1>4. Init => InformInv
    <2> SUFFICES ASSUME Init PROVE InformInv
        BY Zenon
    <2>1. req.out = <<>> /\ req.told = <<>> /\ req.upstream = None
          BY Zenon DEF Init, NoRequest, NewRequest
    <2> QED
          BY <2>1, Zenon DEF InformInv
  <1>5. RequestInv /\ InformInv /\ [Next]_vars => InformInv'
        BY InformInductive, Zenon DEF RequestInv
  <1> QED
        BY <1>1, <1>2, <1>3, <1>4, <1>5, RequestInvariant, PTL DEF Spec

==============================================================================
